SPECIFICATION Spec
CONSTANTS
  Names = {"dev", "dev-test"}
  Kin <- Kindred
  Volumes = {}
  Configs <- MCConfigs
  Gui = "gui"
  Cli = "cli"
  Legacies = {"none"}
  Ops = {"cmd_create", "start_container"}
  Overlapping = {}
  None = None
  MaxCommands = 2
  MaxFaults = 1
INVARIANTS PathIsOwn
CHECK_DEADLOCK FALSE
