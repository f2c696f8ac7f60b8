SPECIFICATION Spec
CONSTANTS
  Names = {"dev"}
  Kin <- NoKin
  Volumes = {"v"}
  Configs <- MCConfigs
  Gui = "gui"
  Cli = "cli"
  Legacies = {"none"}
  Ops = {"env_new", "cmd_create"}
  Overlapping = {}
  None = None
  MaxCommands = 1
  MaxFaults = 2
PROPERTIES DataIsSpared
CHECK_DEADLOCK FALSE
