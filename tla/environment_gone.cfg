SPECIFICATION Spec
CONSTANTS
  Names = {"dev"}
  Kin <- NoKin
  Volumes = {}
  Configs <- MCConfigs
  Gui = "gui"
  Cli = "cli"
  Legacies = {"xdg"}
  Ops <- RemoveAndList
  Overlapping = {}
  None = None
  MaxCommands = 2
  MaxFaults = 0
PROPERTIES GoneStaysGone
CHECK_DEADLOCK FALSE
