SPECIFICATION Spec
CONSTANTS
  Names = {"dev"}
  Kin <- NoKin
  Volumes = {"v"}
  Configs <- MCConfigs
  Gui = "gui"
  Cli = "cli"
  Legacies = {"none", "home", "xdg"}
  Ops <- AllOps
  Overlapping <- MCOverlapping
  None = None
  MaxCommands = 2
  MaxFaults = 1
INVARIANTS RegistryTellsTheTruth
PROPERTIES FailedCreateTakesBackItsOwn RemovedMeansGone FailsOnlyForCause
CHECK_DEADLOCK FALSE
