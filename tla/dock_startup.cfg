SPECIFICATION FairStartup
CONSTANTS
  Daemons = {d1, d2, d3}
  Bootstraps = {b1, b2, b3}
  Nobody = Nobody
PROPERTIES DaemonsSpareEachOther BootstrapReturns
CHECK_DEADLOCK FALSE
