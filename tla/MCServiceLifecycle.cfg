CONSTANTS
  setup = setup
  poller = poller
  NumProcs = 2
  Procs <- MCProcs
  Tasks <- MCTasks
  Startup = setup
  MaxHosts = 2

SPECIFICATION Spec

INVARIANTS
  TypeOK
  OwnerIsDiscoverable
PROPERTIES
  OwnedServiceStops
  EveryCommandReturns
  HostSparesOthers
CHECK_DEADLOCK FALSE
