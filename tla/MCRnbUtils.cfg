SPECIFICATION FairSpec
CONSTANTS
  PoolSize = 2
  MainOutranksUtils = TRUE
INVARIANTS TypeOK ThreadFollowsConnection InterfaceFollowsRequest ConfiguredNodeIsStarted ThreadFollowsBus
PROPERTIES ThreadStops
