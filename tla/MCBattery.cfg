SPECIFICATION Spec
CONSTANTS
  FullOhm = 1680000
  OutputOhm = 180000
  Raws <- MCRaws
  MaxPackets = 2
INVARIANTS TypeOK LedShowsStatus
PROPERTIES VoltageIsMeasured
