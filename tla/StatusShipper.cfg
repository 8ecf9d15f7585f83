SPECIFICATION ShipperSpec
CONSTANTS
  MaxVersions = 4
  MaxPasses = 1
  MaxFaults = 2
  MaxCrashes = 2
INVARIANT FinalIsArchived
PROPERTY ArchiveNeverGoesBack
PROPERTY LatestIsUploaded
