\* Three writes of up to a block each, and shorter ones with truncations and failing tapes.
SPECIFICATION Spec
CONSTANT Sites <- SitesBytes
INVARIANTS
  QueueCountsMatch
  ReadSeesWrites
  FlushKeepsNewest
  AltAgrees
  CacheAccounted
  ErrorPending
