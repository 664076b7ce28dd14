\* Two threads, three calls, on trees of four dentries; a call is not obliged to begin.
SPECIFICATION FairSpec
CONSTANTS
  Threads = {t1, t2}
  Dirents = {1, 2, 3, 4, 5}
  Names = {"a", "b", "c"}
  None = None
  Root = 1
  Sites <- SitesAll
INVARIANTS HandlesKept NothingLeaks
PROPERTY CallsReturn
CHECK_DEADLOCK FALSE
