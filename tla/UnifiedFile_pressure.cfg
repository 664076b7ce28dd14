\* Writes and truncations with less cache than the file needs.
SPECIFICATION FairSpec
CONSTANT Sites <- SitesPressure
INVARIANT DiskIsFile
PROPERTY WriteReturns
