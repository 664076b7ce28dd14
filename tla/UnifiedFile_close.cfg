\* A close frees the record before the error is on it; both partitions run full.
SPECIFICATION Spec
CONSTANT Sites <- SitesErrors
INVARIANT ErrorReported
