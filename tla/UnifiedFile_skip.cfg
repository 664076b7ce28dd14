\* A write that swallows the next request and goes on behind it.
SPECIFICATION Spec
CONSTANT Sites <- SitesSkip
INVARIANT FlushWritesFile
