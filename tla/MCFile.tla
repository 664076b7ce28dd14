------------------------------- MODULE MCFile -------------------------------
(* Sites for UnifiedFile: block and pool sizes, the writes and their results. *)
EXTENDS UnifiedFile

\* The tape takes everything.
Site(size, blocks, maxfile, maxwrite, writes_, ip) ==
  [CacheSize |-> size, CacheBlocks |-> blocks, MaxFile |-> maxfile, MaxWrite |-> maxwrite, MaxWrites |-> writes_,
   MaxIpSize |-> ip, DpResults |-> {"ok"}, IpResults |-> {"ok"}, Truncates |-> FALSE]

\* Three writes of up to a block each: blocks of four bytes are the smallest in
\* which a request can overtake the next one.
Bytes4 == Site(4, 3, 5, 4, 3, 4)

\* A write has to wait for a block in the middle of splitting a request.
Split == Site(3, 2, 4, 3, 3, 4)

\* Writes and truncations with less cache than the file needs.
Pressure == [Site(2, 2, 3, 2, 3, 3) EXCEPT !.Truncates = TRUE]

\* Either partition fills up or fails for good, for a file that always has a
\* second copy, one that outgrows it and one without.
Failures == [Site(2, 2, 3, 2, 3, 3) EXCEPT !.Truncates = TRUE, !.DpResults = Results, !.IpResults = Results]
Outgrows == [Failures EXCEPT !.MaxIpSize = 2]
OneCopy == [Failures EXCEPT !.MaxIpSize = 0]

\* One block for all: the second write waits for the first one's.
Starved == [Failures EXCEPT !.CacheBlocks = 1, !.MaxWrites = 2, !.IpResults = {"ok"}]

SitesBytes == {Bytes4, Split, Failures, Outgrows, OneCopy, Starved}
SitesPressure == {Pressure}

\* A write that swallows the next request and goes on behind it.
SitesSkip == {Site(4, 3, 6, 4, 3, 0)}

\* The same, then a truncation and a write in front.
SitesSize == {[Site(4, 3, 4, 4, 4, 0) EXCEPT !.Truncates = TRUE]}

\* The index partition fills up before the second copy is rewritten.
SitesIpstale == {[Site(2, 2, 3, 2, 2, 3) EXCEPT !.IpResults = {"ok", "nospace"}]}

\* The data partition fails for good while a file is closed; both fill up.
Closing == [Site(2, 2, 3, 2, 2, 0) EXCEPT !.DpResults = {"ok", "perm"}]
BothFull == [Site(2, 2, 3, 2, 3, 3) EXCEPT !.DpResults = {"ok", "nospace"}, !.IpResults = {"ok", "nospace"}]
SitesErrors == {Closing, BothFull}
=============================================================================
