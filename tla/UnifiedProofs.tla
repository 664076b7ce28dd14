--------------------------- MODULE UnifiedProofs ---------------------------
(***************************************************************************)
(* The queue counters, the cache blocks and the pending error of the       *)
(* unified I/O scheduler, proved of UnifiedFile for every configuration:   *)
(* any block and cache size, any number, size and order of writes, any     *)
(* outcome of the writes to the tape.                                      *)
(***************************************************************************)
EXTENDS UnifiedLemmas

\* a write in progress, a walk in progress, the writer thread and the tape
WriteRecord == [pc : {"idle", "append", "scan", "before", "out", "wait", "retry"},
                offset : Nat, size : Nat, cur : Nat, prev : Nat, spare : BOOLEAN]
OpRecord == [pc : {"idle", "data", "end", "index"},
             mode : {"none", "close", "flush", "unmount", "DP", "PARTIAL", "IP"}, cur : Nat]
BgRecord == [pc : {"idle", "tape", "fail"}, local : Seq(Request), ret : Errors]
TapeRecord == [space : [{"DP", "IP"} -> {"ok", "less", "nospace"}], pwe : BOOLEAN]

LostStates == {"no", "pending", "silent", "index", "gone", "stale"}

\* the types of the variables that the bookkeeping depends on
Types ==
  /\ site \in Sites /\ IsPriv(dpr) /\ IsGlobal(global)
  /\ wr \in WriteRecord /\ op \in OpRecord /\ bg \in BgRecord /\ tape \in TapeRecord
  /\ lost \in LostStates /\ writes \in Nat

\* the phases of unified_write in which it holds the iosched_lock
Phases == {"append", "scan", "before", "out"}

\* what a write in progress has to do is in the list d it works on
WriteOk(w, d) ==
  /\ w.pc \in {"idle", "wait"} => ~w.spare
  /\ w.pc \in {"append", "wait", "retry"} => w.size > 0
  /\ w.pc \in {"scan", "before"} => w.prev < w.cur
  /\ w.pc = "before" => w.cur <= Len(d.requests)
  /\ w.pc \in Phases => d.alloc /\ d.write_error = "ok"

\* no dentry_priv, no requests
Blank(d) == ~d.alloc => d.requests = <<>> /\ d.write_error = "ok"

\* a walk holds the iosched_lock, so no write does
Writing ==
  /\ op.pc # "idle" => wr.pc \in {"idle", "wait"}
  /\ WriteOk(wr, dpr) /\ Blank(dpr)

\* who can be where at the same time, and whose requests bg.local holds
Threads ==
  /\ op.pc = "index" => bg.pc = "idle" /\ op.mode \in {"unmount", "IP"}
  /\ op.pc \in {"data", "end"} => op.mode \notin {"none", "IP"}
  /\ op.pc \in {"data", "end"} /\ op.mode # "close" => bg.pc = "idle"
  /\ op.pc = "data" => bg.pc # "tape"
  /\ bg.pc = "idle" /\ (op.pc \in {"idle", "index"} \/ IsFlush(op.mode)) => bg.local = <<>>
  /\ bg.pc # "idle" => bg.local # <<>>

\* the walk o in progress has left no request of its kind behind
Passed(q, o) ==
  \A k \in DOMAIN q : k < o.cur =>
    /\ o.pc = "data" => q[k].state # "DP" /\ (o.mode # "DP" => q[k].state = "IP")
    /\ o.pc = "index" => q[k].state # "IP"

\* the counters that the walk o has not cleared
Live(o) ==
  IF o.pc = "data" THEN IF o.mode = "DP" THEN {"PARTIAL", "IP"} ELSE {"IP"}
  ELSE IF o.pc = "index" THEN {"DP", "PARTIAL"} ELSE States

\* those match the list; the others, of which the walk has left none behind, are 0
CountersOk(S, o) ==
  /\ Matched(S, Live(o))
  /\ \A st \in States : st \notin Live(o) => S.d.in[st] = 0
  /\ o.pc \in {"data", "index"} => o.cur > 0 /\ Passed(S.d.requests, o)

\* the counters, at every step
Counting == Balanced(Pair) /\ CountersOk(Pair, op)

\* the blocks a write in progress holds
Spare(w) == IF w.spare THEN 1 ELSE 0

\* where the blocks in use are
Accounted(S, b, w) ==
  S.g.cache = Len(S.d.requests) + Len(b.local) + Spare(w) + S.g.leaked

\* the blocks, at every step
Cache == Fits(dpr.requests) /\ Accounted(Pair, bg, wr)

\* after an error only copies for the index partition are left
Cleared(d) == d.write_error # "ok" => AllIp(d.requests)

\* what an error leaves behind, and what the steps of an error can rely on
Failing ==
  /\ Cleared(dpr)
  /\ op.pc = "data" => dpr.alloc /\ dpr.write_error = "ok"
  /\ op.pc = "end" /\ ~IsFlush(op.mode) => dpr.alloc
  /\ op.pc \in {"end", "index"} /\ op.mode = "unmount" => AllIp(dpr.requests)
  /\ \A k \in DOMAIN bg.local : bg.local[k].state # "IP"
  /\ bg.pc = "fail" => bg.ret # "ok"
  /\ bg.pc = "tape" => dpr.alloc
  /\ op.pc = "end" /\ op.mode = "close" /\ bg.pc = "tape" => ~Frees(Pair)

\* the loss of bytes bound for the data partition is on record
Told(d) == lost = "pending" => d.alloc /\ (d.write_error # "ok" \/ bg.pc = "fail")
\* the same, at every step; the last walk of an unmount loses nothing
Telling ==
  /\ op.pc = "index" /\ op.mode = "unmount" => lost # "pending"
  /\ Told(dpr)

\* the inductive invariant
Inv == Types /\ Writing /\ Threads /\ Counting /\ Cache /\ Failing /\ Telling

-----------------------------------------------------------------------------
(* What holds in every state.                                              *)

(* The block size, in a state with the right types. *)
LEMMA SiteLaw ==
  ASSUME Types
  PROVE  CacheSize \in Nat \ {0} /\ IpResults \subseteq Results /\ DpResults \subseteq Results
BY SiteAssumption DEF Types, CacheSize, IpResults, DpResults

(* The pair of structures that the helpers work on. *)
LEMMA PairLaw ==
  ASSUME Types, Balanced(Pair)
  PROVE  Sound(Pair) /\ Pair.d = dpr /\ Pair.g = global
BY DEF Types, Pair, Sound, IsPair

(* An empty list. *)
LEMMA CountEmpty ==
  ASSUME NEW st
  PROVE  Count(<<>>, st) = 0
<1>1. InState(<<>>, st) = {}
  BY DEF InState
<1>2. QED
  BY <1>1, FS_EmptySet DEF Count

(* The counters of the initial state. *)
LEMMA InitLaw ==
  ASSUME Init
  PROVE  Inv
<1>1. dpr = NoPriv /\ global = NoGlobal /\ wr = IdleWrite /\ op = IdleOp /\ bg = IdleBg
  BY DEF Init
<1>2. /\ DOMAIN dpr = PrivFields /\ dpr.requests = <<>> /\ dpr.in = [q \in States |-> 0]
      /\ dpr.alloc = FALSE /\ dpr.write_ip = FALSE /\ dpr.write_error = "ok"
  BY <1>1 DEF NoPriv, PrivFields
<1>3. IsPriv(dpr)
  <2>1. dpr.requests \in Seq(Request) /\ dpr.in \in [States -> Nat]
    BY <1>2
  <2>2. dpr.alloc \in BOOLEAN /\ dpr.write_ip \in BOOLEAN /\ dpr.write_error \in Errors
    BY <1>2 DEF Errors, Results
  <2>3. QED
    BY <1>2, <2>1, <2>2 DEF IsPriv
<1>4. /\ IsGlobal(global) /\ global.cache = 0 /\ global.leaked = 0
      /\ global.dp_request_count = 0
  BY <1>1 DEF NoGlobal, IsGlobal, GlobalFields
<1>5. wr \in WriteRecord /\ op \in OpRecord /\ bg \in BgRecord
  BY <1>1 DEF IdleWrite, WriteRecord, IdleOp, OpRecord, IdleBg, BgRecord, Errors, Results
<1>6. tape \in TapeRecord /\ tape.space["IP"] = "ok"
  BY DEF Init, TapeRecord
<1>7. Types
  BY <1>3, <1>4, <1>5, <1>6 DEF Types, Init, LostStates
<1>8. wr.pc = "idle" /\ wr.spare = FALSE /\ op.pc = "idle" /\ bg.pc = "idle" /\ bg.local = <<>>
  BY <1>1 DEF IdleWrite, IdleOp, IdleBg
<1>9. Writing
  BY <1>2, <1>8 DEF Writing, WriteOk, Blank, Phases
<1>10. Threads
  BY <1>8 DEF Threads
<1>11. Pair.d = dpr /\ Pair.g = global
  BY DEF Pair
<1>12. Counting
  <2>1. Balanced(Pair)
    BY <1>2, <1>4, <1>11 DEF Balanced, States
  <2>2. Matched(Pair, States)
    BY <1>2, <1>11, CountEmpty DEF Matched
  <2>3. QED
    BY <1>8, <2>1, <2>2 DEF Counting, CountersOk, Live
<1>13. Cache
  <2>1. Fits(dpr.requests)
    BY <1>2 DEF Fits
  <2>2. Accounted(Pair, bg, wr)
    <3>1. Spare(wr) = 0
      BY <1>8 DEF Spare
    <3>2. Len(dpr.requests) = 0 /\ Len(bg.local) = 0
      BY <1>2, <1>8
    <3>3. QED
      BY <1>4, <1>11, <3>1, <3>2 DEF Accounted
  <2>3. QED
    BY <2>1, <2>2 DEF Cache
<1>14. Failing
  BY <1>2, <1>8 DEF Failing, Cleared
<1>15. Telling
  BY <1>6, <1>8 DEF Telling, Told, Init
<1>16. QED
  BY <1>7, <1>9, <1>10, <1>12, <1>13, <1>14, <1>15 DEF Inv

(* A step with the walks at rest: what a handler has to leave behind. *)
LEMMA IdleLaw ==
  ASSUME Inv, op.pc = "idle", NEW S, Commit(S), Sound(S), Matched(S, States),
         Fits(S.d.requests), UNCHANGED <<op, bg, tape, site>>, writes' \in Nat,
         wr' \in WriteRecord, WriteOk(wr', S.d), Blank(S.d), Cleared(S.d),
         dpr.alloc => S.d.alloc, Accounted(S, bg, wr'),
         lost' = "no" \/ (lost' = lost /\ S.d.write_error = dpr.write_error)
  PROVE  Inv'
<1>1. Types /\ Threads /\ Failing /\ Telling
  BY DEF Inv
<1>2. dpr' = S.d /\ global' = S.g /\ IsPair(S) /\ Balanced(S)
  BY DEF Commit, Sound
<1>3. Pair'.d = S.d /\ Pair'.g = S.g
  BY <1>2 DEF Pair
<1>4. Types'
  BY <1>1, <1>2 DEF Types, IsPair, LostStates
<1>5. Writing'
  BY <1>2 DEF Writing
<1>6. Threads'
  BY <1>1 DEF Threads
<1>7. Counting'
  <2>1. Balanced(Pair)'
    BY <1>2, <1>3 DEF Balanced
  <2>2. Matched(Pair', States)
    BY <1>3 DEF Matched
  <2>3. op'.pc = "idle"
    OBVIOUS
  <2>4. QED
    BY <2>1, <2>2, <2>3 DEF Counting, CountersOk, Live
<1>8. Cache'
  BY <1>2, <1>3 DEF Cache, Accounted, Fits, CacheSize
<1>9. Failing'
  BY <1>1, <1>2 DEF Failing
<1>10. Telling'
  BY <1>1, <1>2 DEF Telling, Told
<1>11. QED
  BY <1>4, <1>5, <1>6, <1>7, <1>8, <1>9, <1>10 DEF Inv

-----------------------------------------------------------------------------
(* unified_write.                                                          *)

(* What a handler that finds no walk in progress can rely on. *)
LEMMA IdleFacts ==
  ASSUME Inv, op.pc = "idle"
  PROVE  /\ Sound(Pair) /\ Matched(Pair, States) /\ Fits(dpr.requests)
         /\ Pair.d = dpr /\ Pair.g = global /\ CacheSize \in Nat \ {0}
         /\ Accounted(Pair, bg, wr) /\ WriteOk(wr, dpr) /\ Blank(dpr) /\ Cleared(dpr)
         /\ dpr.requests \in Seq(Request) /\ Len(dpr.requests) \in Nat
         /\ global.cache \in Int /\ global.leaked \in Int /\ Len(bg.local) \in Nat
<1>1. Types /\ Writing /\ Counting /\ Cache /\ Failing
  BY DEF Inv
<1>2. Sound(Pair) /\ Pair.d = dpr /\ Pair.g = global
  BY <1>1, PairLaw DEF Counting
<1>3. Matched(Pair, States)
  BY <1>1 DEF Counting, CountersOk, Live
<1>4. CacheSize \in Nat \ {0}
  BY <1>1, SiteLaw
<1>5. dpr.requests \in Seq(Request) /\ global.cache \in Int /\ global.leaked \in Int
  BY <1>1 DEF Types, IsPriv, IsGlobal
<1>6. Len(dpr.requests) \in Nat
  BY <1>5, LenProperties
<1>7. bg.local \in Seq(Request)
  BY <1>1 DEF Types, BgRecord
<1>8. Len(bg.local) \in Nat
  BY <1>7, LenProperties
<1>9. QED
  BY <1>1, <1>2, <1>3, <1>4, <1>5, <1>6, <1>8 DEF Writing, Cache, Failing

(* The fields of a write in progress, and the bytes it writes. *)
LEMMA WriteFields ==
  ASSUME Inv
  PROVE  /\ wr \in WriteRecord /\ wr.offset \in Nat /\ wr.size \in Nat /\ wr.cur \in Nat
         /\ wr.prev \in Nat /\ wr.spare \in BOOLEAN /\ Spare(wr) \in Int
         /\ wr.pc \in {"idle", "append", "scan", "before", "out", "wait", "retry"}
         /\ writes \in Nat /\ Stamp \in Seq(Nat) /\ Len(Stamp) = wr.size
<1>1. wr \in WriteRecord /\ writes \in Nat
  BY DEF Inv, Types
<1>2. wr.size \in Nat
  BY <1>1 DEF WriteRecord
<1>3. Stamp \in Seq(Nat) /\ Len(Stamp) = wr.size
  BY <1>1, <1>2, FillLaw DEF Stamp
<1>4. QED
  BY <1>1, <1>3 DEF WriteRecord, Spare

(* The write moves on by n bytes. *)
LEMMA AdvanceLaw ==
  ASSUME Inv, NEW n \in Nat, n <= wr.size
  PROVE  /\ Advance(n) \in WriteRecord /\ Advance(n).size = wr.size - n
         /\ Advance(n).pc = wr.pc /\ Advance(n).spare = wr.spare
         /\ Advance(n).cur = wr.cur /\ Advance(n).prev = wr.prev
<1>1. wr \in WriteRecord /\ wr.size \in Nat /\ wr.offset \in Nat
  BY WriteFields
<1>2. wr.size - n \in Nat /\ wr.offset + n \in Nat
  BY <1>1
<1>3. QED
  BY <1>1, <1>2 DEF Advance, WriteRecord

(* A block for a new request: the spare one, or one more from the pool. *)
LEMMA TakeBlockLaw ==
  ASSUME Inv, NEW S, Sound(S)
  PROVE  LET T == TakeBlock(S)
         IN  Sound(T) /\ Same(S, T) /\ T.d = S.d /\ T.g.cache = S.g.cache + 1 - Spare(wr)
<1> DEFINE T == TakeBlock(S)
<1>1. S.g.cache \in Int
  BY DEF Sound, IsPair, IsGlobal
<1>2. CASE wr.spare
  <2>1. T = S /\ Spare(wr) = 1
    BY <1>2 DEF TakeBlock, Spare
  <2>2. S.g.cache = S.g.cache + 1 - Spare(wr)
    BY <1>1, <2>1
  <2>3. QED
    BY <2>1, <2>2 DEF Same
<1>3. CASE ~wr.spare
  <2>1. T = CacheFree(S, -1) /\ Spare(wr) = 0 /\ -1 \in Int
    BY <1>3 DEF TakeBlock, Spare
  <2>2. Sound(T) /\ Same(S, T) /\ T.d = S.d /\ T.g.cache = S.g.cache - (-1)
    BY <2>1, CacheFreeLaw
  <2>3. S.g.cache - (-1) = S.g.cache + 1 - Spare(wr)
    BY <1>1, <2>1
  <2>4. QED
    BY <2>2, <2>3
<1>4. QED
  BY <1>2, <1>3

(* The blocks in use, before and after. *)
LEMMA ShiftLaw ==
  ASSUME NEW c \in Int, NEW n \in Int, NEW s \in Int, NEW c1 \in Int, NEW n1 \in Int,
         NEW s1 \in Int, NEW b \in Int, NEW l \in Int,
         c1 = n1 + b + s1 + l, c - n - s = c1 - n1 - s1
  PROVE  c = n + b + s + l
OBVIOUS

(* A step of a write that holds the lock. *)
LEMMA PhaseLaw ==
  ASSUME Inv, wr.pc \in Phases, NEW S, Commit(S), Sound(S), Same(Pair, S), Matched(S, States),
         Fits(S.d.requests), UNCHANGED <<op, bg, tape, lost, site, writes>>,
         wr' \in WriteRecord, WriteOk(wr', S.d),
         S.g.cache - Len(S.d.requests) - Spare(wr') = global.cache - Len(dpr.requests) - Spare(wr)
  PROVE  Inv'
<1>1. op.pc = "idle"
  BY DEF Inv, Writing, Phases
<1>2. /\ Pair.d = dpr /\ Pair.g = global /\ Accounted(Pair, bg, wr) /\ WriteOk(wr, dpr)
      /\ global.cache \in Int /\ global.leaked \in Int /\ Len(bg.local) \in Nat
      /\ Len(dpr.requests) \in Nat
  BY <1>1, IdleFacts
<1>3. /\ S.d.alloc = dpr.alloc /\ S.d.write_error = dpr.write_error /\ S.g.leaked = global.leaked
  BY <1>2 DEF Same
<1>4. dpr.alloc /\ dpr.write_error = "ok"
  BY <1>2 DEF WriteOk
<1>5. Blank(S.d) /\ Cleared(S.d)
  BY <1>3, <1>4 DEF Blank, Cleared
<1>6. S.g.cache \in Int /\ S.d.requests \in Seq(Request)
  BY DEF Sound, IsPair, IsGlobal, IsPriv
<1>7. Len(S.d.requests) \in Nat
  BY <1>6, LenProperties
<1>8. Spare(wr) \in Int /\ Spare(wr') \in Int
  BY DEF Spare
<1>9. Accounted(S, bg, wr')
  <2>1. global.cache = Len(dpr.requests) + Len(bg.local) + Spare(wr) + global.leaked
    BY <1>2 DEF Accounted
  <2>2. S.g.cache = Len(S.d.requests) + Len(bg.local) + Spare(wr') + S.g.leaked
    <3> DEFINE c == S.g.cache
               n == Len(S.d.requests)
               s == Spare(wr')
               c1 == global.cache
               n1 == Len(dpr.requests)
               s1 == Spare(wr)
               b == Len(bg.local)
               l == global.leaked
    <3>1. /\ c \in Int /\ n \in Int /\ s \in Int /\ c1 \in Int /\ n1 \in Int /\ s1 \in Int
          /\ b \in Int /\ l \in Int
      BY <1>2, <1>6, <1>7, <1>8
    <3>2. c1 = n1 + b + s1 + l /\ c - n - s = c1 - n1 - s1
      BY <2>1
    <3>3. S.g.leaked = l
      BY <1>3
    <3> HIDE DEF c, n, s, c1, n1, s1, b, l
    <3>4. c = n + b + s + l
      BY <3>1, <3>2, ShiftLaw
    <3>5. QED
      BY <3>3, <3>4 DEF c, n, s, b
  <2>3. QED
    BY <2>2 DEF Accounted
<1>10. writes' \in Nat
  BY WriteFields
<1>11. QED
  BY <1>1, <1>3, <1>5, <1>9, <1>10, IdleLaw

(* do_append *)
LEMMA AppendInv ==
  ASSUME Inv, WriteAppend
  PROVE  Inv'
<1> DEFINE q == dpr.requests
           n == Len(q)
           last == IF n = 0 THEN 0 ELSE End(q[n])
           extends == /\ n > 0 /\ Len(q[n].data) < CacheSize
                      /\ wr.offset = last /\ q[n].state # "IP"
           c == UpdateCount(Pair, n, wr.offset, wr.size)
           U == UpdateRequest(Pair, n, wr.offset, Stamp)
           B == TakeBlock(Pair)
           I == InsertRequest(B, n + 1, wr.offset, Stamp, FALSE)
<1>1. wr.pc = "append" /\ wr.pc \in Phases /\ UNCHANGED <<op, bg, tape, lost, site, writes>>
  BY DEF WriteAppend, Phases
<1>2. op.pc = "idle"
  BY <1>1 DEF Inv, Writing
<1>3. /\ Sound(Pair) /\ Matched(Pair, States) /\ Fits(q) /\ Pair.d = dpr /\ Pair.g = global
      /\ CacheSize \in Nat \ {0} /\ WriteOk(wr, dpr) /\ q \in Seq(Request) /\ n \in Nat
      /\ global.cache \in Int
  BY <1>2, IdleFacts
<1>4. /\ wr \in WriteRecord /\ wr.offset \in Nat /\ wr.size \in Nat /\ wr.cur \in Nat
      /\ wr.prev \in Nat /\ wr.spare \in BOOLEAN /\ Spare(wr) \in Int
      /\ Stamp \in Seq(Nat) /\ Len(Stamp) = wr.size
  BY WriteFields
<1>5. wr.size > 0 /\ dpr.alloc /\ dpr.write_error = "ok"
  BY <1>1, <1>3 DEF WriteOk
<1>6. CASE /\ wr.offset >= last /\ extends /\ Commit(U)
           /\ wr' = [Advance(c) EXCEPT !.pc = IF c = wr.size THEN "out" ELSE "append"]
  <2>1. n \in DOMAIN q /\ q[n] \in Request
    <3>1. n \in DOMAIN q
      BY <1>3, <1>6, LenProperties
    <3>2. QED
      BY <1>3, <3>1, ElementOfSeq
  <2>2. q[n].offset \in Nat /\ Len(q[n].data) \in Nat
    BY <2>1, RequestLaw
  <2>3. /\ wr.offset = q[n].offset + Len(q[n].data) /\ wr.offset = End(q[n])
        /\ Len(q[n].data) < CacheSize
    BY <1>6 DEF End
  <2>4. /\ q[n].offset <= wr.offset /\ wr.offset <= End(q[n])
        /\ wr.offset < q[n].offset + CacheSize
    <3> HIDE DEF q, n
    <3>1. QED
      BY <1>3, <1>4, <2>2, <2>3
  <2>5. c \in 1 .. wr.size /\ Updated(Pair, n, wr.offset, c, States, U)
    <3>1. /\ n \in DOMAIN Pair.d.requests /\ Pair.d.requests[n].offset <= wr.offset
          /\ wr.offset <= End(Pair.d.requests[n])
          /\ wr.offset < Pair.d.requests[n].offset + CacheSize /\ Fits(Pair.d.requests)
      BY <1>3, <2>1, <2>4
    <3> HIDE DEF n
    <3>2. QED
      BY <1>3, <1>4, <1>5, <3>1, UpdateLaw
  <2>6. /\ Sound(U) /\ Same(Pair, U) /\ Matched(U, States) /\ Fits(U.d.requests)
        /\ U.g.cache = global.cache /\ Len(U.d.requests) = Len(q)
    BY <1>3, <2>5 DEF Updated
  <2> DEFINE w == [Advance(c) EXCEPT !.pc = IF c = wr.size THEN "out" ELSE "append"]
  <2> HIDE DEF q, n, c, U, last, extends
  <2>7. c \in Nat /\ c <= wr.size /\ wr.size - c \in Nat /\ wr.offset + c \in Nat
    BY <1>4, <2>5
  <2>8. /\ w \in WriteRecord /\ w.pc \in {"out", "append"} /\ (w.pc = "append" => c # wr.size)
        /\ w.size = wr.size - c /\ w.spare = wr.spare
    BY <1>4, <2>7 DEF Advance, WriteRecord
  <2>9. wr' = w
    BY <1>6
  <2> HIDE DEF w
  <2>10. U.d.alloc /\ U.d.write_error = "ok"
    BY <1>3, <1>5, <2>6 DEF Same
  <2>11. w.pc = "append" => w.size > 0
    BY <1>4, <2>7, <2>8
  <2>12. WriteOk(wr', U.d)
    BY <2>8, <2>9, <2>10, <2>11 DEF WriteOk
  <2>13. Spare(wr') = Spare(wr)
    BY <2>8, <2>9 DEF Spare
  <2>14. U.g.cache - Len(U.d.requests) - Spare(wr') = global.cache - Len(dpr.requests) - Spare(wr)
    BY <2>6, <2>13 DEF q
  <2>15. QED
    BY <1>1, <1>6, <2>6, <2>8, <2>9, <2>12, <2>14, PhaseLaw
<1>7. CASE /\ wr.offset >= last /\ ~NeedsWait /\ Commit(I)
           /\ wr' = [Advance(wr.size) EXCEPT !.pc = "out", !.spare = FALSE]
  <2> DEFINE w == [Advance(wr.size) EXCEPT !.pc = "out", !.spare = FALSE]
  <2>1. w \in WriteRecord /\ w.pc = "out" /\ w.spare = FALSE
    <3> DEFINE A == Advance(wr.size)
    <3>1. A \in WriteRecord
      <4>1. wr.size <= wr.size
        BY <1>4
      <4>2. QED
        BY <1>4, <4>1, AdvanceLaw
    <3> HIDE DEF A
    <3>2. [A EXCEPT !.pc = "out", !.spare = FALSE] \in WriteRecord
      BY <3>1 DEF WriteRecord
    <3>3. QED
      BY <3>1, <3>2 DEF A, WriteRecord
  <2>2. wr' = w
    BY <1>7
  <2> HIDE DEF w
  <2>3. /\ Sound(B) /\ Same(Pair, B) /\ B.d = dpr /\ B.g.cache = global.cache + 1 - Spare(wr)
    BY <1>3, TakeBlockLaw
  <2>4. Matched(B, States) /\ Fits(B.d.requests) /\ n + 1 \in 1 .. Len(B.d.requests) + 1
    BY <1>3, <2>3 DEF Matched
  <2> DEFINE m == n + 1
  <2>5. m \in 1 .. Len(B.d.requests) + 1 /\ I = InsertRequest(B, m, wr.offset, Stamp, FALSE)
    BY <2>4
  <2> HIDE DEF B, m, I
  <2>6. Grown(B, m, I)
    BY <1>3, <1>4, <1>5, <2>3, <2>4, <2>5, InsertLaw
  <2>7. /\ Sound(I) /\ Same(B, I) /\ Matched(I, States) /\ Fits(I.d.requests)
        /\ I.g.cache = B.g.cache /\ Len(I.d.requests) = Len(B.d.requests) + 1
    BY <2>6 DEF Grown
  <2>8. Same(Pair, I)
    BY <2>3, <2>7 DEF Same
  <2>9. I.d.alloc /\ I.d.write_error = "ok"
    BY <1>3, <1>5, <2>8 DEF Same
  <2>10. WriteOk(wr', I.d)
    BY <2>1, <2>2, <2>9 DEF WriteOk
  <2>11. Spare(wr') = 0
    BY <2>1, <2>2 DEF Spare
  <2>12. I.g.cache - Len(I.d.requests) - Spare(wr') = global.cache - Len(dpr.requests) - Spare(wr)
    <3>1. Len(I.d.requests) = n + 1 /\ I.g.cache = global.cache + 1 - Spare(wr)
      BY <2>3, <2>7
    <3> DEFINE g == global.cache
               s == Spare(wr)
    <3>2. n \in Int /\ g \in Int /\ s \in Int
      BY <1>3, <1>4
    <3> HIDE DEF n, g, s
    <3>3. (g + 1 - s) - (n + 1) - 0 = g - n - s
      BY <3>2
    <3>4. QED
      BY <2>11, <3>1, <3>3 DEF n, g, s
  <2>13. QED
    BY <1>1, <1>7, <2>1, <2>2, <2>7, <2>8, <2>10, <2>12, PhaseLaw
<1>8. CASE NeedsWait /\ WaitForCache
  <2> DEFINE w == [wr EXCEPT !.pc = "wait", !.cur = 0, !.prev = 0]
  <2>1. w \in WriteRecord /\ w.pc = "wait" /\ w.spare = wr.spare /\ w.size = wr.size
    BY <1>4 DEF WriteRecord
  <2>2. wr' = w /\ Commit(Pair) /\ ~wr.spare
    BY <1>3, <1>8 DEF WaitForCache, NeedsWait, Commit
  <2> HIDE DEF w
  <2>3. WriteOk(wr', Pair.d)
    BY <1>5, <2>1, <2>2 DEF WriteOk, Phases
  <2>4. Spare(wr') = Spare(wr) /\ Same(Pair, Pair)
    BY <2>1, <2>2 DEF Spare, Same
  <2>5. Pair.g.cache - Len(Pair.d.requests) - Spare(wr')
        = global.cache - Len(dpr.requests) - Spare(wr)
    BY <1>3, <2>4
  <2>6. QED
    BY <1>1, <1>3, <2>1, <2>2, <2>3, <2>4, <2>5, PhaseLaw
<1>9. CASE wr' = [wr EXCEPT !.pc = "scan", !.cur = 1, !.prev = 0] /\ UNCHANGED <<dpr, global, file>>
  <2> DEFINE w == [wr EXCEPT !.pc = "scan", !.cur = 1, !.prev = 0]
  <2>1. w \in WriteRecord /\ w.pc = "scan" /\ w.spare = wr.spare /\ w.prev = 0 /\ w.cur = 1
    BY <1>4 DEF WriteRecord
  <2>2. wr' = w /\ Commit(Pair)
    BY <1>3, <1>9 DEF Commit
  <2> HIDE DEF w
  <2>3. WriteOk(wr', Pair.d)
    BY <1>3, <1>5, <2>1, <2>2 DEF WriteOk, Phases
  <2>4. Spare(wr') = Spare(wr) /\ Same(Pair, Pair)
    BY <2>1, <2>2 DEF Spare, Same
  <2>5. Pair.g.cache - Len(Pair.d.requests) - Spare(wr')
        = global.cache - Len(dpr.requests) - Spare(wr)
    BY <1>3, <2>4
  <2>6. QED
    BY <1>1, <1>3, <2>1, <2>2, <2>3, <2>4, <2>5, PhaseLaw
<1>10. QED
  BY <1>6, <1>7, <1>8, <1>9 DEF WriteAppend

(* The list and the counters in the middle of a step of a write, which      *)
(* holds n cache blocks.                                                    *)
Mid(S, n) ==
  /\ Sound(S) /\ Same(Pair, S) /\ Matched(S, States) /\ Fits(S.d.requests)
  /\ S.g.cache - Len(S.d.requests) - n = global.cache - Len(dpr.requests) - Spare(wr)

(* Such a write ends its step with the blocks it holds. *)
LEMMA MidLaw ==
  ASSUME Inv, wr.pc \in Phases, NEW S, Commit(S), UNCHANGED <<op, bg, tape, lost, site, writes>>,
         wr' \in WriteRecord, WriteOk(wr', S.d), Mid(S, Spare(wr'))
  PROVE  Inv'
<1>1. /\ Sound(S) /\ Same(Pair, S) /\ Matched(S, States) /\ Fits(S.d.requests)
      /\ S.g.cache - Len(S.d.requests) - Spare(wr') = global.cache - Len(dpr.requests) - Spare(wr)
  BY DEF Mid
<1>2. QED
  BY <1>1, PhaseLaw

(* What a write that holds the lock can rely on. *)
LEMMA MidFacts ==
  ASSUME Inv, wr.pc \in Phases
  PROVE  /\ Mid(Pair, Spare(wr)) /\ Pair.d = dpr /\ dpr.alloc /\ dpr.write_error = "ok"
         /\ CacheSize \in Nat \ {0} /\ WriteOk(wr, dpr)
         /\ dpr.requests \in Seq(Request) /\ Len(dpr.requests) \in Nat
<1>1. op.pc = "idle"
  BY DEF Inv, Writing, Phases
<1>2. /\ Sound(Pair) /\ Matched(Pair, States) /\ Fits(dpr.requests) /\ Pair.d = dpr
      /\ Pair.g = global /\ CacheSize \in Nat \ {0} /\ WriteOk(wr, dpr)
      /\ dpr.requests \in Seq(Request) /\ Len(dpr.requests) \in Nat
  BY <1>1, IdleFacts
<1>3. dpr.alloc /\ dpr.write_error = "ok"
  BY <1>2 DEF WriteOk
<1>4. QED
  BY <1>2, <1>3 DEF Mid, Same

(* The types in the middle of a step. *)
LEMMA MidTypes ==
  ASSUME Inv, wr.pc \in Phases, NEW S, NEW n \in Int, Mid(S, n)
  PROVE  /\ Sound(S) /\ S.d.alloc /\ S.d.write_error = "ok" /\ Fits(S.d.requests)
         /\ Matched(S, States) /\ S.d.requests \in Seq(Request) /\ Len(S.d.requests) \in Nat
         /\ DOMAIN S.d.requests = 1 .. Len(S.d.requests) /\ S.g.cache \in Int
         /\ global.cache \in Int /\ Len(dpr.requests) \in Int /\ Spare(wr) \in Int
<1>1. Sound(S) /\ Fits(S.d.requests) /\ Matched(S, States) /\ Same(Pair, S)
  BY DEF Mid
<1>2. S.d.requests \in Seq(Request) /\ S.g.cache \in Int
  BY <1>1 DEF Sound, IsPair, IsPriv, IsGlobal
<1>3. Len(S.d.requests) \in Nat /\ DOMAIN S.d.requests = 1 .. Len(S.d.requests)
  BY <1>2, LenProperties
<1>4. Pair.d = dpr /\ dpr.alloc /\ dpr.write_error = "ok" /\ Len(dpr.requests) \in Int
  BY MidFacts
<1>5. S.d.alloc /\ S.d.write_error = "ok"
  BY <1>1, <1>4 DEF Same
<1>6. Spare(wr) \in Int
  BY DEF Spare
<1>7. global.cache \in Int
  BY DEF Inv, Types, IsGlobal
<1>8. QED
  BY <1>1, <1>2, <1>3, <1>4, <1>5, <1>6, <1>7

(* The pair after a helper that moves a request and a block, or neither. *)
LEMMA MidShift ==
  ASSUME Inv, wr.pc \in Phases, NEW S, NEW n \in Int, Mid(S, n),
         NEW T, Sound(T), Same(S, T), Matched(T, States), Fits(T.d.requests), NEW m \in Int,
         T.g.cache - Len(T.d.requests) - m = S.g.cache - Len(S.d.requests) - n
  PROVE  Mid(T, m)
<1>1. Same(Pair, T)
  BY DEF Mid, Same
<1>2. QED
  BY <1>1 DEF Mid

(* The requests before position i are the same. *)
SameBefore(S, i, T) == \A k \in 1 .. i - 1 : T.d.requests[k] = S.d.requests[k]

(* A new request, in the spare block or in a fresh one. *)
LEMMA MidInsert ==
  ASSUME Inv, wr.pc \in Phases, NEW S, Mid(S, Spare(wr)), CacheSize \in Nat \ {0},
         NEW i \in 1 .. Len(S.d.requests) + 1, NEW off \in Nat,
         NEW data \in Seq(Nat), Len(data) > 0, NEW ip \in BOOLEAN
  PROVE  LET T == InsertRequest(TakeBlock(S), i, off, data, ip)
         IN  /\ Mid(T, 0) /\ Len(T.d.requests) = Len(S.d.requests) + 1
             /\ SameBefore(S, i, T)
<1> DEFINE B == TakeBlock(S)
           T == InsertRequest(B, i, off, data, ip)
<1>1. Spare(wr) \in Int
  BY DEF Spare
<1>2. /\ Sound(S) /\ Fits(S.d.requests) /\ Matched(S, States) /\ Len(S.d.requests) \in Nat
      /\ S.g.cache \in Int
  BY <1>1, MidTypes
<1>3. Sound(B) /\ Same(S, B) /\ B.d = S.d /\ B.g.cache = S.g.cache + 1 - Spare(wr)
  BY <1>2, TakeBlockLaw
<1>4. Matched(B, States) /\ Fits(B.d.requests) /\ i \in 1 .. Len(B.d.requests) + 1
  BY <1>2, <1>3 DEF Matched
<1> HIDE DEF B
<1>5. Grown(B, i, T)
  BY <1>3, <1>4, InsertLaw
<1> HIDE DEF T
<1>6. /\ Sound(T) /\ Same(B, T) /\ Matched(T, States) /\ Fits(T.d.requests)
      /\ T.g.cache = B.g.cache /\ Len(T.d.requests) = Len(B.d.requests) + 1
      /\ \A k \in 1 .. i - 1 : T.d.requests[k] = B.d.requests[k]
  BY <1>5 DEF Grown
<1>7. Same(S, T)
  BY <1>3, <1>6 DEF Same
<1>8. T.g.cache - Len(T.d.requests) - 0 = S.g.cache - Len(S.d.requests) - Spare(wr)
  <2> DEFINE c == S.g.cache
             l == Len(S.d.requests)
             s == Spare(wr)
  <2>1. c \in Int /\ l \in Int /\ s \in Int
    BY <1>1, <1>2
  <2>2. T.g.cache = c + 1 - s /\ Len(T.d.requests) = l + 1
    BY <1>3, <1>6
  <2> HIDE DEF c, l, s
  <2>3. (c + 1 - s) - (l + 1) - 0 = c - l - s
    BY <2>1
  <2>4. QED
    BY <2>2, <2>3 DEF c, l, s
<1>9. Mid(T, 0)
  BY <1>1, <1>6, <1>7, <1>8, MidShift
<1>10. SameBefore(S, i, T)
  BY <1>3, <1>6 DEF SameBefore
<1>11. QED
  BY <1>3, <1>6, <1>9, <1>10 DEF T, B

(* A request's bytes change, not its queue. *)
LEMMA MidSet ==
  ASSUME Inv, wr.pc \in Phases, NEW S, NEW n \in Int, Mid(S, n), NEW i \in DOMAIN S.d.requests,
         NEW r \in Request, r.state = S.d.requests[i].state, Len(r.data) \in 1 .. CacheSize
  PROVE  LET T == SetRequest(S, i, r)
         IN  Mid(T, n) /\ Len(T.d.requests) = Len(S.d.requests)
<1> DEFINE T == SetRequest(S, i, r)
<1>1. /\ Sound(S) /\ Fits(S.d.requests) /\ Matched(S, States) /\ Len(S.d.requests) \in Nat
      /\ S.g.cache \in Int /\ S.d.requests \in Seq(Request)
  BY MidTypes
<1>2. /\ Sound(T) /\ Same(S, T) /\ Len(T.d.requests) = Len(S.d.requests)
      /\ DOMAIN T.d.requests = DOMAIN S.d.requests
      /\ T.d.requests[i] = r
      /\ \A k \in DOMAIN S.d.requests : k # i => T.d.requests[k] = S.d.requests[k]
      /\ T.d.in = S.d.in /\ T.g.cache = S.g.cache
  BY <1>1, SetRequestLaw
<1> HIDE DEF T
<1>3. \A k \in DOMAIN S.d.requests : T.d.requests[k].state = S.d.requests[k].state
  BY <1>2
<1>4. \A st : Count(S.d.requests, st) = Count(T.d.requests, st)
  BY <1>2, <1>3, CountSame
<1>5. Matched(T, States)
  BY <1>1, <1>2, <1>4 DEF Matched
<1>6. Fits(T.d.requests)
  BY <1>1, <1>2 DEF Fits
<1>7. T.g.cache - Len(T.d.requests) - n = S.g.cache - Len(S.d.requests) - n
  BY <1>2
<1>8. QED
  BY <1>2, <1>5, <1>6, <1>7, MidShift DEF T

(* A request leaves the list: its block is kept as the spare or freed. *)
LEMMA MidFree ==
  ASSUME Inv, wr.pc \in Phases, NEW S, Mid(S, Spare(wr) + 1)
  PROVE  LET T == KeepOrFree(S)
         IN  Mid(T, 1) /\ T.d = S.d
<1> DEFINE T == KeepOrFree(S)
<1>1. Spare(wr) \in Int /\ Spare(wr) + 1 \in Int
  BY DEF Spare
<1>2. Sound(S) /\ S.g.cache \in Int /\ Len(S.d.requests) \in Nat
  BY <1>1, MidTypes
<1>3. CASE wr.spare
  <2>1. T = CacheFree(S, 1) /\ Spare(wr) = 1
    BY <1>3 DEF KeepOrFree, Spare
  <2>2. Sound(T) /\ Same(S, T) /\ T.d = S.d /\ T.g.cache = S.g.cache - 1
    <3>1. /\ Sound(CacheFree(S, 1)) /\ Same(S, CacheFree(S, 1))
          /\ CacheFree(S, 1).d = S.d /\ CacheFree(S, 1).g.cache = S.g.cache - 1
      BY <1>2, CacheFreeLaw
    <3>2. QED
      BY <2>1, <3>1
  <2>3. Matched(T, States) /\ Fits(T.d.requests)
    BY <2>2 DEF Mid, Matched
  <2>4. T.g.cache - Len(T.d.requests) - 1 = S.g.cache - Len(S.d.requests) - (Spare(wr) + 1)
    <3>1. (S.g.cache - 1) - Len(S.d.requests) - 1 = S.g.cache - Len(S.d.requests) - (1 + 1)
      BY <1>2
    <3>2. QED
      BY <2>1, <2>2, <3>1
  <2>5. QED
    BY <1>1, <2>2, <2>3, <2>4, MidShift
<1>4. CASE ~wr.spare
  <2>1. T = S /\ Spare(wr) = 0
    BY <1>4 DEF KeepOrFree, Spare
  <2>2. Spare(wr) + 1 = 1
    BY <2>1
  <2>3. QED
    BY <2>1, <2>2
<1>5. QED
  BY <1>3, <1>4

(* The merge of the current request into the one before it. *)
LEMMA MidMerge ==
  ASSUME Inv, wr.pc = "before"
  PROVE  LET m == Merge(Pair, wr.prev, wr.cur)
         IN  /\ m.ret \in {0, 1, 2}
             /\ m.ret = 2 => Mid(m.S, Spare(wr) + 1)
             /\ m.ret # 2 => Mid(m.S, Spare(wr)) /\ wr.cur \in DOMAIN m.S.d.requests
                             /\ m.S.d.requests[wr.cur] \in Request
                             /\ Len(m.S.d.requests) = Len(dpr.requests)
<1> DEFINE m == Merge(Pair, wr.prev, wr.cur)
           i == wr.cur
           p == wr.prev
<1>1. wr.pc \in Phases
  BY DEF Phases
<1>2. /\ Mid(Pair, Spare(wr)) /\ Pair.d = dpr /\ CacheSize \in Nat \ {0} /\ WriteOk(wr, dpr)
      /\ dpr.requests \in Seq(Request) /\ Len(dpr.requests) \in Nat
  BY <1>1, MidFacts
<1>3. i \in Nat /\ p \in Nat /\ Spare(wr) \in Int
  BY WriteFields
<1>4. p < i /\ i <= Len(dpr.requests)
  BY <1>2 DEF WriteOk
<1>5. i \in DOMAIN dpr.requests
  BY <1>2, <1>3, <1>4, LenProperties
<1>6. /\ Sound(Pair) /\ Matched(Pair, States) /\ Fits(Pair.d.requests)
      /\ i \in DOMAIN Pair.d.requests
  BY <1>2, <1>5 DEF Mid
<1> HIDE DEF i, p
<1>7. Merged(Pair, i, States, Merge(Pair, p, i))
  BY <1>2, <1>3, <1>4, <1>6, MergeLaw
<1>8. Merged(Pair, i, States, m)
  BY <1>7 DEF i, p
<1> HIDE DEF m
<1>9. /\ m.ret \in {0, 1, 2} /\ Sound(m.S) /\ Same(Pair, m.S) /\ Matched(m.S, States)
      /\ Fits(m.S.d.requests) /\ m.S.g.cache = Pair.g.cache
      /\ Len(m.S.d.requests) = IF m.ret = 2 THEN Len(dpr.requests) - 1 ELSE Len(dpr.requests)
  BY <1>2, <1>8 DEF Merged
<1>10. Pair.g.cache \in Int /\ m.S.d.requests \in Seq(Request)
  BY <1>6, <1>9 DEF Sound, IsPair, IsGlobal, IsPriv
<1>11. ASSUME m.ret = 2 PROVE Mid(m.S, Spare(wr) + 1)
  <2> DEFINE l == Len(dpr.requests)
             c == Pair.g.cache
             s == Spare(wr)
  <2>1. l \in Int /\ c \in Int /\ s \in Int /\ s + 1 \in Int
    BY <1>2, <1>3, <1>10
  <2>2. Len(m.S.d.requests) = l - 1 /\ m.S.g.cache = c /\ Len(Pair.d.requests) = l
    BY <1>2, <1>9, <1>11
  <2> HIDE DEF l, c, s
  <2>3. c - (l - 1) - (s + 1) = c - l - s
    BY <2>1
  <2>4. m.S.g.cache - Len(m.S.d.requests) - (Spare(wr) + 1)
        = Pair.g.cache - Len(Pair.d.requests) - Spare(wr)
    BY <2>2, <2>3 DEF c, s
  <2>5. Spare(wr) + 1 \in Int
    BY <2>1 DEF s
  <2>6. QED
    BY <1>1, <1>2, <1>3, <1>9, <2>4, <2>5, MidShift
<1>12. ASSUME m.ret # 2
       PROVE  /\ Mid(m.S, Spare(wr)) /\ i \in DOMAIN m.S.d.requests
              /\ m.S.d.requests[i] \in Request /\ Len(m.S.d.requests) = Len(dpr.requests)
  <2>1. Len(m.S.d.requests) = Len(dpr.requests)
    BY <1>9, <1>12
  <2>2. m.S.g.cache - Len(m.S.d.requests) - Spare(wr)
        = Pair.g.cache - Len(Pair.d.requests) - Spare(wr)
    BY <1>2, <1>9, <2>1
  <2>3. Mid(m.S, Spare(wr))
    BY <1>1, <1>2, <1>3, <1>9, <2>2, MidShift
  <2>4. i \in DOMAIN m.S.d.requests
    BY <1>5, <1>2, <1>10, <2>1, LenProperties
  <2>5. QED
    BY <1>10, <2>1, <2>3, <2>4, ElementOfSeq
<1>13. QED
  BY <1>9, <1>11, <1>12 DEF m, i

(* The head of the loop. *)
LEMMA ScanInv ==
  ASSUME Inv, WriteScan
  PROVE  Inv'
<1>1. wr.pc = "scan" /\ wr.pc \in Phases /\ UNCHANGED <<op, bg, tape, lost, site, writes>>
  BY DEF WriteScan, Phases
<1>2. /\ Mid(Pair, Spare(wr)) /\ Pair.d = dpr /\ dpr.alloc /\ dpr.write_error = "ok"
      /\ WriteOk(wr, dpr) /\ Len(dpr.requests) \in Nat
  BY <1>1, MidFacts
<1>3. wr \in WriteRecord /\ wr.cur \in Nat /\ wr.prev \in Nat /\ wr.size \in Nat
  BY WriteFields
<1>4. wr.prev < wr.cur
  BY <1>1, <1>2 DEF WriteOk
<1>5. \/ wr' = [wr EXCEPT !.pc = "append"] /\ wr.size > 0
      \/ wr' = [wr EXCEPT !.pc = "out"]
      \/ wr' = [wr EXCEPT !.cur = wr.cur + 1]
      \/ wr' = [wr EXCEPT !.pc = "before"] /\ ~(wr.cur > Len(dpr.requests))
  <2>1. CASE wr.cur > Len(dpr.requests)
    BY <2>1 DEF WriteScan
  <2>2. CASE ~(wr.cur > Len(dpr.requests))
    BY <2>2 DEF WriteScan
  <2>3. QED
    BY <2>1, <2>2
<1>6. /\ wr' \in WriteRecord /\ wr'.spare = wr.spare /\ wr'.pc \in Phases
      /\ wr'.size = wr.size /\ wr'.prev = wr.prev /\ wr'.cur \in {wr.cur, wr.cur + 1}
      /\ wr'.pc = "append" => wr.size > 0
      /\ wr'.pc = "before" => wr'.cur = wr.cur /\ ~(wr.cur > Len(dpr.requests))
  <2>1. CASE wr' = [wr EXCEPT !.pc = "append"] /\ wr.size > 0
    BY <1>3, <2>1 DEF WriteRecord, Phases
  <2>2. CASE wr' = [wr EXCEPT !.pc = "out"]
    BY <1>3, <2>2 DEF WriteRecord, Phases
  <2>3. CASE wr' = [wr EXCEPT !.cur = wr.cur + 1]
    BY <1>1, <1>3, <2>3 DEF WriteRecord
  <2>4. CASE wr' = [wr EXCEPT !.pc = "before"] /\ ~(wr.cur > Len(dpr.requests))
    BY <1>3, <2>4 DEF WriteRecord, Phases
  <2>5. QED
    BY <1>5, <2>1, <2>2, <2>3, <2>4
<1>7. wr'.prev < wr'.cur
  BY <1>3, <1>4, <1>6
<1>8. wr'.pc = "before" => wr'.cur <= Len(dpr.requests)
  BY <1>2, <1>3, <1>6
<1>9. WriteOk(wr', Pair.d)
  BY <1>2, <1>6, <1>7, <1>8 DEF WriteOk, Phases
<1>10. Spare(wr') = Spare(wr) /\ Commit(Pair)
  BY <1>6 DEF Spare, WriteScan, Commit, Pair
<1>11. QED
  BY <1>1, <1>2, <1>6, <1>9, <1>10, MidLaw

(* The write waits for a cache block. *)
LEMMA WaitInv ==
  ASSUME Inv, wr.pc \in Phases, wr.size > 0, NeedsWait, NEW S, Mid(S, Spare(wr)), Commit(S),
         wr' = [wr EXCEPT !.pc = "wait", !.cur = 0, !.prev = 0],
         UNCHANGED <<op, bg, tape, lost, site, writes>>
  PROVE  Inv'
<1>1. wr \in WriteRecord
  BY WriteFields
<1>2. wr' \in WriteRecord /\ wr'.pc = "wait" /\ wr'.spare = wr.spare /\ wr'.size = wr.size
  BY <1>1 DEF WriteRecord
<1>3. ~wr'.spare
  BY <1>2 DEF NeedsWait
<1>4. WriteOk(wr', S.d)
  BY <1>2, <1>3 DEF WriteOk, Phases
<1>5. Spare(wr') = Spare(wr)
  BY <1>2 DEF Spare
<1>6. QED
  BY <1>2, <1>4, <1>5, MidLaw

(* do_insert_before *)
LEMMA BeforeInv ==
  ASSUME Inv, WriteBefore
  PROVE  Inv'
<1>1. /\ wr.pc = "before" /\ wr.pc \in Phases /\ UNCHANGED <<op, bg, tape, lost, site, writes>>
      /\ wr.size > 0
  BY DEF WriteBefore, Phases, InsertsBefore
<1>2. /\ Mid(Pair, Spare(wr)) /\ Pair.d = dpr /\ dpr.alloc /\ dpr.write_error = "ok"
      /\ WriteOk(wr, dpr) /\ Len(dpr.requests) \in Nat /\ CacheSize \in Nat \ {0}
  BY <1>1, MidFacts
<1>3. /\ wr \in WriteRecord /\ wr.cur \in Nat /\ wr.prev \in Nat /\ wr.size \in Nat
      /\ wr.offset \in Nat /\ Stamp \in Seq(Nat) /\ Len(Stamp) = wr.size
  BY WriteFields
<1>4. wr.prev < wr.cur /\ wr.cur <= Len(dpr.requests)
  BY <1>1, <1>2 DEF WriteOk
<1>5. CASE NeedsWait /\ WaitForCache
  <2>1. Commit(Pair)
    BY <1>2, <1>5 DEF Commit, WaitForCache, Pair
  <2>2. wr' = [wr EXCEPT !.pc = "wait", !.cur = 0, !.prev = 0]
    BY <1>5 DEF WaitForCache
  <2>3. QED
    BY <1>1, <1>2, <1>5, <2>1, <2>2, WaitInv
<1> DEFINE i == wr.cur
           I == InsertRequest(TakeBlock(Pair), i, wr.offset, Stamp, FALSE)
           A == Advance(wr.size)
           w == [A EXCEPT !.prev = wr.cur, !.cur = @ + 1, !.spare = FALSE]
<1>6. CASE ~NeedsWait /\ Commit(I) /\ wr' = w
  <2>1. i \in 1 .. Len(Pair.d.requests) + 1
    BY <1>2, <1>3, <1>4
  <2> HIDE DEF i
  <2>2. Mid(I, 0) /\ Len(I.d.requests) = Len(Pair.d.requests) + 1
    BY <1>1, <1>2, <1>3, <2>1, MidInsert, ZenonT(40)
  <2>3. A \in WriteRecord /\ A.pc = "before" /\ A.cur = wr.cur
    <3>1. wr.size <= wr.size
      BY <1>3
    <3>2. QED
      BY <1>1, <1>3, <3>1, AdvanceLaw
  <2> HIDE DEF A, I
  <2>4. /\ w \in WriteRecord /\ w.pc = "before" /\ w.cur = wr.cur + 1 /\ w.prev = wr.cur
        /\ w.spare = FALSE
    <3>1. w = [A EXCEPT !.prev = wr.cur, !.cur = wr.cur + 1, !.spare = FALSE]
      BY <2>3
    <3>2. wr.cur + 1 \in Nat
      BY <1>3
    <3>3. QED
      BY <1>3, <2>3, <3>1, <3>2 DEF WriteRecord
  <2>5. w.prev < w.cur /\ w.cur <= Len(I.d.requests)
    BY <1>2, <1>3, <1>4, <2>2, <2>4
  <2>6. wr' = w
    BY <1>6
  <2> HIDE DEF w
  <2>7. I.d.alloc /\ I.d.write_error = "ok"
    BY <1>1, <2>2, MidTypes
  <2>8. WriteOk(wr', I.d)
    BY <2>4, <2>5, <2>6, <2>7 DEF WriteOk
  <2>9. Spare(wr') = 0
    BY <2>4, <2>6 DEF Spare
  <2>10. QED
    BY <1>1, <1>6, <2>2, <2>4, <2>6, <2>8, <2>9, MidLaw
<1>7. QED
  BY <1>5, <1>6 DEF WriteBefore

(* The end of a round: on to the next request, or out. *)
LEMMA RoundLaw ==
  ASSUME NEW w \in WriteRecord, w.pc = "before", NEW d, d.alloc, d.write_error = "ok", NEW m,
         wr' = NextRound(w, m)
  PROVE  wr' \in WriteRecord /\ WriteOk(wr', d) /\ Spare(wr') = Spare(w)
<1>1. wr' \in {[w EXCEPT !.pc = "out"], [w EXCEPT !.pc = "scan", !.prev = w.cur, !.cur = w.cur + 1]}
  BY DEF NextRound
<1>2. CASE wr' = [w EXCEPT !.pc = "out"]
  <2>1. wr' \in WriteRecord /\ wr'.pc = "out" /\ wr'.spare = w.spare
    BY <1>2 DEF WriteRecord
  <2>2. QED
    BY <2>1 DEF WriteOk, Spare
<1>3. CASE wr' = [w EXCEPT !.pc = "scan", !.prev = w.cur, !.cur = w.cur + 1]
  <2>1. w.cur \in Nat /\ w.cur + 1 \in Nat
    BY DEF WriteRecord
  <2>2. /\ wr' \in WriteRecord /\ wr'.pc = "scan" /\ wr'.spare = w.spare
        /\ wr'.prev = w.cur /\ wr'.cur = w.cur + 1
    BY <1>3, <2>1 DEF WriteRecord
  <2>3. wr'.prev < wr'.cur
    BY <2>1, <2>2
  <2>4. QED
    BY <2>2, <2>3 DEF WriteOk, Spare
<1>4. QED
  BY <1>1, <1>2, <1>3

(* The write and the current request settle their overlap. *)
LEMMA OverlapInv ==
  ASSUME Inv, WriteOverlap
  PROVE  Inv'
<1> DEFINE i == wr.cur
           m == Merge(Pair, wr.prev, i)
           S == m.S
           r == S.d.requests[i]
           c == UpdateCount(S, i, wr.offset, wr.size)
           reaches == wr.size > 0 /\ wr.offset >= r.offset
           overlapsIp == reaches /\ r.state = "IP" /\ wr.offset < End(r)
           updates == reaches /\ TakesBytes(r, wr.offset)
           keep == wr.offset - r.offset
           skip == keep + wr.size
           back == [r EXCEPT !.data = SubSeq(@, 1, keep)]
           front == [r EXCEPT !.data = Drop(@, skip), !.offset = @ + skip]
           T == InsertRequest(TakeBlock(S), i + 1, r.offset + skip, Drop(r.data, skip), TRUE)
<1>1. wr.pc = "before" /\ wr.pc \in Phases /\ UNCHANGED <<op, bg, tape, lost, site, writes>>
  BY DEF WriteOverlap, Phases
<1>2. Pair.d = dpr /\ CacheSize \in Nat \ {0} /\ WriteOk(wr, dpr) /\ Len(dpr.requests) \in Nat
  BY <1>1, MidFacts
<1>3. /\ wr \in WriteRecord /\ i \in Nat /\ wr.prev \in Nat /\ wr.size \in Nat
      /\ wr.offset \in Nat /\ Stamp \in Seq(Nat) /\ Len(Stamp) = wr.size
      /\ Spare(wr) \in Int /\ Spare(wr) + 1 \in Int
  BY WriteFields
<1>4. wr.prev < i /\ i <= Len(dpr.requests)
  BY <1>1, <1>2 DEF WriteOk
<1>5. /\ m.ret = 2 => Mid(S, Spare(wr) + 1)
      /\ m.ret # 2 => /\ Mid(S, Spare(wr)) /\ i \in DOMAIN S.d.requests /\ r \in Request
                      /\ Len(S.d.requests) = Len(dpr.requests)
  BY <1>1, MidMerge
<1>6. ASSUME NEW V, Mid(V, Spare(wr) + 1), Commit(KeepOrFree(V)),
             wr' = [wr EXCEPT !.pc = "scan", !.spare = TRUE]
      PROVE  Inv'
  <2>1. Mid(KeepOrFree(V), 1) /\ KeepOrFree(V).d = V.d
    BY <1>1, <1>6, MidFree
  <2>2. V.d.alloc /\ V.d.write_error = "ok"
    BY <1>1, <1>3, <1>6, MidTypes
  <2>3. /\ wr' \in WriteRecord /\ wr'.pc = "scan" /\ wr'.spare = TRUE /\ wr'.cur = wr.cur
        /\ wr'.prev = wr.prev
    BY <1>3, <1>6 DEF WriteRecord
  <2>4. WriteOk(wr', KeepOrFree(V).d)
    BY <1>4, <2>1, <2>2, <2>3 DEF WriteOk
  <2>5. Spare(wr') = 1
    BY <2>3 DEF Spare
  <2>6. QED
    BY <1>1, <1>6, <2>1, <2>3, <2>4, <2>5, MidLaw
<1>7. ASSUME NEW V, Mid(V, Spare(wr)), Commit(V), Len(V.d.requests) = Len(dpr.requests), wr' = wr
      PROVE  Inv'
  <2>1. V.d.alloc /\ V.d.write_error = "ok"
    BY <1>1, <1>3, <1>7, MidTypes
  <2>2. WriteOk(wr', V.d)
    BY <1>1, <1>2, <1>7, <2>1 DEF WriteOk
  <2>3. QED
    BY <1>1, <1>3, <1>7, <2>2, MidLaw
<1>8. ASSUME NEW V, Mid(V, Spare(wr)), Commit(V), NEW w \in WriteRecord, w.pc = "before",
             w.spare = wr.spare, NEW b, wr' = NextRound(w, b)
      PROVE  Inv'
  <2>1. V.d.alloc /\ V.d.write_error = "ok"
    BY <1>1, <1>3, <1>8, MidTypes
  <2>2. wr' \in WriteRecord /\ WriteOk(wr', V.d) /\ Spare(wr') = Spare(w)
    BY <1>8, <2>1, RoundLaw
  <2>3. Spare(w) = Spare(wr)
    BY <1>8 DEF Spare
  <2>4. QED
    BY <1>1, <1>8, <2>2, <2>3, MidLaw
<1> HIDE DEF m, i
<1>9. CASE m.ret = 2 /\ Commit(KeepOrFree(S)) /\ wr' = [wr EXCEPT !.pc = "scan", !.spare = TRUE]
  BY <1>5, <1>6, <1>9
<1>10. ASSUME m.ret # 2
       PROVE  /\ Mid(S, Spare(wr)) /\ i \in DOMAIN S.d.requests /\ r \in Request
              /\ Len(S.d.requests) = Len(dpr.requests) /\ Fits(S.d.requests) /\ Sound(S)
              /\ Matched(S, States) /\ r.offset \in Nat /\ r.data \in Seq(Nat)
              /\ Len(r.data) \in 1 .. CacheSize /\ Len(r.data) \in Nat /\ S.g.cache \in Int
  <2>1. /\ Mid(S, Spare(wr)) /\ i \in DOMAIN S.d.requests /\ r \in Request
        /\ Len(S.d.requests) = Len(dpr.requests)
    BY <1>5, <1>10
  <2>2. Fits(S.d.requests) /\ Sound(S) /\ Matched(S, States) /\ S.g.cache \in Int
    BY <1>1, <1>3, <2>1, MidTypes
  <2>3. Len(r.data) \in 1 .. CacheSize
    BY <2>1, <2>2 DEF Fits
  <2>4. QED
    BY <2>1, <2>2, <2>3, RequestLaw
<1>11. CASE /\ m.ret # 2 /\ updates /\ Commit(UpdateRequest(S, i, wr.offset, Stamp))
            /\ wr' = NextRound(Advance(c), TRUE)
  <2> DEFINE U == UpdateRequest(S, i, wr.offset, Stamp)
  <2>1. /\ wr.size > 0 /\ r.offset <= wr.offset
        /\ wr.offset <= End(r) /\ wr.offset < r.offset + CacheSize
    <3> DEFINE o == r.offset
               l == Len(r.data)
               x == wr.offset
               C == CacheSize
    <3>1. o \in Nat /\ l \in Nat /\ x \in Nat /\ C \in Nat /\ l \in 1 .. C
      BY <1>2, <1>3, <1>10, <1>11
    <3>2. wr.size > 0 /\ x >= o /\ (x < o + l \/ (x = o + l /\ l < C))
      BY <1>11 DEF TakesBytes, End
    <3> HIDE DEF o, l, x, C
    <3>3. o <= x /\ x <= o + l /\ x < o + C
      BY <3>1, <3>2
    <3>4. QED
      BY <3>2, <3>3 DEF o, l, x, C, End
  <2>2. c \in 1 .. wr.size /\ Updated(S, i, wr.offset, c, States, U)
    <3> HIDE DEF S
    <3>1. QED
      BY <1>2, <1>3, <1>10, <1>11, <2>1, UpdateLaw
  <2> HIDE DEF U, S, c
  <2>3. /\ Sound(U) /\ Same(S, U) /\ Matched(U, States) /\ Fits(U.d.requests)
        /\ U.g.cache = S.g.cache /\ Len(U.d.requests) = Len(S.d.requests)
    BY <2>2 DEF Updated
  <2>4. U.g.cache - Len(U.d.requests) - Spare(wr) = S.g.cache - Len(S.d.requests) - Spare(wr)
    BY <2>3
  <2>5. Mid(U, Spare(wr))
    BY <1>1, <1>3, <1>10, <1>11, <2>3, <2>4, MidShift
  <2>6. c \in Nat /\ c <= wr.size
    BY <1>3, <2>2
  <2>7. Advance(c) \in WriteRecord /\ Advance(c).pc = "before" /\ Advance(c).spare = wr.spare
    BY <1>1, <2>6, AdvanceLaw
  <2>8. QED
    BY <1>8, <1>11, <2>5, <2>7 DEF U
<1>12. CASE /\ m.ret # 2 /\ overlapsIp
            /\ Commit(KeepOrFree(DelMember(RemoveRequest(S, i), "IP")))
            /\ wr' = [wr EXCEPT !.pc = "scan", !.spare = TRUE]
  <2> DEFINE R == DelMember(RemoveRequest(S, i), S.d.requests[i].state)
  <2>1. S.d.requests[i].state = "IP" /\ S.d.requests[i].state \in States
    BY <1>12 DEF States
  <2>2. R = DelMember(RemoveRequest(S, i), "IP")
    BY <2>1
  <2>3. Removed(S, i, R) /\ Matched(R, States)
    <3> HIDE DEF S
    <3>1. QED
      BY <1>10, <1>12, <2>1, RemoveCountedLaw
  <2> HIDE DEF R, S
  <2>4. /\ Sound(R) /\ Same(S, R) /\ Fits(R.d.requests) /\ R.g.cache = S.g.cache
        /\ Len(R.d.requests) = Len(S.d.requests) - 1
    BY <2>3 DEF Removed
  <2>5. R.g.cache - Len(R.d.requests) - (Spare(wr) + 1) = S.g.cache - Len(S.d.requests) - Spare(wr)
    <3> DEFINE a == S.g.cache
               l == Len(S.d.requests)
               s == Spare(wr)
    <3>1. a \in Int /\ l \in Int /\ s \in Int
      BY <1>2, <1>3, <1>10, <1>12
    <3> HIDE DEF a, l, s
    <3>2. a - (l - 1) - (s + 1) = a - l - s
      BY <3>1
    <3>3. QED
      BY <2>4, <3>2 DEF a, l, s
  <2>6. Mid(R, Spare(wr) + 1)
    BY <1>1, <1>3, <1>10, <1>12, <2>3, <2>4, <2>5, MidShift
  <2>7. QED
    BY <1>6, <1>12, <2>2, <2>6
<1>13. ASSUME m.ret # 2, overlapsIp
       PROVE  /\ keep \in Nat /\ keep < Len(r.data) /\ skip \in Nat /\ skip > 0 /\ wr.size > 0
              /\ r.offset + skip \in Nat
  <2> DEFINE o == r.offset
             l == Len(r.data)
             x == wr.offset
             n == wr.size
  <2>1. o \in Nat /\ l \in Nat /\ x \in Nat /\ n \in Nat
    BY <1>2, <1>3, <1>10, <1>13
  <2>2. n > 0 /\ x >= o /\ x < o + l
    BY <1>13 DEF End
  <2> HIDE DEF o, l, x, n
  <2>3. /\ x - o \in Nat /\ x - o < l /\ (x - o) + n \in Nat /\ (x - o) + n > 0 /\ n > 0
        /\ o + ((x - o) + n) \in Nat
    BY <2>1, <2>2
  <2>4. QED
    BY <2>3 DEF o, l, x, n
<1>14. ASSUME m.ret # 2, overlapsIp, keep > 0
       PROVE  back \in Request /\ back.state = r.state /\ Len(back.data) \in 1 .. CacheSize
  <2>1. keep \in Nat /\ keep <= Len(r.data) /\ r.data \in Seq(Nat) /\ Len(r.data) \in 1 .. CacheSize
        /\ r \in Request
    BY <1>2, <1>10, <1>13, <1>14, SMTT(30)
  <2> HIDE DEF keep, r
  <2>2. SubSeq(r.data, 1, keep) \in Seq(Nat) /\ Len(SubSeq(r.data, 1, keep)) = keep
    BY <2>1, CutLaw
  <2>3. back \in Request /\ back.state = r.state /\ back.data = SubSeq(r.data, 1, keep)
    BY <2>1, <2>2, RequestLaw
  <2>4. keep \in 1 .. CacheSize
    BY <1>2, <1>14, <2>1
  <2>5. QED
    BY <2>2, <2>3, <2>4
<1>15. CASE /\ m.ret # 2 /\ overlapsIp /\ skip < Len(r.data)
            /\ Commit(SetRequest(S, i, front)) /\ wr' = wr
  <2>1. /\ skip \in Nat /\ skip <= Len(r.data) /\ r.data \in Seq(Nat) /\ r.offset + skip \in Nat
        /\ Len(r.data) \in 1 .. CacheSize /\ r \in Request
    <3>1. r.data \in Seq(Nat) /\ Len(r.data) \in 1 .. CacheSize /\ Len(r.data) \in Nat /\ r \in Request
      BY <1>2, <1>10, <1>15
    <3>2. skip \in Nat /\ r.offset + skip \in Nat
      BY <1>13, <1>15
    <3>3. skip < Len(r.data)
      BY <1>15
    <3> HIDE DEF skip, r
    <3>4. QED
      BY <3>1, <3>2, <3>3
  <2>2. Drop(r.data, skip) \in Seq(Nat) /\ Len(Drop(r.data, skip)) = Len(r.data) - skip
    <3> HIDE DEF skip, r
    <3>1. QED
      BY <2>1, CutLaw
  <2>3. /\ front \in Request /\ front.state = r.state /\ front.data = Drop(r.data, skip)
    <3> HIDE DEF skip, r
    <3>1. QED
      BY <2>1, <2>2 DEF Request
  <2>4. Len(r.data) - skip \in 1 .. CacheSize
    <3>1. skip < Len(r.data)
      BY <1>15
    <3> HIDE DEF skip, r
    <3>2. QED
      BY <1>2, <2>1, <3>1
  <2>5. /\ Mid(SetRequest(S, i, front), Spare(wr))
        /\ Len(SetRequest(S, i, front).d.requests) = Len(S.d.requests)
    <3>1. front.state = S.d.requests[i].state /\ Len(front.data) \in 1 .. CacheSize
      BY <2>2, <2>3, <2>4
    <3> HIDE DEF front, S
    <3>2. QED
      BY <1>1, <1>3, <1>10, <1>15, <2>3, <3>1, MidSet
  <2>6. Len(SetRequest(S, i, front).d.requests) = Len(dpr.requests)
    BY <1>10, <1>15, <2>5
  <2> HIDE DEF front, S
  <2>7. QED
    BY <1>7, <1>15, <2>5, <2>6
<1>16. CASE /\ m.ret # 2 /\ overlapsIp /\ keep > 0 /\ Commit(SetRequest(S, i, back))
            /\ wr' = NextRound(wr, m.ret = 1)
  <2>1. back \in Request /\ back.state = S.d.requests[i].state /\ Len(back.data) \in 1 .. CacheSize
    BY <1>14, <1>16
  <2> HIDE DEF back, S
  <2>2. Mid(SetRequest(S, i, back), Spare(wr))
    BY <1>1, <1>3, <1>10, <1>16, <2>1, MidSet
  <2>3. QED
    BY <1>1, <1>3, <1>8, <1>16, <2>2
<1>17. CASE /\ m.ret # 2 /\ overlapsIp /\ keep > 0 /\ skip < Len(r.data) /\ ~NeedsWait
            /\ Commit(SetRequest(T, i, back)) /\ wr' = [wr EXCEPT !.cur = @ + 1, !.spare = FALSE]
  <2> DEFINE j == i + 1
             o == r.offset + skip
             x == Drop(r.data, skip)
  <2>1. back \in Request /\ back.state = r.state /\ Len(back.data) \in 1 .. CacheSize
    BY <1>14, <1>17
  <2>2. skip \in Nat /\ skip < Len(r.data) /\ r.data \in Seq(Nat) /\ o \in Nat
    BY <1>10, <1>13, <1>17
  <2>3. x \in Seq(Nat) /\ Len(x) > 0
    <3>1. Len(r.data) \in Nat
      BY <2>2, LenProperties
    <3> HIDE DEF skip, r
    <3>2. skip <= Len(r.data)
      BY <2>2, <3>1
    <3>3. x \in Seq(Nat) /\ Len(x) = Len(r.data) - skip
      BY <2>2, <3>2, CutLaw
    <3>4. QED
      BY <2>2, <3>1, <3>3
  <2>4. /\ j \in 1 .. Len(S.d.requests) + 1 /\ i \in 1 .. j - 1 /\ i >= 1 /\ j - 1 = i
        /\ i + 1 \in Nat
    <3> DEFINE l == Len(dpr.requests)
               p == wr.prev
    <3>1. i \in Nat /\ l \in Nat /\ p \in Nat /\ p < i /\ i <= l
      BY <1>2, <1>3, <1>4
    <3>2. Len(S.d.requests) = l
      BY <1>10, <1>17
    <3> HIDE DEF l, p, S
    <3>3. /\ i + 1 \in 1 .. l + 1 /\ i \in 1 .. (i + 1) - 1 /\ i >= 1 /\ (i + 1) - 1 = i
          /\ i + 1 \in Nat
      BY <3>1
    <3>4. QED
      BY <3>2, <3>3
  <2>5. T = InsertRequest(TakeBlock(S), j, o, x, TRUE)
    OBVIOUS
  <2>6. Mid(S, Spare(wr)) /\ Len(S.d.requests) = Len(dpr.requests) /\ r = S.d.requests[i]
    BY <1>10, <1>17
  <2>7. Commit(SetRequest(T, i, back)) /\ wr' = [wr EXCEPT !.cur = i + 1, !.spare = FALSE]
    BY <1>17 DEF i
  <2> HIDE DEF j, o, x, T, back, r, S
  <2>8. Mid(T, 0) /\ Len(T.d.requests) = Len(S.d.requests) + 1 /\ T.d.requests[i] = r
    <3> DEFINE ip == TRUE
               N == InsertRequest(TakeBlock(S), j, o, x, ip)
    <3>1. ip \in BOOLEAN /\ T = N
      BY <2>5
    <3> HIDE DEF ip
    <3>2. /\ wr.pc \in Phases /\ Mid(S, Spare(wr)) /\ CacheSize \in Nat \ {0} /\ o \in Nat
          /\ j \in 1 .. Len(S.d.requests) + 1 /\ x \in Seq(Nat) /\ Len(x) > 0 /\ ip \in BOOLEAN
      BY <1>1, <1>2, <2>2, <2>3, <2>4, <2>6, <3>1
    <3>3. Mid(N, 0) /\ Len(N.d.requests) = Len(S.d.requests) + 1 /\ SameBefore(S, j, N)
      BY <3>2, MidInsert
    <3> HIDE DEF N
    <3>4. QED
      BY <2>4, <2>6, <3>1, <3>3 DEF SameBefore
  <2>9. i \in DOMAIN T.d.requests
    <3>1. DOMAIN T.d.requests = 1 .. Len(T.d.requests)
      BY <1>1, <2>8, MidTypes
    <3>2. QED
      BY <1>2, <1>3, <1>4, <2>4, <2>6, <2>8, <3>1
  <2> DEFINE V == SetRequest(T, i, back)
  <2>10. Mid(V, 0) /\ Len(V.d.requests) = Len(T.d.requests)
    BY <1>1, <2>1, <2>8, <2>9, MidSet
  <2>11. V.d.alloc /\ V.d.write_error = "ok"
    <3> HIDE DEF V
    <3>1. QED
      BY <1>1, <2>10, MidTypes
  <2>12. /\ wr' \in WriteRecord /\ wr'.pc = "before" /\ wr'.spare = FALSE /\ wr'.cur = i + 1
         /\ wr'.prev = wr.prev
    BY <1>1, <1>3, <2>4, <2>7 DEF WriteRecord
  <2> HIDE DEF V
  <2>13. wr'.prev < wr'.cur /\ wr'.cur <= Len(V.d.requests)
    BY <1>2, <1>3, <1>4, <2>6, <2>8, <2>10, <2>12
  <2>14. WriteOk(wr', V.d) /\ Spare(wr') = 0
    BY <2>11, <2>12, <2>13 DEF WriteOk, Spare
  <2>15. QED
    BY <1>1, <2>7, <2>10, <2>12, <2>14, MidLaw DEF V
<1>18. CASE /\ m.ret # 2 /\ overlapsIp /\ NeedsWait /\ Commit(S)
            /\ wr' = [wr EXCEPT !.pc = "wait", !.cur = 0, !.prev = 0]
  <2>1. wr.size > 0 /\ Mid(S, Spare(wr))
    BY <1>10, <1>18
  <2> HIDE DEF S
  <2>2. QED
    BY <1>1, <1>18, <2>1, WaitInv
<1>19. CASE m.ret # 2 /\ Commit(S) /\ (wr' = wr \/ wr' = NextRound(wr, m.ret = 1))
  <2>1. Mid(S, Spare(wr)) /\ Len(S.d.requests) = Len(dpr.requests)
    BY <1>10, <1>19
  <2> HIDE DEF S
  <2>2. QED
    BY <1>1, <1>3, <1>7, <1>8, <1>19, <2>1
<1>20. QED
  BY <1>9, <1>11, <1>12, <1>15, <1>16, <1>17, <1>18, <1>19 DEF WriteOverlap, m, i

(* The end of a write: a spare block goes back to the pool. *)
LEMMA OutInv ==
  ASSUME Inv, WriteOut
  PROVE  Inv'
<1>1. wr.pc = "out" /\ wr.pc \in Phases /\ UNCHANGED <<op, bg, tape, lost, site, writes>>
  BY DEF WriteOut, Phases
<1>2. Mid(Pair, Spare(wr)) /\ Pair.d = dpr
  BY <1>1, MidFacts
<1>3. wr' = IdleWrite /\ wr' \in WriteRecord /\ wr'.pc = "idle" /\ wr'.spare = FALSE
  BY DEF WriteOut, IdleWrite, WriteRecord
<1>4. ASSUME NEW d PROVE WriteOk(wr', d)
  BY <1>3 DEF WriteOk, Phases
<1>5. Spare(wr') = 0
  BY <1>3 DEF Spare
<1>6. CASE wr.spare
  <2> DEFINE T == CacheFree(Pair, 1)
  <2>1. Spare(wr) = 1 /\ Spare(wr) \in Int
    BY <1>6 DEF Spare
  <2>2. /\ Sound(Pair) /\ Matched(Pair, States) /\ Fits(Pair.d.requests) /\ Pair.g.cache \in Int
        /\ Len(Pair.d.requests) \in Nat
    BY <1>1, <1>2, <2>1, MidTypes
  <2>3. Sound(T) /\ Same(Pair, T) /\ T.d = Pair.d /\ T.g.cache = Pair.g.cache - 1
    BY <2>2, CacheFreeLaw
  <2>4. Commit(T)
    <3>1. T.g = [global EXCEPT !.cache = @ - 1]
      BY DEF CacheFree, Pair
    <3>2. dpr' = dpr /\ global' = [global EXCEPT !.cache = @ - 1]
      BY <1>6 DEF WriteOut
    <3>3. QED
      BY <1>2, <2>3, <3>1, <3>2 DEF Commit
  <2> HIDE DEF T
  <2>5. Matched(T, States) /\ Fits(T.d.requests)
    BY <2>2, <2>3 DEF Matched
  <2>6. T.g.cache - Len(T.d.requests) - 0 = Pair.g.cache - Len(Pair.d.requests) - Spare(wr)
    <3>1. (Pair.g.cache - 1) - Len(Pair.d.requests) - 0 = Pair.g.cache - Len(Pair.d.requests) - 1
      BY <2>2
    <3>2. QED
      BY <2>1, <2>3, <3>1
  <2>7. Mid(T, 0)
    BY <1>1, <1>2, <2>1, <2>3, <2>5, <2>6, MidShift
  <2>8. QED
    BY <1>1, <1>3, <1>4, <1>5, <2>4, <2>7, MidLaw
<1>7. CASE ~wr.spare
  <2>1. Spare(wr) = 0
    BY <1>7 DEF Spare
  <2>2. Commit(Pair)
    BY <1>7 DEF WriteOut, Commit, Pair
  <2>3. QED
    BY <1>1, <1>2, <1>3, <1>4, <1>5, <2>1, <2>2, MidLaw
<1>8. QED
  BY <1>6, <1>7

(* A write that starts over reports an error: the block it waited for leaks. *)
LEMMA LeakLaw ==
  ASSUME NEW S, Sound(S), NEW v \in Int
  PROVE  LET T == [S EXCEPT !.d.write_error = "ok", !.g.leaked = v]
         IN  /\ Sound(T) /\ T.d.requests = S.d.requests /\ T.d.in = S.d.in
             /\ T.g.cache = S.g.cache /\ T.g.leaked = v /\ T.d.alloc = S.d.alloc
             /\ T.d.write_error = "ok"
<1> DEFINE T == [S EXCEPT !.d.write_error = "ok", !.g.leaked = v]
<1>1. IsPair(S) /\ Balanced(S)
  BY DEF Sound
<1>2. /\ T.d = [S.d EXCEPT !.write_error = "ok"] /\ T.g = [S.g EXCEPT !.leaked = v]
      /\ DOMAIN T = {"d", "g"}
  BY <1>1 DEF IsPair
<1> HIDE DEF T
<1>3. /\ DOMAIN T.d = PrivFields /\ T.d.requests = S.d.requests /\ T.d.in = S.d.in
      /\ T.d.write_ip = S.d.write_ip /\ T.d.alloc = S.d.alloc /\ T.d.write_error = "ok"
  BY <1>1, <1>2 DEF IsPair, IsPriv, PrivFields
<1>4. /\ DOMAIN T.g = GlobalFields /\ T.g.leaked = v /\ T.g.cache = S.g.cache
      /\ T.g.dp_request_count = S.g.dp_request_count
  BY <1>1, <1>2 DEF IsPair, IsGlobal, GlobalFields
<1>5. IsPair(T)
  <2>1. "ok" \in Errors
    BY DEF Errors, Results
  <2>2. IsPriv(T.d)
    BY <1>1, <1>3, <2>1 DEF IsPair, IsPriv
  <2>3. IsGlobal(T.g)
    BY <1>1, <1>4 DEF IsPair, IsGlobal
  <2>4. QED
    BY <1>2, <2>2, <2>3 DEF IsPair
<1>6. Balanced(T)
  BY <1>1, <1>3, <1>4 DEF Balanced
<1>7. QED
  BY <1>3, <1>4, <1>5, <1>6 DEF Sound, T

-----------------------------------------------------------------------------
(* The handlers that only drop requests: changes of the data placement and  *)
(* truncation.                                                              *)

(* What such a handler may have done to the list. *)
Kept(S) ==
  Thinned(Pair, S) /\ Matched(S, States) /\ S.d.write_error = dpr.write_error

(* It may do nothing. *)
LEMMA KeptPair ==
  ASSUME Inv, op.pc = "idle"
  PROVE  Kept(Pair)
<1>1. /\ Sound(Pair) /\ Matched(Pair, States) /\ Fits(dpr.requests) /\ Pair.d = dpr
      /\ Len(dpr.requests) \in Nat
  BY IdleFacts
<1>2. Len(dpr.requests) <= Len(dpr.requests)
  BY <1>1
<1>3. QED
  BY <1>1, <1>2 DEF Kept, Thinned

(* What it left. *)
LEMMA KeptFacts ==
  ASSUME NEW S, Kept(S)
  PROVE  Sound(S) /\ Matched(S, States) /\ Fits(S.d.requests)
BY DEF Kept, Thinned

(* It may drop more, *)
LEMMA KeptThin ==
  ASSUME Inv, op.pc = "idle", NEW S, Kept(S), NEW T, Thinned(S, T), Matched(T, States),
         T.d.write_error = S.d.write_error
  PROVE  Kept(T)
<1>1. /\ T.g.leaked = Pair.g.leaked /\ T.d.alloc = Pair.d.alloc /\ Sound(T) /\ Fits(T.d.requests)
      /\ T.g.cache - Len(T.d.requests) = Pair.g.cache - Len(Pair.d.requests)
  BY DEF Kept, Thinned
<1>2. Sound(Pair) /\ Sound(S)
  BY IdleFacts DEF Kept, Thinned
<1>3. /\ Pair.d.requests \in Seq(Request) /\ S.d.requests \in Seq(Request)
      /\ T.d.requests \in Seq(Request)
  BY <1>1, <1>2 DEF Sound, IsPair, IsPriv
<1>4. Len(Pair.d.requests) \in Nat /\ Len(S.d.requests) \in Nat /\ Len(T.d.requests) \in Nat
  BY <1>3, LenProperties
<1>5. Len(T.d.requests) <= Len(S.d.requests) /\ Len(S.d.requests) <= Len(Pair.d.requests)
  BY DEF Kept, Thinned
<1>6. Len(T.d.requests) <= Len(Pair.d.requests)
  BY <1>4, <1>5
<1>7. \A k \in DOMAIN T.d.requests : \E j \in DOMAIN Pair.d.requests :
         T.d.requests[k].state = Pair.d.requests[j].state
  BY DEF Kept, Thinned
<1>8. QED
  BY <1>1, <1>6, <1>7 DEF Kept, Thinned

(* and change what no request depends on. *)
LEMMA KeptPlain ==
  ASSUME NEW S, Kept(S), NEW T, Plain(S, T)
  PROVE  Kept(T) /\ T.d.write_ip = S.d.write_ip
<1>1. /\ Sound(T) /\ Same(S, T) /\ T.d.requests = S.d.requests /\ T.d.in = S.d.in
      /\ T.g.cache = S.g.cache
  BY DEF Plain
<1>2. Matched(T, States)
  BY <1>1 DEF Kept, Matched
<1>3. Thinned(Pair, T)
  BY <1>1 DEF Kept, Thinned, Same
<1>4. QED
  BY <1>1, <1>2, <1>3 DEF Kept, Same

(* The placement flag changes. *)
LEMMA KeptFlag ==
  ASSUME Inv, op.pc = "idle", NEW S, Kept(S)
  PROVE  (~S.d.write_ip => Kept(SetWriteIp(S))) /\ (S.d.write_ip => Kept(UnsetWriteIp(S)))
<1>1. Sound(S) /\ Matched(S, States) /\ Fits(S.d.requests)
  BY KeptFacts
<1>2. ASSUME ~S.d.write_ip PROVE Kept(SetWriteIp(S))
  <2> DEFINE T == SetWriteIp(S)
  <2>1. /\ Sound(T) /\ T.d.requests = S.d.requests /\ T.d.in = S.d.in
        /\ T.g.cache = S.g.cache /\ T.g.leaked = S.g.leaked
        /\ T.d.alloc = S.d.alloc /\ T.d.write_error = S.d.write_error
    BY <1>1, <1>2, SetWriteIpLaw
  <2> HIDE DEF T
  <2>2. Matched(T, States)
    BY <1>1, <2>1 DEF Matched
  <2>3. Thinned(Pair, T)
    BY <2>1 DEF Kept, Thinned
  <2>4. QED
    BY <2>1, <2>2, <2>3 DEF Kept, T
<1>3. ASSUME S.d.write_ip PROVE Kept(UnsetWriteIp(S))
  <2>1. /\ Thinned(S, UnsetWriteIp(S)) /\ Matched(UnsetWriteIp(S), States)
        /\ UnsetWriteIp(S).d.write_error = S.d.write_error
    BY <1>1, <1>3, UnsetWriteIpLaw
  <2>2. QED
    BY <2>1, KeptThin
<1>4. QED
  BY <1>2, <1>3

(* A handler of this kind keeps the invariant. *)
LEMMA KeptInv ==
  ASSUME Inv, Unlocked, NEW S, Kept(S), Commit(S),
         UNCHANGED <<op, bg, tape, lost, site, wr, writes>>
  PROVE  Inv'
<1>1. op.pc = "idle" /\ wr.pc \in {"idle", "wait"}
  BY DEF Unlocked
<1>2. /\ Pair.d = dpr /\ Pair.g = global /\ Accounted(Pair, bg, wr) /\ WriteOk(wr, dpr)
      /\ Blank(dpr) /\ Cleared(dpr) /\ dpr.requests \in Seq(Request) /\ Len(dpr.requests) \in Nat
      /\ global.cache \in Int /\ global.leaked \in Int /\ Len(bg.local) \in Nat
  BY <1>1, IdleFacts
<1>3. /\ Sound(S) /\ Matched(S, States) /\ Fits(S.d.requests) /\ S.d.alloc = dpr.alloc
      /\ S.g.leaked = global.leaked /\ S.d.write_error = dpr.write_error
      /\ Len(S.d.requests) <= Len(dpr.requests)
      /\ S.g.cache - Len(S.d.requests) = global.cache - Len(dpr.requests)
      /\ \A k \in DOMAIN S.d.requests : \E j \in DOMAIN dpr.requests :
            S.d.requests[k].state = dpr.requests[j].state
  BY <1>2 DEF Kept, Thinned
<1>4. S.d.requests \in Seq(Request) /\ S.g.cache \in Int
  BY <1>3 DEF Sound, IsPair, IsPriv, IsGlobal
<1>5. Len(S.d.requests) \in Nat
  BY <1>4, LenProperties
<1>6. wr' \in WriteRecord /\ writes' \in Nat /\ Spare(wr) \in Int
  BY WriteFields
<1>7. WriteOk(wr', S.d)
  BY <1>1, <1>2 DEF WriteOk, Phases
<1>8. Blank(S.d)
  <2>1. ASSUME dpr.requests = <<>> PROVE S.d.requests = <<>>
    <3>1. Len(S.d.requests) = 0
      BY <1>3, <1>5, <2>1
    <3>2. QED
      BY <1>4, <3>1
  <2>2. QED
    BY <1>2, <1>3, <2>1 DEF Blank
<1>9. Cleared(S.d)
  BY <1>2, <1>3 DEF Cleared, AllIp
<1>10. Accounted(S, bg, wr')
  <2> DEFINE c == S.g.cache
             n == Len(S.d.requests)
             c1 == global.cache
             n1 == Len(dpr.requests)
             s == Spare(wr)
             b == Len(bg.local)
             l == global.leaked
  <2>1. /\ c \in Int /\ n \in Int /\ s \in Int /\ c1 \in Int /\ n1 \in Int
        /\ b \in Int /\ l \in Int
    BY <1>2, <1>4, <1>5, <1>6
  <2>2. c1 = n1 + b + s + l /\ c - n = c1 - n1 /\ S.g.leaked = l /\ Spare(wr') = s
    BY <1>2, <1>3 DEF Accounted
  <2> HIDE DEF c, n, s, c1, n1, b, l
  <2>3. c = n + b + s + l
    BY <2>1, <2>2
  <2>4. QED
    BY <2>2, <2>3 DEF Accounted, c, n, b
<1>11. QED
  BY <1>1, <1>3, <1>6, <1>7, <1>8, <1>9, <1>10, IdleLaw

(* unified_update_data_placement *)
LEMMA PlacementInv ==
  ASSUME Inv, NEW m \in BOOLEAN, UpdatePlacement(m)
  PROVE  Inv'
<1>1. Unlocked /\ op.pc = "idle" /\ UNCHANGED <<op, bg, tape, lost, site, wr, writes>>
  BY DEF UpdatePlacement, Unlocked
<1>2. Kept(Pair) /\ Pair.d = dpr
  BY <1>1, KeptPair, IdleFacts
<1>3. /\ ~dpr.write_ip => Kept(SetWriteIp(Pair))
      /\ dpr.write_ip => Kept(UnsetWriteIp(Pair))
  BY <1>1, <1>2, KeptFlag
<1>4. \/ Commit(Pair)
      \/ ~dpr.write_ip /\ Commit(SetWriteIp(Pair))
      \/ dpr.write_ip /\ Commit(UnsetWriteIp(Pair))
  BY DEF UpdatePlacement
<1>5. QED
  BY <1>1, <1>2, <1>3, <1>4, KeptInv

(* unified_truncate *)
LEMMA TruncateInv ==
  ASSUME Inv, NEW len \in 0 .. MaxFile, Truncate(len)
  PROVE  Inv'
<1> DEFINE R == TruncateRequests(Pair, len)
           A == TruncateAlt(R, len)
           S == IF len < dpr.file_size THEN A ELSE Pair
           T == [S EXCEPT !.d.file_size = len]
<1>1. Unlocked /\ op.pc = "idle" /\ UNCHANGED <<op, bg, tape, lost, site, wr, writes>>
  BY DEF Truncate, Unlocked
<1>2. Kept(Pair) /\ Pair.d = dpr
  BY <1>1, KeptPair, IdleFacts
<1>3. len \in Nat /\ CacheSize \in Nat \ {0}
  <2>1. MaxFile \in Nat
    BY SiteAssumption DEF Inv, Types, MaxFile
  <2>2. QED
    BY <1>1, <2>1, IdleFacts
<1>4. Kept(R) /\ R.d.write_ip = dpr.write_ip
  <2>1. Sound(Pair) /\ Matched(Pair, States) /\ Fits(Pair.d.requests)
    BY <1>2, KeptFacts
  <2>2. Thinned(Pair, R) /\ Same(Pair, R) /\ Matched(R, States)
    BY <1>3, <2>1, TruncateLaw
  <2> HIDE DEF R
  <2>3. QED
    BY <1>1, <1>2, <2>2, KeptThin DEF Same
<1> HIDE DEF R
<1>5. Kept(A) /\ A.d.write_ip = dpr.write_ip
  <2>1. Plain(R, A)
    BY <1>4, KeptFacts, AltListLaw
  <2> HIDE DEF A
  <2>2. QED
    BY <1>4, <2>1, KeptPlain
<1> HIDE DEF A
<1>6. Kept(S) /\ S.d.write_ip = dpr.write_ip
  BY <1>2, <1>5
<1> HIDE DEF S
<1>7. Kept(T) /\ T.d.write_ip = dpr.write_ip
  <2>1. Plain(S, T)
    BY <1>6, KeptFacts, FileSizeLaw
  <2> HIDE DEF T
  <2>2. QED
    BY <1>6, <2>1, KeptPlain
<1>8. \/ Commit(Pair) \/ Commit(T)
      \/ ~dpr.write_ip /\ Commit(SetWriteIp(T))
      \/ dpr.write_ip /\ Commit(UnsetWriteIp(T))
  BY DEF Truncate, T, S, A, R
<1> HIDE DEF T
<1>9. /\ ~dpr.write_ip => Kept(SetWriteIp(T))
      /\ dpr.write_ip => Kept(UnsetWriteIp(T))
  BY <1>1, <1>7, KeptFlag
<1>10. QED
  BY <1>1, <1>2, <1>7, <1>8, <1>9, KeptInv

(* ltfs_fsraw_open *)
LEMMA OpenInv ==
  ASSUME Inv, NEW m \in BOOLEAN, Open(m)
  PROVE  Inv'
<1>1. Unlocked /\ op.pc = "idle" /\ UNCHANGED <<op, bg, tape, lost, site, wr, writes>>
  BY DEF Open, Unlocked
<1>2. Kept(Pair) /\ Commit(Pair)
  BY <1>1, KeptPair DEF Open, Commit, Pair
<1>3. QED
  BY <1>1, <1>2, KeptInv

-----------------------------------------------------------------------------
(* The start of a write, and the wait for a cache block.                    *)

(* _unified_cache_alloc found a block for the writer that waits. *)
LEMMA CacheBlockInv ==
  ASSUME Inv, GetCacheBlock
  PROVE  Inv'
<1> DEFINE S == CacheFree(Pair, -1)
<1>1. /\ op.pc = "idle" /\ wr.pc = "wait"
      /\ UNCHANGED <<op, bg, tape, lost, site, writes>>
  BY DEF GetCacheBlock, Unlocked
<1>2. /\ Pair.d = dpr /\ Pair.g = global /\ Accounted(Pair, bg, wr) /\ WriteOk(wr, dpr)
      /\ Blank(dpr) /\ Cleared(dpr) /\ Sound(Pair) /\ Matched(Pair, States) /\ Fits(dpr.requests)
      /\ Len(dpr.requests) \in Nat
      /\ global.cache \in Int /\ global.leaked \in Int /\ Len(bg.local) \in Nat
  BY <1>1, IdleFacts
<1>3. Sound(S) /\ Same(Pair, S) /\ S.d = dpr /\ S.g.cache = global.cache - (-1)
  <2>1. -1 \in Int
    OBVIOUS
  <2>2. QED
    BY <1>2, <2>1, CacheFreeLaw
<1>4. Commit(S)
  <2>1. S.g = [global EXCEPT !.cache = @ - (-1)]
    BY DEF CacheFree, Pair
  <2>2. global.cache - (-1) = global.cache + 1
    BY <1>2
  <2>3. global' = [global EXCEPT !.cache = global.cache + 1] /\ dpr' = dpr
    BY DEF GetCacheBlock
  <2>4. S.g = [global EXCEPT !.cache = global.cache + 1]
    BY <2>1, <2>2
  <2>5. QED
    BY <1>3, <2>3, <2>4 DEF Commit
<1> HIDE DEF S
<1>5. wr \in WriteRecord /\ writes' \in Nat
  BY <1>1, WriteFields
<1>6. wr' \in WriteRecord /\ wr'.pc = "retry" /\ wr'.spare = TRUE /\ wr'.size = wr.size
  BY <1>5 DEF GetCacheBlock, WriteRecord
<1>7. wr.size > 0 /\ ~wr.spare
  BY <1>1, <1>2 DEF WriteOk
<1>8. WriteOk(wr', S.d)
  BY <1>6, <1>7 DEF WriteOk, Phases
<1>9. Accounted(S, bg, wr')
  <2> DEFINE c == global.cache
             n == Len(dpr.requests)
             b == Len(bg.local)
             l == global.leaked
  <2>1. Spare(wr) = 0 /\ Spare(wr') = 1
    BY <1>6, <1>7 DEF Spare
  <2>2. c \in Int /\ n \in Int /\ b \in Int /\ l \in Int
    BY <1>2
  <2>3. c = n + b + 0 + l /\ S.g.leaked = l
    BY <1>2, <1>3, <2>1 DEF Accounted, Same
  <2> HIDE DEF c, n, b, l
  <2>4. c - (-1) = n + b + 1 + l
    BY <2>2, <2>3
  <2>5. QED
    BY <1>3, <2>1, <2>3, <2>4 DEF Accounted, c, n, b
<1>10. Matched(S, States) /\ Fits(S.d.requests) /\ Blank(S.d) /\ Cleared(S.d)
  BY <1>2, <1>3 DEF Matched
<1>11. QED
  BY <1>1, <1>3, <1>4, <1>5, <1>6, <1>8, <1>9, <1>10, IdleLaw

(* write_start *)
LEMMA StartInv ==
  ASSUME Inv, op.pc = "idle", NEW w \in WriteRecord, w.size > 0, Spare(w) = Spare(wr),
         WriteStart(w), UNCHANGED <<op, bg, tape, site>>, writes' \in Nat
  PROVE  Inv'
<1> DEFINE S == GetPriv(Pair)
<1>1. /\ Pair.d = dpr /\ Pair.g = global /\ Accounted(Pair, bg, wr)
      /\ Blank(dpr) /\ Cleared(dpr) /\ Sound(Pair) /\ Matched(Pair, States) /\ Fits(dpr.requests)
      /\ dpr.requests \in Seq(Request) /\ Len(dpr.requests) \in Nat
      /\ global.cache \in Int /\ global.leaked \in Int /\ Len(bg.local) \in Nat
  BY IdleFacts
<1>2. /\ Sound(S) /\ Matched(S, States) /\ S.d.requests = dpr.requests
      /\ S.d.alloc /\ S.d.write_error = dpr.write_error /\ S.g = global
  <2>1. ~Pair.d.alloc => Pair.d.requests = <<>> /\ Pair.d.write_error = "ok"
    BY <1>1 DEF Blank
  <2>2. QED
    BY <1>1, <2>1, GetPrivLaw
<1>3. Spare(w) \in Int
  BY DEF Spare
<1> DEFINE c == global.cache
           n == Len(dpr.requests)
           s == Spare(w)
           b == Len(bg.local)
           l == global.leaked
<1>4. /\ c \in Int /\ n \in Int /\ s \in Int /\ b \in Int /\ l \in Int /\ c = n + b + s + l
  <2>1. global.cache = Len(dpr.requests) + Len(bg.local) + Spare(wr) + global.leaked
    BY <1>1 DEF Accounted
  <2>2. c \in Int /\ n \in Int /\ s \in Int /\ b \in Int /\ l \in Int
    BY <1>1, <1>3
  <2>3. c = n + b + s + l
    BY <2>1
  <2>4. QED
    BY <2>2, <2>3
<1>5. CASE dpr.write_error # "ok"
  <2> DEFINE v == IF w.spare THEN S.g.leaked + 1 ELSE S.g.leaked
             T == [S EXCEPT !.d.write_error = "ok", !.g.leaked = v]
  <2>1. Commit(T) /\ lost' = "no" /\ wr' = IdleWrite
    BY <1>2, <1>5 DEF WriteStart
  <2>2. v = l + s
    BY <1>1, <1>2 DEF Spare
  <2>3. v \in Int
    BY <1>4, <2>2
  <2> HIDE DEF S, v
  <2>4. /\ Sound(T) /\ T.d.requests = dpr.requests /\ T.d.in = S.d.in
        /\ T.g.cache = global.cache /\ T.g.leaked = v /\ T.d.alloc /\ T.d.write_error = "ok"
    <3>1. /\ Sound(T) /\ T.d.requests = S.d.requests /\ T.d.in = S.d.in
          /\ T.g.cache = S.g.cache /\ T.g.leaked = v /\ T.d.alloc = S.d.alloc
          /\ T.d.write_error = "ok"
      BY <1>2, <2>3, LeakLaw
    <3> HIDE DEF T
    <3>2. QED
      BY <1>2, <3>1
  <2> HIDE DEF T
  <2>5. Matched(T, States) /\ Fits(T.d.requests) /\ Blank(T.d) /\ Cleared(T.d)
    BY <1>1, <1>2, <2>4 DEF Matched, Blank, Cleared
  <2>6. wr' \in WriteRecord /\ wr'.pc = "idle" /\ wr'.spare = FALSE
    BY <2>1 DEF IdleWrite, WriteRecord
  <2>7. WriteOk(wr', T.d) /\ Spare(wr') = 0
    BY <2>6 DEF WriteOk, Phases, Spare
  <2>8. Accounted(T, bg, wr')
    <3> HIDE DEF c, n, s, b, l
    <3>1. c = n + b + 0 + (l + s)
      BY <1>4
    <3>2. QED
      BY <2>2, <2>4, <2>7, <3>1 DEF Accounted, c, n, b
  <2>9. QED
    BY <2>1, <2>4, <2>5, <2>6, <2>7, <2>8, IdleLaw
<1>6. CASE dpr.write_error = "ok"
  <2>1. /\ wr' = [w EXCEPT !.pc = "append"] /\ lost' = lost
        /\ Commit(S) \/ (S.d.write_ip /\ Commit(UnsetWriteIp(S)))
    BY <1>2, <1>6 DEF WriteStart
  <2> HIDE DEF S
  <2>2. PICK T : Commit(T) /\ (T = S \/ (S.d.write_ip /\ T = UnsetWriteIp(S)))
    BY <2>1
  <2>3. /\ Sound(T) /\ Matched(T, States) /\ Fits(T.d.requests) /\ T.d.alloc
        /\ T.d.write_error = "ok" /\ T.g.leaked = l
        /\ T.g.cache - Len(T.d.requests) = c - n
    <3>1. CASE T = S
      BY <1>1, <1>2, <1>6, <3>1
    <3>2. CASE S.d.write_ip /\ T = UnsetWriteIp(S)
      <4>1. Fits(S.d.requests)
        BY <1>1, <1>2
      <4>2. Thinned(S, T) /\ Matched(T, States) /\ T.d.write_error = S.d.write_error
        BY <1>2, <3>2, <4>1, UnsetWriteIpLaw
      <4>3. QED
        BY <1>2, <1>6, <4>2 DEF Thinned
    <3>3. QED
      BY <2>2, <3>1, <3>2
  <2>4. T.d.requests \in Seq(Request) /\ T.g.cache \in Int
    BY <2>3 DEF Sound, IsPair, IsPriv, IsGlobal
  <2>5. Len(T.d.requests) \in Nat
    BY <2>4, LenProperties
  <2>6. /\ wr' \in WriteRecord /\ wr'.pc = "append" /\ wr'.spare = w.spare /\ wr'.size = w.size
    BY <2>1 DEF WriteRecord
  <2>7. WriteOk(wr', T.d) /\ Blank(T.d) /\ Cleared(T.d)
    BY <2>3, <2>6 DEF WriteOk, Blank, Cleared
  <2>8. Spare(wr') = s
    BY <2>6 DEF Spare
  <2>9. Accounted(T, bg, wr')
    <3> DEFINE c1 == T.g.cache
               n1 == Len(T.d.requests)
    <3>1. c1 \in Int /\ n1 \in Int /\ c1 - n1 = c - n
      BY <2>3, <2>4, <2>5
    <3> HIDE DEF c, n, s, b, l, c1, n1
    <3>2. c1 = n1 + b + s + l
      BY <1>4, <3>1
    <3>3. QED
      BY <2>3, <2>8, <3>2 DEF Accounted, c1, n1, b
  <2>10. QED
    BY <1>6, <2>1, <2>2, <2>3, <2>6, <2>7, <2>9, IdleLaw
<1>7. QED
  BY <1>5, <1>6

(* unified_write *)
LEMMA BeginInv ==
  ASSUME Inv, NEW off \in 0 .. MaxFile, NEW size \in 1 .. MaxWrite, BeginWrite(off, size)
  PROVE  Inv'
<1> DEFINE w == [IdleWrite EXCEPT !.offset = off, !.size = size]
<1>1. /\ op.pc = "idle" /\ wr.pc = "idle" /\ writes' = writes + 1 /\ WriteStart(w)
      /\ UNCHANGED <<op, bg, tape, site>>
  BY DEF BeginWrite, Unlocked
<1>2. MaxFile \in Nat /\ MaxWrite \in Nat
  BY SiteAssumption DEF Inv, Types, MaxFile, MaxWrite
<1>3. off \in Nat /\ size \in Nat /\ size > 0
  BY <1>2
<1>4. w \in WriteRecord /\ w.size = size /\ w.spare = FALSE
  BY <1>3 DEF IdleWrite, WriteRecord
<1>5. WriteOk(wr, dpr)
  BY <1>1, IdleFacts
<1>6. ~wr.spare
  BY <1>1, <1>5 DEF WriteOk
<1>7. Spare(w) = Spare(wr)
  BY <1>4, <1>6 DEF Spare
<1>8. writes' \in Nat
  BY <1>1, WriteFields
<1> HIDE DEF w
<1>9. QED
  BY <1>1, <1>3, <1>4, <1>7, <1>8, StartInv

(* The writer that waited starts over with its block. *)
LEMMA RetryInv ==
  ASSUME Inv, RetryWrite
  PROVE  Inv'
<1>1. /\ op.pc = "idle" /\ wr.pc = "retry" /\ WriteStart(wr)
      /\ UNCHANGED <<op, bg, tape, site, writes>>
  BY DEF RetryWrite
<1>2. WriteOk(wr, dpr)
  BY <1>1, IdleFacts
<1>3. wr.size > 0
  BY <1>1, <1>2 DEF WriteOk
<1>4. wr \in WriteRecord /\ writes' \in Nat
  BY <1>1, WriteFields
<1>5. QED
  BY <1>1, <1>3, <1>4, StartInv

-----------------------------------------------------------------------------
(* The walks through the list and the writer thread.                        *)

(* What such a step has to leave behind. *)
LEMMA ComposeLaw ==
  ASSUME Inv, NEW S, Commit(S), Sound(S), Fits(S.d.requests), CountersOk(S, op'),
         Accounted(S, bg', wr), UNCHANGED <<wr, site, writes>>, op' \in OpRecord, bg' \in BgRecord,
         tape' \in TapeRecord, lost' \in LostStates, WriteOk(wr, S.d), Blank(S.d),
         op'.pc # "idle" => wr.pc \in {"idle", "wait"}, Threads', Failing', Telling'
  PROVE  Inv'
<1>1. Types
  BY DEF Inv
<1>2. dpr' = S.d /\ global' = S.g /\ IsPair(S) /\ Balanced(S)
  BY DEF Commit, Sound
<1>3. Pair'.d = S.d /\ Pair'.g = S.g
  BY <1>2 DEF Pair
<1>4. Types'
  BY <1>1, <1>2 DEF Types, IsPair
<1>5. Writing'
  BY <1>2 DEF Writing
<1>6. Counting'
  <2>1. Balanced(Pair)'
    BY <1>2, <1>3 DEF Balanced
  <2>2. CountersOk(Pair', op')
    BY <1>3 DEF CountersOk, Matched
  <2>3. QED
    BY <2>1, <2>2 DEF Counting
<1>7. Cache'
  BY <1>2, <1>3 DEF Cache, Accounted, Fits, CacheSize
<1>8. QED
  BY <1>4, <1>5, <1>6, <1>7 DEF Inv

(* What it can rely on. *)
LEMMA WalkFacts ==
  ASSUME Inv
  PROVE  /\ Sound(Pair) /\ CountersOk(Pair, op) /\ Fits(dpr.requests)
         /\ Pair.d = dpr /\ Pair.g = global /\ CacheSize \in Nat \ {0}
         /\ Accounted(Pair, bg, wr) /\ WriteOk(wr, dpr) /\ Blank(dpr) /\ Cleared(dpr)
         /\ dpr.requests \in Seq(Request) /\ Len(dpr.requests) \in Nat
         /\ DOMAIN dpr.requests = 1 .. Len(dpr.requests)
         /\ global.cache \in Int /\ global.leaked \in Int /\ Len(bg.local) \in Nat
         /\ op \in OpRecord /\ bg \in BgRecord /\ tape \in TapeRecord
         /\ lost \in LostStates /\ Spare(wr) \in Int
         /\ Threads /\ Failing /\ Telling
         /\ op.pc # "idle" => wr.pc \in {"idle", "wait"}
<1>1. Types /\ Writing /\ Counting /\ Cache /\ Failing /\ Threads /\ Telling
  BY DEF Inv
<1>2. Sound(Pair) /\ Pair.d = dpr /\ Pair.g = global
  BY <1>1, PairLaw DEF Counting
<1>3. CountersOk(Pair, op)
  BY <1>1 DEF Counting
<1>4. CacheSize \in Nat \ {0}
  BY <1>1, SiteLaw
<1>5. dpr.requests \in Seq(Request) /\ global.cache \in Int /\ global.leaked \in Int
  BY <1>1 DEF Types, IsPriv, IsGlobal
<1>6. Len(dpr.requests) \in Nat /\ DOMAIN dpr.requests = 1 .. Len(dpr.requests)
  BY <1>5, LenProperties
<1>7. /\ bg.local \in Seq(Request) /\ op \in OpRecord /\ bg \in BgRecord /\ tape \in TapeRecord
      /\ lost \in LostStates
  BY <1>1 DEF Types, BgRecord
<1>8. Len(bg.local) \in Nat
  BY <1>7, LenProperties
<1>9. Spare(wr) \in Int
  BY DEF Spare
<1>10. QED
  BY <1>1, <1>2, <1>3, <1>4, <1>5, <1>6, <1>7, <1>8, <1>9 DEF Writing, Cache, Failing

(* The blocks in use, after a step that frees the blocks of the requests it *)
(* drops.                                                                   *)
LEMMA BlocksLaw ==
  ASSUME Inv, NEW T, Sound(T), T.g.leaked = global.leaked, NEW b, Len(b.local) \in Int,
         T.g.cache - Len(T.d.requests) - Len(b.local) =
           global.cache - Len(dpr.requests) - Len(bg.local)
  PROVE  Accounted(T, b, wr)
<1>1. T.d.requests \in Seq(Request) /\ T.g.cache \in Int
  BY DEF Sound, IsPair, IsPriv, IsGlobal
<1>2. Len(T.d.requests) \in Nat
  BY <1>1, LenProperties
<1>3. /\ Accounted(Pair, bg, wr) /\ Len(dpr.requests) \in Nat /\ global.cache \in Int
      /\ global.leaked \in Int /\ Len(bg.local) \in Nat /\ Spare(wr) \in Int
      /\ Pair.d = dpr /\ Pair.g = global
  BY WalkFacts
<1> DEFINE c == T.g.cache
           n == Len(T.d.requests)
           k == Len(b.local)
           c1 == global.cache
           n1 == Len(dpr.requests)
           k1 == Len(bg.local)
           s == Spare(wr)
           l == global.leaked
<1>4. /\ c \in Int /\ n \in Int /\ k \in Int /\ c1 \in Int /\ n1 \in Int /\ k1 \in Int
      /\ s \in Int /\ l \in Int
  BY <1>1, <1>2, <1>3
<1>5. c1 = n1 + k1 + s + l
  BY <1>3 DEF Accounted
<1>6. c - n - k = c1 - n1 - k1
  OBVIOUS
<1> HIDE DEF c, n, k, c1, n1, k1, s, l
<1>7. c = n + k + s + l
  BY <1>4, <1>5, <1>6
<1>8. QED
  BY <1>7 DEF Accounted, c, n, k, s, l

(* A writer that does not hold the lock does not depend on the list. *)
LEMMA QuietLaw ==
  ASSUME WriteOk(wr, dpr), wr.pc \in {"idle", "wait"}, NEW d
  PROVE  WriteOk(wr, d) /\ Spare(wr) = 0
BY DEF WriteOk, Phases, Spare

(* A walk that starts has passed nothing. *)
LEMMA PassedStart ==
  ASSUME NEW q \in Seq(Request), NEW o, o.cur = 1
  PROVE  Passed(q, o) /\ o.cur > 0
<1>1. \A k \in DOMAIN q : ~(k < 1)
  BY LenProperties
<1>2. QED
  BY <1>1 DEF Passed

(* A counter of requests still to be written means that there is one. *)
LEMMA PendingLaw ==
  ASSUME Inv, op.pc = "idle", dpr.in["DP"] > 0 \/ dpr.in["PARTIAL"] > 0
  PROVE  dpr.requests # <<>> /\ dpr.write_error = "ok" /\ dpr.alloc
<1>1. /\ Matched(Pair, States) /\ Pair.d = dpr /\ dpr.requests \in Seq(Request) /\ Cleared(dpr)
      /\ Blank(dpr)
  BY IdleFacts
<1>2. PICK st \in {"DP", "PARTIAL"} : dpr.in[st] > 0
  OBVIOUS
<1>3. Count(dpr.requests, st) # 0
  BY <1>1, <1>2 DEF Matched, States
<1>4. ~ \A k \in DOMAIN dpr.requests : dpr.requests[k].state # st
  BY <1>1, <1>3, CountZero
<1>5. PICK k \in DOMAIN dpr.requests : dpr.requests[k].state = st
  BY <1>4
<1>6. ~AllIp(dpr.requests) /\ dpr.requests # <<>>
  BY <1>2, <1>5 DEF AllIp
<1>7. QED
  BY <1>1, <1>6 DEF Cleared, Blank

(* The start of a flush, of a close, of the last flush or of the writer     *)
(* thread's turn at the data queue.                                         *)
LEMMA BeginDataInv ==
  ASSUME Inv, NEW mode \in {"close", "flush", "unmount", "DP", "PARTIAL"}, BeginData(mode)
  PROVE  Inv'
<1> DEFINE A == DelAllMembers(Pair, "DP")
           B == DelAllMembers(A, "PARTIAL")
           S == IF mode = "DP" THEN A ELSE B
           T == IF Busy(mode) THEN S ELSE Pair
<1>1. /\ Unlocked /\ op.pc = "idle" /\ wr.pc \in {"idle", "wait"} /\ Commit(T)
      /\ UNCHANGED <<tape, wr, bg, writes, site>> /\ (lost' = lost \/ lost' = "stale")
      /\ op' = [pc |-> IF Busy(mode) THEN "data" ELSE "end", mode |-> mode, cur |-> 1]
      /\ mode # "close" => bg.pc = "idle"
      /\ mode = "close" /\ (Busy(mode) \/ Frees(Pair)) => IoFree
  BY DEF BeginData, Unlocked
<1>2. /\ Sound(Pair) /\ Matched(Pair, States) /\ Fits(dpr.requests)
      /\ Pair.d = dpr /\ Pair.g = global /\ Accounted(Pair, bg, wr) /\ WriteOk(wr, dpr)
      /\ Blank(dpr) /\ Cleared(dpr) /\ dpr.requests \in Seq(Request)
  BY <1>1, IdleFacts
<1>3. /\ bg \in BgRecord /\ tape \in TapeRecord /\ lost \in LostStates
      /\ Threads /\ Failing /\ Telling
  BY WalkFacts
<1>4. "DP" \in States /\ "PARTIAL" \in States /\ "IP" \in States
  BY DEF States
<1>5. /\ Sound(A) /\ Same(Pair, A) /\ A.d.requests = dpr.requests /\ A.d.in["DP"] = 0
      /\ \A st \in States : st # "DP" => A.d.in[st] = dpr.in[st]
      /\ A.g.cache = global.cache
  BY <1>2, <1>4, DelAllLaw
<1> HIDE DEF A
<1>6. /\ Sound(B) /\ Same(A, B) /\ B.d.requests = A.d.requests /\ B.d.in["PARTIAL"] = 0
      /\ \A st \in States : st # "PARTIAL" => B.d.in[st] = A.d.in[st]
      /\ B.g.cache = A.g.cache
  BY <1>4, <1>5, DelAllLaw
<1> HIDE DEF B
<1>7. Same(Pair, B) /\ Same(Pair, Pair)
  BY <1>5, <1>6 DEF Same
<1>8. /\ Sound(T) /\ Same(Pair, T) /\ T.d.requests = dpr.requests /\ T.g.cache = global.cache
  BY <1>2, <1>5, <1>6, <1>7
<1>9. /\ T.d.alloc = dpr.alloc /\ T.d.write_error = dpr.write_error /\ T.g.leaked = global.leaked
  BY <1>2, <1>8 DEF Same
<1>10. ASSUME mode \in {"DP", "PARTIAL"}
       PROVE  Busy(mode) /\ dpr.write_error = "ok" /\ dpr.alloc
  <2>1. dpr.in["DP"] > 0 \/ dpr.in["PARTIAL"] > 0
    <3>1. dpr.in["DP"] \in Nat /\ dpr.in["PARTIAL"] \in Nat
      BY <1>2, <1>4 DEF Sound, IsPair, IsPriv
    <3>2. dpr.in["DP"] > 0 \/ dpr.in["DP"] + dpr.in["PARTIAL"] > 0
      BY <1>10 DEF BeginData
    <3>3. QED
      BY <3>1, <3>2
  <2>2. QED
    BY <1>1, <1>10, <2>1, PendingLaw DEF Busy, IsFlush
<1>11. ASSUME Busy(mode)
       PROVE  dpr.write_error = "ok" /\ dpr.alloc
  <2>1. CASE IsFlush(mode)
    BY <1>2, <1>11, <2>1 DEF Busy, Blank
  <2>2. CASE ~IsFlush(mode)
    BY <1>10, <2>2 DEF IsFlush
  <2>3. QED
    BY <2>1, <2>2
<1>12. op' \in OpRecord /\ op'.mode = mode /\ op'.cur = 1 /\ op'.pc \in {"data", "end"}
       /\ (op'.pc = "data" => Busy(mode)) /\ (op'.pc = "end" => ~Busy(mode))
  BY <1>1 DEF OpRecord
<1>13. Passed(T.d.requests, op') /\ op'.cur > 0
  BY <1>2, <1>8, <1>12, PassedStart
<1>14. CountersOk(T, op')
  <2>1. CASE Busy(mode)
    <3>1. T = S /\ op'.pc = "data"
      BY <1>1, <2>1
    <3>2. CASE mode = "DP"
      <4>1. T = A /\ Live(op') = {"PARTIAL", "IP"}
        BY <1>12, <3>1, <3>2 DEF Live
      <4>2. Matched(T, Live(op'))
        BY <1>2, <1>4, <1>5, <4>1 DEF Matched
      <4>3. \A st \in States : st \notin Live(op') => T.d.in[st] = 0
        BY <1>5, <4>1 DEF States
      <4> QED
        BY <1>13, <4>2, <4>3 DEF CountersOk
    <3>3. CASE mode # "DP"
      <4>1. T = B /\ Live(op') = {"IP"}
        BY <1>12, <3>1, <3>3 DEF Live
      <4>2. Matched(T, Live(op'))
        BY <1>2, <1>4, <1>5, <1>6, <4>1 DEF Matched
      <4>3. \A st \in States : st \notin Live(op') => T.d.in[st] = 0
        BY <1>5, <1>6, <4>1 DEF States
      <4> QED
        BY <1>13, <4>2, <4>3 DEF CountersOk
    <3> QED
      BY <3>2, <3>3
  <2>2. CASE ~Busy(mode)
    <3>1. T = Pair /\ op'.pc = "end"
      BY <1>1, <2>2
    <3>2. Live(op') = States
      BY <3>1 DEF Live
    <3>3. QED
      BY <1>2, <3>1, <3>2 DEF CountersOk
  <2>3. QED
    BY <2>1, <2>2
<1> HIDE DEF T
<1>15. dpr' = T.d
  BY <1>1 DEF Commit
<1>16. Threads'
  <2>1. mode \notin {"none", "IP"} /\ (op'.pc = "data" => bg.pc # "tape")
    <3>1. op'.pc = "data" /\ mode = "close" => bg.pc # "tape"
      BY <1>1, <1>12 DEF IoFree
    <3>2. QED
      BY <1>1, <3>1
  <2>2. bg' = bg
    BY <1>1
  <2>3. QED
    BY <1>1, <1>3, <1>12, <2>1, <2>2 DEF Threads
<1>17. Failing'
  <2>1. op'.pc = "end" /\ mode = "unmount" => AllIp(dpr.requests)
    <3>1. ASSUME op'.pc = "end", mode = "unmount" PROVE AllIp(dpr.requests)
      <4>1. dpr.requests = <<>> \/ dpr.write_error # "ok"
        BY <1>12, <3>1 DEF Busy
      <4>2. QED
        BY <1>2, <4>1 DEF Cleared, AllIp
    <3>2. QED
      BY <3>1
  <2>2. op'.pc = "data" => dpr'.alloc /\ dpr'.write_error = "ok"
    BY <1>9, <1>11, <1>12, <1>15
  <2>3. op'.pc = "end" => IsFlush(mode)
    BY <1>10, <1>12 DEF IsFlush
  <2>4. Cleared(dpr')
    BY <1>2, <1>8, <1>9, <1>15 DEF Cleared
  <2>5. op'.pc = "end" /\ mode = "close" /\ bg.pc = "tape" => ~Frees(Pair) /\ T = Pair
    BY <1>1, <1>12 DEF IoFree, T
  <2>6. Pair' = [d |-> T.d, g |-> T.g]
    BY <1>1 DEF Pair, Commit
  <2>7. op'.pc = "end" /\ mode = "close" /\ bg.pc = "tape" => ~Frees(Pair')
    BY <2>5, <2>6 DEF Frees
  <2>8. bg' = bg /\ op'.mode = mode
    BY <1>1, <1>12
  <2>9. dpr'.requests = dpr.requests /\ dpr'.alloc = dpr.alloc
    BY <1>8, <1>9, <1>15
  <2>10. QED
    BY <1>3, <1>12, <2>1, <2>2, <2>3, <2>4, <2>7, <2>8, <2>9 DEF Failing
<1>18. Telling' /\ lost' \in LostStates
  BY <1>1, <1>3, <1>9, <1>12, <1>15 DEF Telling, Told, LostStates
<1>19. Accounted(T, bg', wr) /\ WriteOk(wr, T.d) /\ Blank(T.d) /\ Fits(T.d.requests)
  BY <1>1, <1>2, <1>8, <1>9, QuietLaw DEF Accounted, Blank
<1>20. QED
  BY <1>1, <1>3, <1>8, <1>12, <1>14, <1>16, <1>17, <1>18, <1>19, ComposeLaw

(* The start of the writer thread's turn at the index queue. *)
LEMMA BeginIndexInv ==
  ASSUME Inv, BeginIndex
  PROVE  Inv'
<1> DEFINE T == DelAllMembers(Pair, "IP")
<1>1. /\ op.pc = "idle" /\ wr.pc \in {"idle", "wait"} /\ Commit(T) /\ bg.pc = "idle"
      /\ UNCHANGED <<tape, wr, bg, lost, writes, site>>
      /\ op' = [pc |-> "index", mode |-> "IP", cur |-> 1]
  BY DEF BeginIndex, Unlocked
<1>2. /\ Sound(Pair) /\ Matched(Pair, States) /\ Fits(dpr.requests)
      /\ Pair.d = dpr /\ Pair.g = global /\ Accounted(Pair, bg, wr) /\ WriteOk(wr, dpr)
      /\ Blank(dpr) /\ Cleared(dpr)
  BY <1>1, IdleFacts
<1>3. /\ bg \in BgRecord /\ tape \in TapeRecord /\ lost \in LostStates
      /\ Threads /\ Failing /\ Telling
  BY WalkFacts
<1>4. "DP" \in States /\ "PARTIAL" \in States /\ "IP" \in States
  BY DEF States
<1>5. /\ Sound(T) /\ Same(Pair, T) /\ T.d.requests = dpr.requests /\ T.d.in["IP"] = 0
      /\ \A st \in States : st # "IP" => T.d.in[st] = dpr.in[st]
      /\ T.g.cache = global.cache
  BY <1>2, <1>4, DelAllLaw
<1> HIDE DEF T
<1>6. /\ T.d.alloc = dpr.alloc /\ T.d.write_error = dpr.write_error /\ T.g.leaked = global.leaked
  BY <1>2, <1>5 DEF Same
<1>7. op' \in OpRecord /\ op'.pc = "index" /\ op'.mode = "IP" /\ op'.cur = 1
  BY <1>1 DEF OpRecord
<1>8. CountersOk(T, op')
  <2>1. Live(op') = {"DP", "PARTIAL"}
    BY <1>7 DEF Live
  <2>2. Matched(T, Live(op'))
    BY <1>2, <1>4, <1>5, <2>1 DEF Matched
  <2>3. \A st \in States : st \notin Live(op') => T.d.in[st] = 0
    BY <1>5, <2>1 DEF States
  <2>4. dpr.requests \in Seq(Request)
    BY <1>1, IdleFacts
  <2>5. Passed(T.d.requests, op') /\ op'.cur > 0
    BY <1>5, <1>7, <2>4, PassedStart
  <2>6. QED
    BY <2>2, <2>3, <2>5 DEF CountersOk
<1>9. dpr' = T.d /\ bg' = bg
  BY <1>1 DEF Commit
<1>10. Threads'
  BY <1>1, <1>3, <1>7, <1>9 DEF Threads
<1>11. Failing'
  <2>1. Cleared(dpr') /\ dpr'.requests = dpr.requests /\ dpr'.alloc = dpr.alloc
    BY <1>2, <1>5, <1>6, <1>9 DEF Cleared
  <2>2. QED
    BY <1>1, <1>3, <1>7, <1>9, <2>1 DEF Failing
<1>12. Telling'
  BY <1>1, <1>3, <1>6, <1>7, <1>9 DEF Telling, Told
<1>13. Accounted(T, bg', wr) /\ WriteOk(wr, T.d) /\ Blank(T.d) /\ Fits(T.d.requests)
  BY <1>1, <1>2, <1>5, <1>6, QuietLaw DEF Accounted, Blank
<1>14. QED
  BY <1>1, <1>3, <1>5, <1>7, <1>8, <1>10, <1>11, <1>12, <1>13, ComposeLaw

(* A step of the walk over the data queue that meets no error. *)
LEMMA DataLaw ==
  ASSUME Inv, op.pc = "data", NEW S, Commit(S), Sound(S), Fits(S.d.requests), CountersOk(S, op'),
         op' \in OpRecord, op'.pc = "data", op'.mode = op.mode, S.d.alloc, S.d.write_error = "ok",
         bg' \in BgRecord, bg'.pc = bg.pc, bg' = bg \/ ~IsFlush(op.mode),
         \A k \in DOMAIN bg'.local : bg'.local[k].state # "IP",
         Accounted(S, bg', wr), UNCHANGED <<wr, tape, lost, writes, site>>
  PROVE  Inv'
<1>1. /\ WriteOk(wr, dpr) /\ tape \in TapeRecord /\ lost \in LostStates
      /\ Threads /\ Failing /\ Telling /\ wr.pc \in {"idle", "wait"}
  BY WalkFacts
<1>2. dpr' = S.d
  BY DEF Commit
<1>3. ~IsFlush(op.mode) => bg.pc = "idle"
  BY <1>1 DEF Threads, IsFlush
<1>4. Threads'
  BY <1>1, <1>3 DEF Threads
<1>5. Failing'
  BY <1>1, <1>2, <1>3, <1>4 DEF Failing, Cleared, Threads
<1>6. Telling'
  BY <1>1, <1>2 DEF Telling, Told, Failing
<1>7. Blank(S.d) /\ WriteOk(wr, S.d)
  BY <1>1, QuietLaw DEF Blank
<1>8. QED
  BY <1>1, <1>4, <1>5, <1>6, <1>7, ComposeLaw

(* The walk reads and the counters in the middle of such a step. *)
LEMMA DataFacts ==
  ASSUME Inv, op.pc = "data"
  PROVE  /\ dpr.alloc /\ dpr.write_error = "ok" /\ op.cur \in Nat /\ op.cur > 0
         /\ op.mode \in {"close", "flush", "unmount", "DP", "PARTIAL"} /\ "IP" \in Live(op)
         /\ Live(op) \in SUBSET States
<1>1. op \in OpRecord /\ CountersOk(Pair, op) /\ Threads /\ Failing
  BY WalkFacts
<1>2. dpr.alloc /\ dpr.write_error = "ok" /\ op.cur \in Nat /\ op.cur > 0
  BY <1>1 DEF Failing, OpRecord, CountersOk
<1>3. op.mode \in {"close", "flush", "unmount", "DP", "PARTIAL"}
  BY <1>1 DEF Threads, OpRecord
<1>4. QED
  BY <1>2, <1>3 DEF Live, States

(* A copy for the index partition is merged into its predecessor. *)
LEMMA TurnLaw ==
  ASSUME Inv, op.pc = "data", NEW S, Sound(S), Fits(S.d.requests), CountersOk(S, op),
         op.cur \in DOMAIN S.d.requests, S.d.requests[op.cur].state = "IP",
         NEW o, o.pc = "data", o.mode = op.mode, o.cur = AfterMerge(S, op.cur).cur
  PROVE  LET T == AfterMerge(S, op.cur).S
         IN  /\ Sound(T) /\ Same(S, T) /\ Fits(T.d.requests) /\ CountersOk(T, o)
             /\ T.g.cache - Len(T.d.requests) = S.g.cache - Len(S.d.requests)
             /\ o.cur \in Nat
<1> DEFINE i == op.cur
           p == i - 1
           m == Merge(S, p, i)
           T == AfterMerge(S, i).S
           Q == Live(op)
<1>1. i \in Nat /\ i > 0 /\ "IP" \in Q /\ Q \in SUBSET States
  BY DataFacts
<1>2. Matched(S, Q) /\ Passed(S.d.requests, op) /\ \A st \in States : st \notin Q => S.d.in[st] = 0
  BY DEF CountersOk
<1>3. p \in Nat /\ p < i
  BY <1>1
<1>4. CacheSize \in Nat \ {0}
  BY WalkFacts
<1>5. S.d.requests \in Seq(Request) /\ S.g.cache \in Int
  BY DEF Sound, IsPair, IsPriv, IsGlobal
<1>6. Len(S.d.requests) \in Nat /\ DOMAIN S.d.requests = 1 .. Len(S.d.requests)
  BY <1>5, LenProperties
<1>7. /\ AfterMerge(S, i).cur = IF m.ret = 2 THEN i ELSE i + 1
      /\ T = IF m.ret = 2 THEN CacheFree(m.S, 1) ELSE m.S
  BY DEF AfterMerge
<1>8. i \in DOMAIN S.d.requests /\ S.d.requests[i].state = "IP" /\ o.cur = AfterMerge(S, i).cur
  OBVIOUS
<1> HIDE DEF p, Q
<1>9. Merged(S, i, Q, Merge(S, p, i))
  <2>1. Q = States \/ (S.d.requests[i].state = "IP" /\ "IP" \in Q)
    BY <1>1, <1>8
  <2> HIDE DEF i
  <2>2. QED
    BY <1>1, <1>2, <1>3, <1>4, <1>8, <2>1, MergeLaw
<1>10. Merged(S, i, Q, m)
  BY <1>9
<1> HIDE DEF m, T
<1>11. /\ m.ret \in {0, 1, 2} /\ Sound(m.S) /\ Same(S, m.S) /\ Matched(m.S, Q)
       /\ Fits(m.S.d.requests) /\ m.S.g.cache = S.g.cache
       /\ Len(m.S.d.requests) = IF m.ret = 2 THEN Len(S.d.requests) - 1 ELSE Len(S.d.requests)
       /\ \A st \in States : st # "IP" => m.S.d.in[st] = S.d.in[st]
       /\ \A k \in DOMAIN m.S.d.requests : m.S.d.requests[k].state =
            IF m.ret = 2 /\ k >= i THEN S.d.requests[k + 1].state ELSE S.d.requests[k].state
  BY <1>8, <1>10 DEF Merged
<1>12. /\ Sound(T) /\ Same(m.S, T) /\ T.d = m.S.d
       /\ T.g.cache = IF m.ret = 2 THEN S.g.cache - 1 ELSE S.g.cache
  <2>1. CASE m.ret = 2
    <3>1. T = CacheFree(m.S, 1) /\ 1 \in Int
      BY <1>7, <2>1
    <3>2. Sound(T) /\ Same(m.S, T) /\ T.d = m.S.d /\ T.g.cache = m.S.g.cache - 1
      BY <1>11, <3>1, CacheFreeLaw
    <3>3. QED
      BY <1>11, <2>1, <3>2
  <2>2. CASE m.ret # 2
    BY <1>7, <1>11, <2>2 DEF Same
  <2>3. QED
    BY <2>1, <2>2
<1>13. Same(S, T) /\ Matched(T, Q) /\ Fits(T.d.requests)
  BY <1>11, <1>12 DEF Same, Matched
<1>14. T.g.cache - Len(T.d.requests) = S.g.cache - Len(S.d.requests)
  <2> DEFINE c == S.g.cache
             n == Len(S.d.requests)
  <2>1. c \in Int /\ n \in Int
    BY <1>5, <1>6
  <2>2. /\ T.g.cache = IF m.ret = 2 THEN c - 1 ELSE c
        /\ Len(T.d.requests) = IF m.ret = 2 THEN n - 1 ELSE n
    BY <1>11, <1>12
  <2> HIDE DEF c, n
  <2>3. (c - 1) - (n - 1) = c - n
    BY <2>1
  <2>4. QED
    BY <2>2, <2>3 DEF c, n
<1>15. o.cur \in Nat /\ o.cur > 0
  BY <1>1, <1>7, <1>8
<1>16. Passed(T.d.requests, o)
  <2> DEFINE t == T.d.requests
             q == S.d.requests
  <2> SUFFICES ASSUME NEW k \in DOMAIN t, k < o.cur
               PROVE  t[k].state # "DP" /\ (o.mode # "DP" => t[k].state = "IP")
    BY DEF Passed
  <2>1. t \in Seq(Request)
    BY <1>12 DEF Sound, IsPair, IsPriv
  <2>2. k \in 1 .. Len(t) /\ Len(t) \in Nat
    BY <2>1, LenProperties
  <2>3. k \in DOMAIN q /\ k \in Nat
    <3>1. Len(t) = Len(q) - 1 \/ Len(t) = Len(q)
      BY <1>11, <1>12
    <3> DEFINE n == Len(t)
               l == Len(q)
    <3>2. l \in Nat /\ n \in Nat /\ k \in 1 .. n /\ (n = l - 1 \/ n = l)
      BY <1>6, <2>2, <3>1
    <3> HIDE DEF n, l
    <3>3. k \in 1 .. l /\ k \in Nat
      BY <3>2
    <3>4. QED
      BY <1>6, <3>3 DEF l
  <2>4. t[k].state = IF m.ret = 2 /\ k >= i THEN q[k + 1].state ELSE q[k].state
    BY <1>11, <1>12
  <2>5. t[k].state = q[k].state /\ k <= i
    BY <1>1, <1>7, <1>8, <2>3, <2>4
  <2>6. CASE k < i
    <3>1. q[k].state # "DP" /\ (op.mode # "DP" => q[k].state = "IP")
      BY <1>2, <2>3, <2>6 DEF Passed
    <3>2. QED
      BY <2>5, <3>1
  <2>7. CASE k = i
    BY <1>8, <2>5, <2>7
  <2>8. QED
    BY <1>1, <2>3, <2>5, <2>6, <2>7
<1>17. CountersOk(T, o)
  <2>1. Live(o) = Q
    BY DEF Live, Q
  <2>2. \A st \in States : st \notin Q => T.d.in[st] = 0
    BY <1>1, <1>2, <1>11, <1>12
  <2>3. QED
    BY <1>13, <1>15, <1>16, <2>1, <2>2 DEF CountersOk
<1>18. QED
  BY <1>12, <1>13, <1>14, <1>15, <1>17 DEF T

(* Is a request of the kind that the walk o over the data queue writes? *)
Mine(r, o) == r.state # "IP" /\ (o.mode = "DP" => r.state = "DP")

(* A request that was written is kept as a copy for the index partition. *)
LEMMA ToIpLaw ==
  ASSUME Inv, op.pc = "data", op.cur \in DOMAIN dpr.requests, Mine(dpr.requests[op.cur], op)
  PROVE  LET r == dpr.requests[op.cur]
             T == AddMember(SetRequest(Pair, op.cur, [r EXCEPT !.state = "IP"]), "IP")
         IN  /\ Sound(T) /\ Same(Pair, T) /\ Fits(T.d.requests) /\ CountersOk(T, op)
             /\ op.cur \in DOMAIN T.d.requests /\ T.d.requests[op.cur].state = "IP"
             /\ T.g.cache = global.cache /\ Len(T.d.requests) = Len(dpr.requests)
<1> DEFINE i == op.cur
           q == dpr.requests
           r == q[i]
           n == [r EXCEPT !.state = "IP"]
           W == SetRequest(Pair, i, n)
           T == AddMember(W, "IP")
           Q == Live(op)
<1>1. i \in Nat /\ i > 0 /\ "IP" \in Q /\ Q \in SUBSET States
  BY DataFacts
<1>2. /\ Sound(Pair) /\ CountersOk(Pair, op) /\ Fits(q) /\ Pair.d = dpr /\ Pair.g = global
      /\ q \in Seq(Request) /\ DOMAIN q = 1 .. Len(q)
  BY WalkFacts
<1>3. r \in Request
  BY <1>2, ElementOfSeq
<1>4. "IP" \in States
  BY DEF States
<1>5. n \in Request /\ n.state = "IP" /\ n.data = r.data
  <2> HIDE DEF r
  <2>1. QED
    BY <1>3, <1>4, RequestLaw
<1> HIDE DEF n
<1>6. /\ Sound(W) /\ Same(Pair, W) /\ Len(W.d.requests) = Len(q)
      /\ DOMAIN W.d.requests = DOMAIN q /\ W.d.requests[i] = n
      /\ \A k \in DOMAIN q : k # i => W.d.requests[k] = q[k]
      /\ W.d.in = dpr.in /\ W.g.cache = global.cache
  <2>1. i \in DOMAIN Pair.d.requests
    BY <1>2
  <2> HIDE DEF i
  <2>2. QED
    BY <1>2, <1>5, <2>1, SetRequestLaw
<1> HIDE DEF W
<1>7. /\ Sound(T) /\ Same(W, T) /\ T.d.requests = W.d.requests
      /\ T.d.in["IP"] = W.d.in["IP"] + 1
      /\ \A st \in States : st # "IP" => T.d.in[st] = W.d.in[st]
      /\ T.g.cache = W.g.cache
  BY <1>4, <1>6, AddMemberLaw
<1> HIDE DEF T
<1>8. Same(Pair, T)
  BY <1>6, <1>7 DEF Same
<1>9. Fits(T.d.requests)
  BY <1>2, <1>5, <1>6, <1>7, SMTT(30) DEF Fits
<1>10. \A st : Count(T.d.requests, st) = Count(q, st) + Is("IP", st) - Is(r.state, st)
  <2>1. DOMAIN T.d.requests = DOMAIN q /\ T.d.requests[i] = n
    BY <1>6, <1>7
  <2>2. \A k \in DOMAIN q : k # i => T.d.requests[k].state = q[k].state
    BY <1>6, <1>7
  <2>3. \A st : Count(T.d.requests, st) =
                Count(q, st) + Is(T.d.requests[i].state, st) - Is(q[i].state, st)
    <3> HIDE DEF i, q
    <3>1. i \in DOMAIN q
      BY DEF i, q
    <3>2. QED
      BY <1>2, <2>1, <2>2, <3>1, CountSet
  <2>4. QED
    BY <1>5, <2>1, <2>3
<1>11. Matched(T, Q)
  <2> SUFFICES ASSUME NEW st \in Q PROVE T.d.in[st] = Count(T.d.requests, st)
    BY DEF Matched
  <2>1. dpr.in[st] = Count(q, st)
    BY <1>2 DEF CountersOk, Matched
  <2>2. Count(q, st) \in Nat
    BY <1>2, InStateFinite
  <2>3. CASE st = "IP"
    <3>1. Is("IP", st) = 1 /\ Is(r.state, st) = 0
      BY <2>3 DEF Is, Mine
    <3>2. Count(T.d.requests, st) = Count(q, st) + 1 - 0
      BY <1>10, <3>1
    <3>3. T.d.in[st] = Count(q, st) + 1
      BY <1>6, <1>7, <2>1, <2>3
    <3>4. QED
      BY <2>2, <3>2, <3>3
  <2>4. CASE st # "IP"
    <3>1. st = "PARTIAL" /\ op.mode = "DP"
      BY <2>4 DEF Live, Q
    <3>2. Is("IP", st) = 0 /\ Is(r.state, st) = 0
      BY <3>1 DEF Is, Mine
    <3>3. Count(T.d.requests, st) = Count(q, st) + 0 - 0
      BY <1>10, <3>2
    <3>4. T.d.in[st] = Count(q, st)
      BY <1>1, <1>6, <1>7, <2>1, <2>4
    <3>5. QED
      BY <2>2, <3>3, <3>4
  <2>5. QED
    BY <2>3, <2>4
<1>12. CountersOk(T, op)
  <2>1. \A st \in States : st \notin Q => T.d.in[st] = 0
    BY <1>1, <1>2, <1>6, <1>7 DEF CountersOk
  <2>2. Passed(T.d.requests, op)
    <3>1. Passed(q, op)
      BY <1>2 DEF CountersOk
    <3>2. \A k \in DOMAIN q : k < i => T.d.requests[k] = q[k]
      BY <1>1, <1>2, <1>6, <1>7
    <3>3. QED
      BY <1>6, <1>7, <3>1, <3>2 DEF Passed
  <2>3. QED
    BY <1>1, <1>11, <2>1, <2>2 DEF CountersOk, Q
<1>13. QED
  BY <1>5, <1>6, <1>7, <1>8, <1>9, <1>12 DEF T, W, n

(* The walk takes a request off the list: it does not count any more. *)
LEMMA TakeLaw ==
  ASSUME Inv, op.pc = "data", op.cur \in DOMAIN dpr.requests, Mine(dpr.requests[op.cur], op)
  PROVE  LET T == RemoveRequest(Pair, op.cur)
         IN  /\ Sound(T) /\ Same(Pair, T) /\ Fits(T.d.requests) /\ CountersOk(T, op)
             /\ T.g.cache = global.cache /\ Len(T.d.requests) = Len(dpr.requests) - 1
<1> DEFINE i == op.cur
           q == dpr.requests
           T == RemoveRequest(Pair, i)
           Q == Live(op)
<1>1. i \in Nat /\ i > 0 /\ "IP" \in Q /\ Q \in SUBSET States
  BY DataFacts
<1>2. /\ Sound(Pair) /\ CountersOk(Pair, op) /\ Fits(q) /\ Pair.d = dpr /\ Pair.g = global
      /\ q \in Seq(Request) /\ DOMAIN q = 1 .. Len(q) /\ Len(q) \in Nat
  BY WalkFacts
<1>3. /\ Removed(Pair, i, T) /\ T.d.in = dpr.in
      /\ \A st : Count(q, st) = Count(T.d.requests, st) + Is(q[i].state, st)
  <2>1. i \in DOMAIN Pair.d.requests /\ Fits(Pair.d.requests)
    BY <1>2
  <2> HIDE DEF i
  <2>2. QED
    BY <1>2, <2>1, RemoveLaw
<1> HIDE DEF T
<1>4. /\ Sound(T) /\ Same(Pair, T) /\ Fits(T.d.requests) /\ T.g.cache = global.cache
      /\ Len(T.d.requests) = Len(q) - 1 /\ DOMAIN T.d.requests = 1 .. Len(q) - 1
      /\ \A k \in 1 .. i - 1 : T.d.requests[k] = q[k]
  BY <1>2, <1>3 DEF Removed
<1>5. Matched(T, Q)
  <2> SUFFICES ASSUME NEW st \in Q PROVE T.d.in[st] = Count(T.d.requests, st)
    BY DEF Matched
  <2>1. dpr.in[st] = Count(q, st)
    BY <1>2 DEF CountersOk, Matched
  <2>2. q[i].state # st
    BY DEF Live, Q, Mine
  <2>3. Is(q[i].state, st) = 0
    BY <2>2 DEF Is
  <2>4. T.d.requests \in Seq(Request)
    BY <1>4 DEF Sound, IsPair, IsPriv
  <2>5. Count(T.d.requests, st) \in Nat
    BY <2>4, InStateFinite
  <2>6. Count(q, st) = Count(T.d.requests, st) + 0
    BY <1>3, <2>3
  <2>7. QED
    BY <1>3, <2>1, <2>5, <2>6
<1>6. CountersOk(T, op)
  <2>1. \A st \in States : st \notin Q => T.d.in[st] = 0
    BY <1>1, <1>2, <1>3 DEF CountersOk
  <2>2. Passed(T.d.requests, op)
    <3>1. Passed(q, op)
      BY <1>2 DEF CountersOk
    <3>2. \A k \in DOMAIN T.d.requests : k < i => k \in DOMAIN q /\ T.d.requests[k] = q[k]
      BY <1>1, <1>2, <1>4
    <3>3. QED
      BY <3>1, <3>2 DEF Passed
  <2>3. QED
    BY <1>1, <1>5, <2>1, <2>2 DEF CountersOk, Q
<1>7. QED
  BY <1>4, <1>6 DEF T

(* What libltfs remembers of a failed write. *)
LEMMA TapeLaw ==
  ASSUME tape \in TapeRecord, NEW q \in {"DP", "IP"}, NEW res \in Errors
  PROVE  /\ TapeAfter(q, res) \in TapeRecord
         /\ q = "DP" => TapeAfter(q, res).space["IP"] = tape.space["IP"]
         /\ res = "werr" => TapeAfter(q, res) = tape
<1>1. CASE res \in {"less", "nospace"}
  <2>1. TapeAfter(q, res) = [tape EXCEPT !.space[q] = res]
    BY <1>1 DEF TapeAfter
  <2>2. QED
    BY <1>1, <2>1 DEF TapeRecord
<1>2. CASE res = "perm"
  <2>1. TapeAfter(q, res) = [tape EXCEPT !.pwe = TRUE]
    BY <1>2 DEF TapeAfter
  <2>2. QED
    BY <1>2, <2>1 DEF TapeRecord
<1>3. CASE res \notin {"less", "nospace", "perm"}
  <2>1. TapeAfter(q, res) = tape
    BY <1>3 DEF TapeAfter
  <2>2. QED
    BY <2>1
<1>4. QED
  BY <1>1, <1>2, <1>3

(* After an error in the walk over the data queue. *)
LEMMA DataErrorLaw ==
  ASSUME Inv, op.pc = "data", NEW res \in Errors, res # "ok", NEW st, st # "IP", NEW t, NEW size,
         Commit(HandleWriteError(Pair, res, st, t, size)), op' = [op EXCEPT !.pc = "end"],
         tape' = TapeAfter("DP", res), lost' = "pending", UNCHANGED <<wr, bg, writes, site>>
  PROVE  Inv'
<1> DEFINE T == HandleWriteError(Pair, res, st, t, size)
<1>1. /\ dpr.alloc /\ dpr.write_error = "ok" /\ "IP" \in Live(op)
      /\ op.mode \in {"close", "flush", "unmount", "DP", "PARTIAL"}
  BY DataFacts
<1>2. /\ Sound(Pair) /\ CountersOk(Pair, op) /\ Fits(dpr.requests) /\ Pair.d = dpr
      /\ Pair.g = global /\ Accounted(Pair, bg, wr) /\ WriteOk(wr, dpr)
      /\ Len(dpr.requests) \in Nat
      /\ global.cache \in Int /\ global.leaked \in Int /\ Len(bg.local) \in Nat
      /\ op \in OpRecord /\ bg \in BgRecord /\ tape \in TapeRecord /\ Spare(wr) \in Int
      /\ Threads /\ Failing /\ Telling /\ wr.pc \in {"idle", "wait"}
  BY WalkFacts
<1>3. Matched(Pair, {"IP"})
  BY <1>1, <1>2 DEF CountersOk, Matched
<1>4. /\ Thinned(Pair, T) /\ Matched(T, States)
      /\ T.d.write_error = IF Reports(st, res) /\ dpr.write_error = "ok" THEN res
                                                                        ELSE dpr.write_error
      /\ AllIp(T.d.requests)
  <2>1. Fits(Pair.d.requests)
    BY <1>2
  <2>2. QED
    BY <1>2, <1>3, <2>1, HandleErrorLaw
<1>5. Commit(T)
  OBVIOUS
<1> HIDE DEF T
<1>6. /\ Sound(T) /\ Fits(T.d.requests) /\ T.g.leaked = global.leaked /\ T.d.alloc = dpr.alloc
      /\ T.g.cache - Len(T.d.requests) = global.cache - Len(dpr.requests)
  BY <1>2, <1>4 DEF Thinned
<1>7. T.d.write_error = res
  BY <1>1, <1>4 DEF Reports
<1>8. op' \in OpRecord /\ op'.pc = "end" /\ op'.mode = op.mode
  BY <1>2 DEF OpRecord
<1>9. CountersOk(T, op')
  BY <1>4, <1>8 DEF CountersOk, Live
<1>10. Accounted(T, bg', wr)
  <2>1. bg' = bg /\ Len(bg.local) \in Int
    BY <1>2
  <2>2. T.g.cache - Len(T.d.requests) - Len(bg.local) =
          global.cache - Len(dpr.requests) - Len(bg.local)
    BY <1>6
  <2>3. QED
    BY <1>6, <2>1, <2>2, BlocksLaw
<1>11. tape' \in TapeRecord /\ tape'.space["IP"] = tape.space["IP"]
  <2>1. "DP" \in {"DP", "IP"}
    OBVIOUS
  <2>2. QED
    BY <1>2, <2>1, TapeLaw
<1>12. dpr' = T.d
  BY <1>5 DEF Commit
<1>13. Threads'
  BY <1>1, <1>2, <1>8 DEF Threads
<1>14. Failing'
  <2>1. bg' = bg /\ bg.pc # "tape"
    BY <1>2 DEF Threads
  <2>2. Cleared(dpr') /\ AllIp(dpr'.requests) /\ dpr'.alloc
    BY <1>1, <1>4, <1>6, <1>12 DEF Cleared
  <2>3. QED
    BY <1>2, <1>8, <2>1, <2>2 DEF Failing
<1>15. Telling'
  BY <1>1, <1>2, <1>6, <1>7, <1>8, <1>11, <1>12 DEF Telling, Told
<1>16. Blank(T.d) /\ WriteOk(wr, T.d) /\ bg' \in BgRecord
  BY <1>1, <1>2, <1>6, QuietLaw DEF Blank
<1>17. QED
  BY <1>2, <1>5, <1>6, <1>8, <1>9, <1>10, <1>11, <1>13, <1>14, <1>15, <1>16, ComposeLaw DEF LostStates

(* One request of the walk over the data queue. *)
LEMMA DataStepInv ==
  ASSUME Inv, NEW res \in Errors, DataStep(res)
  PROVE  Inv'
<1> DEFINE i == op.cur
           q == dpr.requests
           r == q[i]
           mine == r.state # "IP" /\ (op.mode = "DP" => r.state = "DP")
           N == AddMember(SetRequest(Pair, i, [r EXCEPT !.state = "IP"]), "IP")
           R == RemoveRequest(Pair, i)
           S == IF mine THEN N ELSE Pair
           a == AfterMerge(S, i)
<1>1. /\ op.pc = "data" /\ i <= Len(q) /\ UNCHANGED <<wr, writes, site>>
  BY DEF DataStep
<1>2. /\ dpr.alloc /\ dpr.write_error = "ok" /\ i \in Nat /\ i > 0
      /\ op.mode \in {"close", "flush", "unmount", "DP", "PARTIAL"}
  BY <1>1, DataFacts
<1>3. /\ Sound(Pair) /\ CountersOk(Pair, op) /\ Fits(q) /\ Pair.d = dpr
      /\ Pair.g = global /\ Accounted(Pair, bg, wr) /\ q \in Seq(Request)
      /\ Len(q) \in Nat /\ DOMAIN q = 1 .. Len(q)
      /\ global.cache \in Int /\ global.leaked \in Int /\ Len(bg.local) \in Nat
      /\ op \in OpRecord /\ bg \in BgRecord /\ Spare(wr) \in Int
      /\ Threads /\ Failing
  BY WalkFacts
<1>4. i \in DOMAIN q
  BY <1>1, <1>2, <1>3
<1>5. r \in Request
  BY <1>3, <1>4, ElementOfSeq
<1>6. mine => Mine(q[i], op)
  BY DEF Mine
<1> DEFINE c == global.cache
           n == Len(q)
           s == Spare(wr)
           b == Len(bg.local)
           l == global.leaked
<1>7. /\ c \in Int /\ n \in Int /\ s \in Int /\ b \in Int /\ l \in Int /\ c = n + b + s + l
  <2>1. global.cache = Len(q) + Len(bg.local) + Spare(wr) + global.leaked
    BY <1>3 DEF Accounted
  <2>2. c \in Int /\ n \in Int /\ s \in Int /\ b \in Int /\ l \in Int
    BY <1>3
  <2>3. c = n + b + s + l
    BY <2>1
  <2>4. QED
    BY <2>2, <2>3
<1>8. ASSUME NEW V, Sound(V), Fits(V.d.requests), CountersOk(V, op), Same(Pair, V),
             i \in DOMAIN V.d.requests, V.d.requests[i].state = "IP",
             V.g.cache = global.cache, Len(V.d.requests) = Len(q),
             Commit(AfterMerge(V, i).S), op' = [op EXCEPT !.cur = AfterMerge(V, i).cur],
             UNCHANGED <<tape, bg, lost>>
      PROVE  Inv'
  <2> DEFINE T == AfterMerge(V, i).S
  <2>1. op'.pc = "data" /\ op'.mode = op.mode /\ op'.cur = AfterMerge(V, i).cur
    BY <1>1, <1>3, <1>8 DEF OpRecord
  <2>2. /\ Sound(T) /\ Same(V, T) /\ Fits(T.d.requests) /\ CountersOk(T, op')
        /\ T.g.cache - Len(T.d.requests) = V.g.cache - Len(V.d.requests) /\ op'.cur \in Nat
    BY <1>1, <1>8, <2>1, TurnLaw
  <2>3. Commit(T)
    BY <1>8
  <2> HIDE DEF T
  <2>4. op' \in OpRecord
    BY <1>3, <1>8, <2>1, <2>2 DEF OpRecord
  <2>5. T.d.alloc /\ T.d.write_error = "ok" /\ T.g.leaked = l
    BY <1>2, <1>3, <1>8, <2>2 DEF Same
  <2>6. Accounted(T, bg', wr)
    <3>1. T.d.requests \in Seq(Request) /\ T.g.cache \in Int
      BY <2>2 DEF Sound, IsPair, IsPriv, IsGlobal
    <3>2. Len(T.d.requests) \in Nat
      BY <3>1, LenProperties
    <3> DEFINE c1 == T.g.cache
               n1 == Len(T.d.requests)
    <3>3. c1 \in Int /\ n1 \in Int /\ c1 - n1 = c - n
      BY <1>8, <2>2, <3>1, <3>2
    <3>4. bg' = bg
      BY <1>8
    <3> HIDE DEF c, n, s, b, l, c1, n1
    <3>5. c1 = n1 + b + s + l
      BY <1>7, <3>3
    <3>6. QED
      BY <2>5, <3>4, <3>5 DEF Accounted, c1, n1, s, b
  <2>7. bg' = bg /\ \A k \in DOMAIN bg.local : bg.local[k].state # "IP"
    BY <1>3, <1>8 DEF Failing
  <2>8. QED
    BY <1>1, <1>3, <1>8, <2>1, <2>2, <2>3, <2>4, <2>5, <2>6, <2>7, DataLaw
<1> HIDE DEF q, i
<1>9. CASE /\ r.state = "IP" /\ Commit(a.S) /\ op' = [op EXCEPT !.cur = a.cur]
           /\ UNCHANGED <<tape, bg, lost>>
  <2>1. S = Pair
    BY <1>9
  <2>2. Same(Pair, Pair) /\ Pair.d.requests = q
    BY <1>3 DEF Same, q
  <2>3. QED
    BY <1>3, <1>4, <1>8, <1>9, <2>1, <2>2
<1>10. CASE /\ mine /\ Commit(a.S) /\ op' = [op EXCEPT !.cur = a.cur]
            /\ UNCHANGED <<tape, bg, lost>>
  <2>1. S = N
    BY <1>10
  <2>2. /\ Sound(N) /\ Same(Pair, N) /\ Fits(N.d.requests) /\ CountersOk(N, op)
        /\ i \in DOMAIN N.d.requests /\ N.d.requests[i].state = "IP"
        /\ N.g.cache = global.cache /\ Len(N.d.requests) = Len(q)
    BY <1>1, <1>4, <1>6, <1>10, ToIpLaw DEF q, i
  <2> HIDE DEF N
  <2>3. QED
    BY <1>8, <1>10, <2>1, <2>2
<1>11. CASE /\ r.state # "IP" /\ ~mine /\ op' = [op EXCEPT !.cur = @ + 1]
            /\ UNCHANGED <<dpr, global, tape, bg, lost>>
  <2>1. Commit(Pair) /\ bg' = bg /\ UNCHANGED <<wr, tape, lost, writes, site>>
    BY <1>1, <1>11 DEF Commit, Pair
  <2>2. i + 1 \in Nat /\ i + 1 > 0
    BY <1>2
  <2>3. op' \in OpRecord /\ op'.pc = "data" /\ op'.mode = op.mode /\ op'.cur = i + 1
    BY <1>1, <1>3, <1>11, <2>2 DEF OpRecord, i
  <2>4. op.mode = "DP" /\ r.state # "DP"
    BY <1>11
  <2>5. Passed(q, op')
    <3>1. Passed(q, op)
      BY <1>1, <1>3 DEF CountersOk, q
    <3>2. \A k \in DOMAIN q : k < op'.cur => k < i \/ k = i
      BY <1>2, <1>3, <2>3
    <3>3. QED
      BY <1>1, <2>3, <2>4, <3>1, <3>2 DEF Passed, i
  <2>6. CountersOk(Pair, op')
    <3>1. Live(op') = Live(op)
      BY <1>1, <2>3 DEF Live
    <3>2. QED
      BY <1>3, <2>2, <2>3, <2>5, <3>1 DEF CountersOk, q
  <2>7. \A k \in DOMAIN bg.local : bg.local[k].state # "IP"
    BY <1>3 DEF Failing
  <2>8. QED
    BY <1>1, <1>2, <1>3, <2>1, <2>3, <2>6, <2>7, DataLaw DEF q
<1>12. ASSUME mine
       PROVE  /\ Sound(R) /\ Same(Pair, R) /\ Fits(R.d.requests) /\ CountersOk(R, op)
              /\ R.g.cache = c /\ Len(R.d.requests) = n - 1
              /\ R.d.alloc /\ R.d.write_error = "ok" /\ R.g.leaked = l
  <2>1. /\ Sound(R) /\ Same(Pair, R) /\ Fits(R.d.requests) /\ CountersOk(R, op)
        /\ R.g.cache = c /\ Len(R.d.requests) = n - 1
    BY <1>1, <1>4, <1>6, <1>12, TakeLaw DEF q, i
  <2> HIDE DEF R
  <2>2. QED
    BY <1>2, <1>3, <2>1 DEF Same
<1> HIDE DEF R
<1>13. CASE /\ mine /\ ~IsFlush(op.mode) /\ Commit(R) /\ bg' = [bg EXCEPT !.local = Append(@, r)]
            /\ UNCHANGED <<op, tape, lost>>
  <2>1. bg.local \in Seq(Request) /\ bg.pc \in {"idle", "tape", "fail"} /\ bg.ret \in Errors
    BY <1>3 DEF BgRecord
  <2>2. /\ Append(bg.local, r) \in Seq(Request) /\ Len(Append(bg.local, r)) = b + 1
        /\ \A k \in DOMAIN Append(bg.local, r) :
             \/ k \in DOMAIN bg.local /\ Append(bg.local, r)[k] = bg.local[k]
             \/ Append(bg.local, r)[k] = r
    <3> HIDE DEF r
    <3>1. QED
      BY <1>5, <2>1
  <2>3. bg' \in BgRecord /\ bg'.pc = bg.pc /\ bg'.local = Append(bg.local, r)
    <3>1. Append(bg.local, r) \in Seq(Request)
      BY <2>2
    <3> DEFINE x == Append(bg.local, r)
    <3>2. bg' = [bg EXCEPT !.local = x] /\ x \in Seq(Request)
      BY <1>13, <3>1
    <3> HIDE DEF x
    <3>3. bg' \in BgRecord /\ bg'.pc = bg.pc /\ bg'.local = x
      BY <1>3, <3>2 DEF BgRecord
    <3>4. QED
      BY <3>3 DEF x
  <2>4. \A k \in DOMAIN bg'.local : bg'.local[k].state # "IP"
    <3>1. \A k \in DOMAIN bg.local : bg.local[k].state # "IP"
      BY <1>3 DEF Failing
    <3>2. r.state # "IP"
      BY <1>13
    <3> HIDE DEF r
    <3>3. QED
      BY <2>2, <2>3, <3>1, <3>2
  <2>5. Accounted(R, bg', wr)
    <3>1. R.g.cache = c /\ Len(R.d.requests) = n - 1 /\ R.g.leaked = l /\ Len(bg'.local) = b + 1
      BY <1>12, <1>13, <2>2, <2>3
    <3> HIDE DEF c, n, s, b, l
    <3>2. c = (n - 1) + (b + 1) + s + l
      BY <1>7
    <3>3. QED
      BY <3>1, <3>2 DEF Accounted, s
  <2>6. op' = op
    BY <1>13
  <2>7. QED
    BY <1>1, <1>3, <1>12, <1>13, <2>3, <2>4, <2>5, <2>6, DataLaw
<1>14. CASE mine /\ Commit(CacheFree(R, 1)) /\ op' = op /\ UNCHANGED <<tape, bg, lost>>
  <2> DEFINE F == CacheFree(R, 1)
  <2>1. Sound(F) /\ Same(R, F) /\ F.d = R.d /\ F.g.cache = R.g.cache - 1
    <3>1. 1 \in Int
      OBVIOUS
    <3>2. QED
      BY <1>12, <1>14, <3>1, CacheFreeLaw
  <2>2. Commit(F) /\ bg' = bg
    BY <1>14
  <2> HIDE DEF F
  <2>3. /\ Fits(F.d.requests) /\ F.d.alloc /\ F.d.write_error = "ok" /\ F.g.leaked = l
    BY <1>12, <1>14, <2>1 DEF Same
  <2>4. CountersOk(F, op')
    BY <1>12, <1>14, <2>1 DEF CountersOk, Matched
  <2>5. Accounted(F, bg', wr)
    <3>1. F.g.cache = c - 1 /\ Len(F.d.requests) = n - 1
      BY <1>12, <1>14, <2>1
    <3> HIDE DEF c, n, s, b, l
    <3>2. c - 1 = (n - 1) + b + s + l
      BY <1>7
    <3>3. QED
      BY <2>2, <2>3, <3>1, <3>2 DEF Accounted, s, b
  <2>6. \A k \in DOMAIN bg'.local : bg'.local[k].state # "IP"
    BY <1>3, <2>2 DEF Failing
  <2>7. QED
    BY <1>1, <1>3, <1>14, <2>1, <2>2, <2>3, <2>4, <2>5, <2>6, DataLaw
<1>15. CASE /\ mine /\ res # "ok" /\ tape' = TapeAfter("DP", res) /\ lost' = "pending"
            /\ Commit(HandleWriteError(Pair, res, r.state, tape', Len(disk')))
            /\ op' = [op EXCEPT !.pc = "end"] /\ bg' = bg
  <2>1. r.state # "IP" /\ UNCHANGED <<wr, bg, writes, site>>
    BY <1>1, <1>15
  <2> DEFINE st == r.state
             t == tape'
             size == Len(disk')
  <2>2. Commit(HandleWriteError(Pair, res, st, t, size)) /\ st # "IP"
    BY <1>15, <2>1
  <2> HIDE DEF st, t, size
  <2>3. QED
    BY <1>1, <1>15, <2>1, <2>2, DataErrorLaw
<1>16. QED
  BY <1>9, <1>10, <1>11, <1>13, <1>14, <1>15 DEF DataStep, q, i, R

(* The structure of a file that the scheduler does not know. *)
LEMMA NoPrivLaw ==
  /\ IsPriv(NoPriv) /\ NoPriv.requests = <<>> /\ NoPriv.alloc = FALSE /\ NoPriv.write_ip = FALSE
  /\ NoPriv.write_error = "ok" /\ \A st \in States : NoPriv.in[st] = 0
<1>1. /\ DOMAIN NoPriv = PrivFields /\ NoPriv.requests = <<>> /\ NoPriv.in = [q \in States |-> 0]
      /\ NoPriv.alloc = FALSE /\ NoPriv.write_ip = FALSE /\ NoPriv.write_error = "ok"
  BY DEF NoPriv, PrivFields
<1>2. NoPriv.requests \in Seq(Request) /\ NoPriv.in \in [States -> Nat]
  BY <1>1
<1>3. NoPriv.alloc \in BOOLEAN /\ NoPriv.write_ip \in BOOLEAN /\ NoPriv.write_error \in Errors
  BY <1>1 DEF Errors, Results
<1>4. IsPriv(NoPriv)
  BY <1>1, <1>2, <1>3 DEF IsPriv
<1>5. QED
  BY <1>1, <1>4

(* _unified_free_dentry_priv_conditional: nothing that counts is freed. *)
LEMMA FreedLaw ==
  ASSUME NEW S, Sound(S), Matched(S, States)
  PROVE  LET T == Freed(S)
         IN  /\ Sound(T) /\ Matched(T, States) /\ T.d.requests = S.d.requests /\ T.g = S.g
             /\ ~Frees(S) => T = S
             /\ Frees(S) => T.d = NoPriv
<1> DEFINE T == Freed(S)
<1>1. CASE ~Frees(S)
  <2>1. T = S
    BY <1>1 DEF Freed
  <2>2. QED
    BY <1>1, <2>1
<1>2. CASE Frees(S)
  <2>1. IsPair(S) /\ Balanced(S) /\ S.d.requests = <<>>
    BY <1>2 DEF Sound, Frees
  <2>2. T = [S EXCEPT !.d = NoPriv]
    BY <1>2 DEF Freed
  <2>3. T.d = NoPriv /\ T.g = S.g /\ DOMAIN T = {"d", "g"}
    BY <2>1, <2>2 DEF IsPair
  <2> HIDE DEF T
  <2>4. IsPair(T)
    BY <2>1, <2>3, NoPrivLaw DEF IsPair
  <2>5. Matched(T, States)
    BY <2>3, NoPrivLaw, CountEmpty DEF Matched
  <2>6. S.d.in["DP"] = 0 /\ "DP" \in States
    BY <2>1, CountEmpty DEF Matched, States
  <2>7. Balanced(T)
    BY <2>1, <2>3, <2>6, NoPrivLaw DEF Balanced
  <2>8. T.d.requests = S.d.requests
    BY <2>1, <2>3, NoPrivLaw
  <2>9. QED
    BY <1>2, <2>3, <2>4, <2>5, <2>7, <2>8 DEF Sound, T
<1>3. QED
  BY <1>1, <1>2

(* At the end of a walk the counters it cleared match again: no request of  *)
(* its kind is left.                                                        *)
LEMMA WalkEndLaw ==
  ASSUME Inv, op.pc \in {"data", "index"}, op.cur > Len(dpr.requests)
  PROVE  /\ Matched(Pair, States)
         /\ op.pc = "data" /\ op.mode # "DP" => AllIp(dpr.requests)
<1> DEFINE q == dpr.requests
<1>1. /\ CountersOk(Pair, op) /\ Pair.d = dpr /\ q \in Seq(Request) /\ Len(q) \in Nat
      /\ DOMAIN q = 1 .. Len(q) /\ op \in OpRecord /\ Threads
  BY WalkFacts
<1>2. op.cur \in Nat
  BY <1>1 DEF OpRecord
<1>3. \A k \in DOMAIN q : k < op.cur
  <2> DEFINE n == Len(q)
             c == op.cur
  <2>1. n \in Nat /\ c \in Nat /\ c > n /\ DOMAIN q = 1 .. n
    BY <1>1, <1>2
  <2> HIDE DEF n, c
  <2>2. \A k \in 1 .. n : k < c
    BY <2>1
  <2>3. QED
    BY <2>1, <2>2 DEF c
<1>4. Passed(q, op)
  BY <1>1 DEF CountersOk
<1>5. \A k \in DOMAIN q :
        /\ op.pc = "data" => q[k].state # "DP" /\ (op.mode # "DP" => q[k].state = "IP")
        /\ op.pc = "index" => q[k].state # "IP"
  BY <1>3, <1>4 DEF Passed
<1>6. ASSUME NEW st \in States PROVE dpr.in[st] = Count(q, st)
  <2>1. CASE st \in Live(op)
    BY <1>1, <2>1 DEF CountersOk, Matched
  <2>2. CASE st \notin Live(op)
    <3>1. dpr.in[st] = 0
      BY <1>1, <2>2 DEF CountersOk
    <3>2. \A k \in DOMAIN q : q[k].state # st
      <4>1. CASE op.pc = "data" /\ op.mode = "DP"
        BY <1>5, <2>2, <4>1 DEF Live, States
      <4>2. CASE op.pc = "data" /\ op.mode # "DP"
        BY <1>5, <2>2, <4>2 DEF Live, States
      <4>3. CASE op.pc = "index"
        BY <1>5, <2>2, <4>3 DEF Live, States
      <4>4. QED
        BY <4>1, <4>2, <4>3
    <3>3. QED
      BY <1>1, <3>1, <3>2, CountZero
  <2>3. QED
    BY <2>1, <2>2
<1>7. Matched(Pair, States)
  BY <1>1, <1>6 DEF Matched
<1>8. QED
  BY <1>5, <1>7 DEF AllIp

(* The end of a walk over the data queue. *)
LEMMA DataEndInv ==
  ASSUME Inv, DataEnd
  PROVE  Inv'
<1> DEFINE told == IF IsFlush(op.mode) THEN [Pair EXCEPT !.d.write_error = "ok"] ELSE Pair
           tell == IF dpr.write_error # "ok" THEN "no" ELSE lost
<1>1. /\ op.pc \in {"data", "end"} /\ (op.pc = "data" => op.cur > Len(dpr.requests))
      /\ UNCHANGED <<tape, wr, writes, site>>
  BY DEF DataEnd
<1>2. /\ Sound(Pair) /\ CountersOk(Pair, op) /\ Fits(dpr.requests) /\ Pair.d = dpr
      /\ Pair.g = global /\ Accounted(Pair, bg, wr) /\ WriteOk(wr, dpr) /\ Blank(dpr)
      /\ Cleared(dpr) /\ op \in OpRecord /\ bg \in BgRecord /\ tape \in TapeRecord
      /\ lost \in LostStates
      /\ Threads /\ Failing /\ Telling /\ wr.pc \in {"idle", "wait"}
  BY <1>1, WalkFacts
<1>3. Matched(Pair, States)
  <2>1. CASE op.pc = "data"
    BY <1>1, <2>1, WalkEndLaw
  <2>2. CASE op.pc = "end"
    BY <1>2, <2>2 DEF CountersOk, Live
  <2>3. QED
    BY <1>1, <2>1, <2>2
<1>4. op.mode = "unmount" => AllIp(dpr.requests)
  <2>1. CASE op.pc = "data"
    BY <1>1, <2>1, WalkEndLaw
  <2>2. CASE op.pc = "end"
    BY <1>2, <2>2 DEF Failing
  <2>3. QED
    BY <1>1, <2>1, <2>2
<1>5. op.mode \in {"close", "flush", "unmount", "DP", "PARTIAL"}
  BY <1>1, <1>2 DEF OpRecord, Threads
<1>6. ASSUME IsFlush(op.mode)
      PROVE  /\ Sound(told) /\ Matched(told, States) /\ told.d.requests = dpr.requests
             /\ told.g = global /\ told.d.alloc = dpr.alloc /\ told.d.write_error = "ok"
             /\ told.d.alt = dpr.alt /\ Fits(told.d.requests)
  <2>1. "ok" \in Errors /\ told = [Pair EXCEPT !.d.write_error = "ok"]
    BY <1>6 DEF Errors, Results
  <2>2. /\ Sound(told) /\ told.d.requests = dpr.requests /\ told.d.in = dpr.in
        /\ told.g = global /\ told.d.alloc = dpr.alloc /\ told.d.write_error = "ok"
        /\ told.d.alt = dpr.alt
    <3> DEFINE X == [Pair EXCEPT !.d.write_error = "ok"]
    <3>1. /\ Sound(X) /\ X.d.requests = Pair.d.requests /\ X.d.in = Pair.d.in
          /\ X.g = Pair.g /\ X.d.alloc = Pair.d.alloc /\ X.d.write_error = "ok"
          /\ X.d.alt = Pair.d.alt
      BY <1>2, <2>1, ErrorFieldLaw
    <3>2. told = X
      BY <2>1
    <3> HIDE DEF X, told
    <3>3. QED
      BY <1>2, <3>1, <3>2
  <2> HIDE DEF told
  <2>3. Matched(told, States)
    BY <1>2, <1>3, <2>2 DEF Matched
  <2>4. QED
    BY <1>2, <2>2, <2>3
<1>7. op.pc = "data" => dpr.write_error = "ok"
  BY <1>2 DEF Failing
<1> HIDE DEF told
<1>8. CASE /\ op.mode = "unmount" /\ Commit(DelAllMembers(told, "IP"))
           /\ lost' = (IF lost = "pending" THEN "gone" ELSE lost)
           /\ op' = [op EXCEPT !.pc = "index", !.cur = 1] /\ UNCHANGED bg
  <2> DEFINE T == DelAllMembers(told, "IP")
  <2>1. IsFlush(op.mode) /\ "IP" \in States
    BY <1>8 DEF IsFlush, States
  <2>2. /\ Sound(T) /\ Same(told, T) /\ T.d.requests = told.d.requests /\ T.d.in["IP"] = 0
        /\ \A st \in States : st # "IP" => T.d.in[st] = told.d.in[st]
        /\ T.g.cache = told.g.cache
    BY <1>6, <2>1, DelAllLaw
  <2>3. Commit(T) /\ bg' = bg
    BY <1>8
  <2> HIDE DEF T
  <2>4. /\ T.d.requests = dpr.requests /\ T.d.alloc = dpr.alloc /\ T.d.write_error = "ok"
        /\ T.g.leaked = global.leaked /\ T.g.cache = global.cache
    BY <1>6, <2>1, <2>2 DEF Same
  <2>5. op' \in OpRecord /\ op'.pc = "index" /\ op'.mode = "unmount" /\ op'.cur = 1
    BY <1>2, <1>8 DEF OpRecord
  <2>6. CountersOk(T, op')
    <3>1. Live(op') = {"DP", "PARTIAL"}
      BY <2>5 DEF Live
    <3>2. Matched(T, Live(op'))
      BY <1>6, <2>1, <2>2, <3>1 DEF Matched, States
    <3>3. \A st \in States : st \notin Live(op') => T.d.in[st] = 0
      BY <2>2, <3>1 DEF States
    <3>4. T.d.requests \in Seq(Request)
      BY <2>2 DEF Sound, IsPair, IsPriv
    <3>5. Passed(T.d.requests, op') /\ op'.cur > 0
      BY <2>5, <3>4, PassedStart
    <3>6. QED
      BY <3>2, <3>3, <3>5 DEF CountersOk
  <2>7. dpr' = T.d
    BY <2>3 DEF Commit
  <2>8. bg.pc = "idle" /\ bg.local = <<>>
    BY <1>1, <1>2, <1>8, <2>1 DEF Threads
  <2>9. Threads'
    BY <2>3, <2>5, <2>8 DEF Threads
  <2>10. Failing'
    BY <1>2, <1>4, <1>8, <2>3, <2>4, <2>5, <2>7, <2>8 DEF Failing, Cleared
  <2>11. lost' # "pending" /\ lost' \in LostStates
    BY <1>2, <1>8 DEF LostStates
  <2>12. Telling'
    BY <1>1, <1>2, <2>11 DEF Telling, Told
  <2>13. Blank(T.d) /\ WriteOk(wr, T.d) /\ Fits(T.d.requests) /\ Accounted(T, bg', wr)
    BY <1>2, <2>3, <2>4, QuietLaw DEF Blank, Accounted
  <2>14. QED
    BY <1>1, <1>2, <2>2, <2>3, <2>5, <2>6, <2>9, <2>10, <2>11, <2>12, <2>13, ComposeLaw
<1>9. ASSUME NEW T, Sound(T), Matched(T, States), T.d.requests = dpr.requests, T.g = global,
             T.d.write_error = "ok", op' = IdleOp, Commit(T), bg' = bg, Blank(T.d),
             bg.pc = "tape" => T.d.alloc, IsFlush(op.mode), lost' \in LostStates,
             lost' = "pending" =>
               lost = "pending" /\ dpr.write_error = "ok" /\ T.d.alloc = dpr.alloc
      PROVE  Inv'
  <2>1. op' \in OpRecord /\ op'.pc = "idle" /\ op'.mode = "none"
    BY <1>9 DEF IdleOp, OpRecord
  <2>2. CountersOk(T, op')
    BY <1>9, <2>1 DEF CountersOk, Live
  <2>3. dpr' = T.d
    BY <1>9 DEF Commit
  <2>4. bg.pc = "idle" => bg.local = <<>>
    BY <1>2, <1>9 DEF Threads
  <2>5. Threads'
    BY <1>2, <1>9, <2>1, <2>4 DEF Threads
  <2>6. Failing'
    BY <1>2, <1>9, <2>1, <2>3 DEF Failing, Cleared
  <2>7. Telling'
    BY <1>1, <1>2, <1>9, <2>1, <2>3 DEF Telling, Told
  <2>8. WriteOk(wr, T.d) /\ Fits(T.d.requests) /\ Accounted(T, bg', wr)
    BY <1>2, <1>9, QuietLaw DEF Accounted
  <2>9. QED
    BY <1>1, <1>2, <1>9, <2>1, <2>2, <2>5, <2>6, <2>7, <2>8, ComposeLaw
<1>10. /\ tell \in LostStates
       /\ tell = "pending" => lost = "pending" /\ dpr.write_error = "ok"
  BY <1>2 DEF LostStates
<1> HIDE DEF tell
<1>11. CASE op.mode = "flush" /\ Commit(told) /\ lost' = tell /\ op' = IdleOp /\ bg' = bg
  <2>1. IsFlush(op.mode)
    BY <1>11 DEF IsFlush
  <2>2. bg.pc = "idle"
    BY <1>1, <1>2, <1>11 DEF Threads
  <2>3. Blank(told.d)
    BY <1>2, <1>6, <2>1 DEF Blank
  <2>4. QED
    BY <1>6, <1>9, <1>10, <1>11, <2>1, <2>2, <2>3
<1>12. CASE /\ op.mode = "close" /\ Commit(Freed(told)) /\ lost' = LostAfter(told, tell)
            /\ op' = IdleOp /\ bg' = bg
  <2> DEFINE T == Freed(told)
  <2>1. IsFlush(op.mode)
    BY <1>12 DEF IsFlush
  <2>2. /\ Sound(T) /\ Matched(T, States) /\ T.d.requests = told.d.requests /\ T.g = told.g
        /\ ~Frees(told) => T = told
        /\ Frees(told) => T.d = NoPriv
    BY <1>6, <2>1, FreedLaw
  <2>3. Commit(T)
    BY <1>12
  <2> HIDE DEF T
  <2>4. T.d.write_error = "ok" /\ Blank(T.d)
    <3>1. CASE Frees(told)
      BY <2>2, <3>1, NoPrivLaw DEF Blank
    <3>2. CASE ~Frees(told)
      BY <1>2, <1>6, <2>1, <2>2, <3>2 DEF Blank
    <3>3. QED
      BY <3>1, <3>2
  <2>5. bg.pc = "tape" => T.d.alloc
    <3>1. ASSUME bg.pc = "tape" PROVE T.d.alloc
      <4>1. op.pc = "end"
        BY <1>1, <1>2, <3>1 DEF Threads
      <4>2. ~Frees(Pair) /\ dpr.alloc
        BY <1>2, <1>12, <3>1, <4>1 DEF Failing
      <4>3. ~Frees(told)
        BY <1>2, <1>6, <2>1, <4>2 DEF Frees
      <4>4. QED
        BY <1>6, <2>1, <2>2, <4>2, <4>3
    <3>2. QED
      BY <3>1
  <2>6. lost' \in LostStates
    BY <1>10, <1>12 DEF LostAfter, LostStates
  <2>7. lost' = "pending" => lost = "pending" /\ dpr.write_error = "ok" /\ T.d.alloc = dpr.alloc
    <3>1. ASSUME lost' = "pending" PROVE tell = "pending" /\ ~Frees(told)
      BY <1>12, <3>1 DEF LostAfter
    <3>2. QED
      BY <1>6, <1>10, <2>1, <2>2, <3>1
  <2>8. T.d.requests = dpr.requests /\ T.g = global
    BY <1>6, <2>1, <2>2
  <2>9. QED
    BY <1>9, <1>12, <2>1, <2>2, <2>3, <2>4, <2>5, <2>6, <2>7, <2>8
<1>13. CASE /\ op.mode \in {"DP", "PARTIAL"} /\ op' = IdleOp /\ UNCHANGED <<dpr, global, lost>>
            /\ bg' = (IF bg.local = <<>> THEN bg ELSE [bg EXCEPT !.pc = "tape"])
  <2>1. Commit(Pair) /\ dpr' = dpr
    BY <1>13 DEF Commit, Pair
  <2>2. op' \in OpRecord /\ op'.pc = "idle" /\ op'.mode = "none"
    BY <1>13 DEF IdleOp, OpRecord
  <2>3. bg.pc = "idle" /\ dpr.alloc
    BY <1>1, <1>2, <1>13 DEF Threads, Failing, IsFlush
  <2>4. /\ bg' \in BgRecord /\ bg'.local = bg.local /\ bg'.pc \in {"idle", "tape"}
        /\ (bg'.pc = "idle") <=> (bg.local = <<>>)
    <3>1. CASE bg.local = <<>>
      BY <1>2, <1>13, <2>3, <3>1
    <3>2. CASE bg.local # <<>>
      BY <1>2, <1>13, <3>2 DEF BgRecord
    <3>3. QED
      BY <3>1, <3>2
  <2>5. CountersOk(Pair, op')
    BY <1>3, <2>2 DEF CountersOk, Live
  <2>6. Threads'
    BY <2>2, <2>4 DEF Threads
  <2>7. Failing'
    BY <1>2, <2>1, <2>2, <2>3, <2>4 DEF Failing
  <2>8. Telling'
    BY <1>1, <1>2, <1>13, <2>1, <2>2, <2>3 DEF Telling, Told
  <2>9. lost' \in LostStates /\ Accounted(Pair, bg', wr)
    BY <1>2, <1>13, <2>4 DEF Accounted
  <2>10. QED
    BY <1>1, <1>2, <2>1, <2>2, <2>4, <2>5, <2>6, <2>7, <2>8, <2>9, ComposeLaw
<1>14. QED
  BY <1>5, <1>8, <1>11, <1>12, <1>13 DEF DataEnd, told, tell

(* The writer thread at the tape. *)
LEMMA TapeStepInv ==
  ASSUME Inv, NEW res \in Errors, TapeStep(res)
  PROVE  Inv'
<1>1. bg.pc = "tape" /\ UNCHANGED <<dpr, wr, op, writes, site>>
  BY DEF TapeStep
<1>2. /\ Sound(Pair) /\ CountersOk(Pair, op) /\ Fits(dpr.requests) /\ Pair.d = dpr
      /\ Pair.g = global /\ WriteOk(wr, dpr) /\ Blank(dpr)
      /\ op \in OpRecord /\ bg \in BgRecord /\ tape \in TapeRecord
      /\ lost \in LostStates /\ global.cache \in Int /\ Len(dpr.requests) \in Nat
      /\ Threads /\ Failing /\ Telling /\ (op.pc # "idle" => wr.pc \in {"idle", "wait"})
      /\ Accounted(Pair, bg, wr)
  BY <1>1, WalkFacts
<1>3. /\ bg.local \in Seq(Request) /\ bg.local # <<>> /\ bg.ret \in Errors
      /\ \A k \in DOMAIN bg.local : bg.local[k].state # "IP"
  BY <1>1, <1>2 DEF BgRecord, Threads, Failing
<1>4. op.pc \notin {"data", "index"} /\ dpr.alloc /\ (op.pc = "end" => op.mode = "close")
  BY <1>1, <1>2 DEF Threads, Failing
<1>5. CASE /\ global' = [global EXCEPT !.cache = @ - 1] /\ UNCHANGED <<tape, lost>>
           /\ bg' = (IF Len(bg.local) = 1 THEN IdleBg ELSE [bg EXCEPT !.local = Tail(@)])
  <2> DEFINE S == CacheFree(Pair, 1)
             x == Tail(bg.local)
  <2>1. Sound(S) /\ Same(Pair, S) /\ S.d = dpr /\ S.g.cache = global.cache - 1
    <3>1. 1 \in Int
      OBVIOUS
    <3>2. QED
      BY <1>2, <3>1, CacheFreeLaw
  <2>2. Commit(S)
    <3>1. S.g = [global EXCEPT !.cache = @ - 1]
      BY DEF CacheFree, Pair
    <3>2. QED
      BY <1>1, <1>5, <2>1, <3>1 DEF Commit
  <2> HIDE DEF S
  <2>3. S.g.leaked = global.leaked /\ CountersOk(S, op') /\ dpr' = dpr /\ op' = op
    BY <1>1, <1>2, <2>1 DEF Same, CountersOk, Matched
  <2>4. Len(bg.local) \in Nat /\ Len(bg.local) # 0
    BY <1>3, LenProperties, EmptySeq
  <2>5. /\ x \in Seq(Request) /\ Len(x) = Len(bg.local) - 1
        /\ \A k \in DOMAIN x : x[k].state # "IP"
    BY <1>3, <2>4
  <2> HIDE DEF x
  <2>6. /\ bg' \in BgRecord /\ Len(bg'.local) = Len(bg.local) - 1 /\ Len(bg'.local) \in Int
        /\ \A k \in DOMAIN bg'.local : bg'.local[k].state # "IP"
        /\ bg'.pc \in {"idle", "tape"} /\ (bg'.pc = "idle" <=> bg'.local = <<>>)
    <3>1. CASE Len(bg.local) = 1
      <4>1. bg' = IdleBg
        BY <1>5, <3>1
      <4>2. bg' \in BgRecord /\ bg'.local = <<>> /\ bg'.pc = "idle"
        BY <4>1 DEF IdleBg, BgRecord, Errors, Results
      <4>3. QED
        BY <3>1, <4>2
    <3>2. CASE Len(bg.local) # 1
      <4>1. bg' = [bg EXCEPT !.local = x]
        BY <1>5, <3>2 DEF x
      <4>2. bg' \in BgRecord /\ bg'.local = x /\ bg'.pc = "tape"
        BY <1>1, <1>2, <2>5, <4>1 DEF BgRecord
      <4>3. Len(x) # 0 /\ Len(x) \in Int
        BY <2>4, <2>5, <3>2
      <4>4. x # <<>>
        BY <4>3
      <4>5. QED
        BY <2>5, <4>2, <4>3, <4>4
    <3>3. QED
      BY <3>1, <3>2
  <2>7. Accounted(S, bg', wr)
    <3> DEFINE c == global.cache
               n == Len(dpr.requests)
               k == Len(bg.local)
    <3>1. c \in Int /\ n \in Int /\ k \in Int
      BY <1>2, <2>4
    <3>2. S.g.cache = c - 1 /\ Len(S.d.requests) = n /\ Len(bg'.local) = k - 1
      BY <2>1, <2>6
    <3> HIDE DEF c, n, k
    <3>3. (c - 1) - n - (k - 1) = c - n - k
      BY <3>1
    <3>4. S.g.cache - Len(S.d.requests) - Len(bg'.local) =
            global.cache - Len(dpr.requests) - Len(bg.local)
      BY <3>2, <3>3 DEF c, n, k
    <3>5. QED
      BY <2>1, <2>3, <2>6, <3>4, BlocksLaw
  <2>8. Threads'
    BY <1>2, <1>4, <2>3, <2>6 DEF Threads
  <2>9. Failing'
    <3>1. Pair' = [d |-> dpr, g |-> S.g]
      BY <2>1, <2>2 DEF Pair, Commit
    <3>2. Frees(Pair') = Frees(Pair)
      BY <1>2, <3>1 DEF Frees
    <3>3. QED
      BY <1>1, <1>2, <1>4, <2>3, <2>6, <3>2 DEF Failing
  <2>10. Telling'
    BY <1>1, <1>2, <1>5, <2>3 DEF Telling, Told
  <2>11. tape' \in TapeRecord /\ lost' \in LostStates
    BY <1>2, <1>5
  <2>12. QED
    BY <1>1, <1>2, <2>1, <2>2, <2>3, <2>6, <2>7, <2>8, <2>9, <2>10, <2>11, ComposeLaw
<1>6. CASE /\ res # "ok" /\ tape' = TapeAfter("DP", res) /\ lost' = "pending" /\ UNCHANGED global
           /\ bg' = [bg EXCEPT !.pc = "fail", !.ret = res]
  <2>1. bg' \in BgRecord /\ bg'.pc = "fail" /\ bg'.ret = res /\ bg'.local = bg.local
    BY <1>2, <1>6 DEF BgRecord
  <2>2. tape' \in TapeRecord /\ tape'.space["IP"] = tape.space["IP"]
    <3>1. "DP" \in {"DP", "IP"}
      OBVIOUS
    <3>2. QED
      BY <1>2, <1>6, <3>1, TapeLaw
  <2>3. Commit(Pair) /\ dpr' = dpr /\ op' = op
    BY <1>1, <1>6 DEF Commit, Pair
  <2>4. Threads'
    BY <1>2, <1>3, <1>4, <2>1, <2>3 DEF Threads
  <2>5. Failing'
    BY <1>2, <1>3, <1>6, <2>1, <2>3 DEF Failing
  <2>6. Telling'
    BY <1>1, <1>2, <1>4, <1>6, <2>1, <2>2, <2>3 DEF Telling, Told
  <2>7. lost' \in LostStates /\ Accounted(Pair, bg', wr)
    BY <1>2, <1>6, <2>1 DEF Accounted, LostStates
  <2>8. QED
    BY <1>1, <1>2, <2>1, <2>2, <2>3, <2>4, <2>5, <2>6, <2>7, ComposeLaw
<1>7. QED
  BY <1>5, <1>6 DEF TapeStep

(* The writer thread after an error. *)
LEMMA TapeFailInv ==
  ASSUME Inv, TapeFail
  PROVE  Inv'
<1> DEFINE st == Head(bg.local).state
           size == Len(disk)
           H == HandleWriteError(Pair, bg.ret, st, tape, size)
           S == IF dpr.alloc THEN H ELSE Pair
           n == Len(bg.local)
           T == CacheFree(S, n)
<1>1. /\ bg.pc = "fail" /\ op.pc = "idle" /\ wr.pc \in {"idle", "wait"} /\ Commit(T)
      /\ bg' = IdleBg /\ UNCHANGED <<tape, wr, op, lost, writes, site>>
  BY DEF TapeFail, Unlocked
<1>2. /\ Sound(Pair) /\ CountersOk(Pair, op) /\ Fits(dpr.requests) /\ Pair.d = dpr
      /\ Pair.g = global /\ WriteOk(wr, dpr) /\ Blank(dpr) /\ Cleared(dpr)
      /\ op \in OpRecord /\ bg \in BgRecord /\ tape \in TapeRecord
      /\ lost \in LostStates /\ n \in Nat /\ global.cache \in Int
      /\ Len(dpr.requests) \in Nat
      /\ Threads /\ Failing /\ Telling
  BY WalkFacts
<1>3. st # "IP" /\ bg.ret \in Errors /\ bg.ret # "ok"
  <2>1. bg.local \in Seq(Request) /\ bg.local # <<>> /\ bg.ret \in Errors /\ bg.ret # "ok"
    BY <1>1, <1>2 DEF BgRecord, Threads, Failing
  <2>2. Head(bg.local) = bg.local[1] /\ 1 \in DOMAIN bg.local
    BY <2>1, EmptySeq, LenProperties
  <2>3. QED
    BY <1>2, <2>1, <2>2 DEF Failing
<1>4. Matched(Pair, States) /\ Matched(Pair, {"IP"})
  BY <1>1, <1>2 DEF CountersOk, Live, Matched, States
<1> HIDE DEF st, size
<1>5. /\ Thinned(Pair, H) /\ Matched(H, States) /\ AllIp(H.d.requests)
      /\ H.d.write_error = IF Reports(st, bg.ret) /\ dpr.write_error = "ok" THEN bg.ret
                                                                           ELSE dpr.write_error
  <2>1. Fits(Pair.d.requests)
    BY <1>2
  <2> DEFINE e == bg.ret
  <2>2. e \in Errors
    BY <1>3
  <2> HIDE DEF e
  <2>3. LET X == HandleWriteError(Pair, e, st, tape, size)
        IN  /\ Thinned(Pair, X) /\ Matched(X, States) /\ AllIp(X.d.requests)
            /\ X.d.write_error = IF Reports(st, e) /\ Pair.d.write_error = "ok" THEN e
                                                                       ELSE Pair.d.write_error
    BY <1>2, <1>3, <1>4, <2>1, <2>2, HandleErrorLaw
  <2>4. QED
    BY <1>2, <2>3 DEF e
<1> HIDE DEF H
<1>6. H.d.write_error # "ok"
  BY <1>3, <1>5 DEF Reports
<1>7. /\ Sound(S) /\ Matched(S, States) /\ Fits(S.d.requests) /\ S.g.leaked = global.leaked
      /\ S.d.alloc = dpr.alloc
      /\ S.g.cache - Len(S.d.requests) = global.cache - Len(dpr.requests)
      /\ Cleared(S.d) /\ (dpr.alloc => S.d.write_error # "ok") /\ (~dpr.alloc => S = Pair)
  <2>1. CASE dpr.alloc
    BY <1>2, <1>5, <1>6, <2>1 DEF Thinned, Cleared
  <2>2. CASE ~dpr.alloc
    BY <1>2, <1>4, <2>2
  <2>3. QED
    BY <2>1, <2>2
<1> HIDE DEF S
<1>8. Sound(T) /\ Same(S, T) /\ T.d = S.d /\ T.g.cache = S.g.cache - n
  <2>1. n \in Int
    BY <1>2
  <2> HIDE DEF n
  <2>2. QED
    BY <1>7, <2>1, CacheFreeLaw
<1> HIDE DEF T
<1>9. T.g.leaked = global.leaked /\ dpr' = S.d /\ op' = op
  BY <1>1, <1>7, <1>8 DEF Same, Commit
<1>10. Matched(T, States) /\ Fits(T.d.requests)
  BY <1>7, <1>8 DEF Matched
<1>11. CountersOk(T, op')
  BY <1>1, <1>9, <1>10 DEF CountersOk, Live
<1>12. bg' \in BgRecord /\ bg'.pc = "idle" /\ bg'.local = <<>>
  BY <1>1 DEF IdleBg, BgRecord, Errors, Results
<1>13. Accounted(T, bg', wr)
  <2>1. Len(bg'.local) = 0 /\ Len(bg'.local) \in Int
    BY <1>12
  <2>2. S.g.cache \in Int /\ S.d.requests \in Seq(Request)
    BY <1>7 DEF Sound, IsPair, IsPriv, IsGlobal
  <2>3. Len(S.d.requests) \in Nat
    BY <2>2, LenProperties
  <2> DEFINE c == S.g.cache
             l == Len(S.d.requests)
             c1 == global.cache
             l1 == Len(dpr.requests)
  <2>4. c \in Int /\ l \in Int /\ c1 \in Int /\ l1 \in Int /\ c - l = c1 - l1 /\ n \in Int
    BY <1>2, <1>7, <2>2, <2>3
  <2>5. T.g.cache = c - n /\ Len(T.d.requests) = l
    BY <1>8
  <2> HIDE DEF c, l, c1, l1, n
  <2>6. (c - n) - l - 0 = c1 - l1 - n
    BY <2>4
  <2>7. T.g.cache - Len(T.d.requests) - Len(bg'.local) =
          global.cache - Len(dpr.requests) - Len(bg.local)
    BY <2>1, <2>5, <2>6 DEF c1, l1, n
  <2>8. QED
    BY <1>8, <1>9, <2>1, <2>7, BlocksLaw
<1>14. Threads'
  BY <1>1, <1>9, <1>12 DEF Threads
<1>15. Failing'
  BY <1>1, <1>7, <1>9, <1>12 DEF Failing
<1>16. Telling'
  BY <1>1, <1>2, <1>7, <1>9 DEF Telling, Told
<1>17. Blank(T.d) /\ WriteOk(wr, T.d)
  BY <1>1, <1>2, <1>7, <1>8, QuietLaw DEF Blank
<1>18. QED
  BY <1>1, <1>2, <1>8, <1>9, <1>10, <1>11, <1>12, <1>13, <1>14, <1>15, <1>16, <1>17, ComposeLaw

-----------------------------------------------------------------------------
(* The walk over the index queue, by the writer thread or at unmount.      *)

(* What it can rely on: the writer thread's own list is empty. *)
LEMMA IndexFacts ==
  ASSUME Inv, op.pc = "index"
  PROVE  /\ bg.pc = "idle" /\ bg.local = <<>> /\ op.mode \in {"unmount", "IP"}
         /\ wr.pc \in {"idle", "wait"} /\ op.cur \in Nat /\ op.cur > 0
         /\ op.mode = "unmount" => AllIp(dpr.requests)
         /\ Matched(Pair, {"DP", "PARTIAL"}) /\ dpr.in["IP"] = 0 /\ Passed(dpr.requests, op)
<1>1. /\ CountersOk(Pair, op) /\ Pair.d = dpr /\ op \in OpRecord /\ Threads /\ Failing
      /\ wr.pc \in {"idle", "wait"}
  BY WalkFacts
<1>2. Live(op) = {"DP", "PARTIAL"}
  BY DEF Live
<1>3. Matched(Pair, {"DP", "PARTIAL"}) /\ Passed(dpr.requests, op) /\ op.cur > 0
  BY <1>1, <1>2 DEF CountersOk
<1>4. dpr.in["IP"] = 0
  BY <1>1, <1>2 DEF CountersOk, States
<1>5. QED
  BY <1>1, <1>3, <1>4 DEF Threads, Failing, OpRecord

(* What a step of the walk has to leave behind. *)
LEMMA IndexLaw ==
  ASSUME Inv, op.pc = "index", NEW T, Commit(T), Sound(T), Fits(T.d.requests),
         CountersOk(T, op'), T.g.leaked = global.leaked, T.d.alloc = dpr.alloc,
         T.g.cache - Len(T.d.requests) = global.cache - Len(dpr.requests),
         op' \in OpRecord, op'.pc = "index", op'.mode = op.mode, Blank(T.d), Cleared(T.d),
         op.mode = "unmount" => AllIp(T.d.requests), UNCHANGED <<wr, bg, writes, site>>,
         tape' \in TapeRecord, lost' \in LostStates, Telling'
  PROVE  Inv'
<1>1. /\ bg.pc = "idle" /\ bg.local = <<>> /\ op.mode \in {"unmount", "IP"}
      /\ wr.pc \in {"idle", "wait"}
  BY IndexFacts
<1>2. /\ WriteOk(wr, dpr) /\ bg \in BgRecord /\ Failing
  BY WalkFacts
<1>3. dpr' = T.d /\ bg' = bg
  BY DEF Commit
<1>4. Threads'
  BY <1>1, <1>3 DEF Threads
<1>5. Failing'
  BY <1>1, <1>2, <1>3 DEF Failing
<1>6. WriteOk(wr, T.d) /\ bg' \in BgRecord
  BY <1>1, <1>2, <1>3, QuietLaw
<1>7. Accounted(T, bg', wr)
  <2>1. Len(bg'.local) = 0 /\ Len(bg.local) = 0 /\ Len(bg'.local) \in Int
    BY <1>1, <1>3
  <2>2. T.d.requests \in Seq(Request) /\ T.g.cache \in Int
    BY DEF Sound, IsPair, IsPriv, IsGlobal
  <2>3. Len(T.d.requests) \in Nat
    BY <2>2, LenProperties
  <2>4. Len(dpr.requests) \in Nat /\ global.cache \in Int
    BY WalkFacts
  <2>5. T.g.cache - Len(T.d.requests) - Len(bg'.local) =
          global.cache - Len(dpr.requests) - Len(bg.local)
    BY <2>1, <2>2, <2>3, <2>4
  <2>6. QED
    BY <2>1, <2>5, BlocksLaw
<1>8. QED
  BY <1>1, <1>4, <1>5, <1>6, <1>7, ComposeLaw

(* A request that stays where it is. *)
LEMMA IndexSkipInv ==
  ASSUME Inv, op.pc = "index", op.cur <= Len(dpr.requests),
         dpr.requests[op.cur].state # "IP", op' = [op EXCEPT !.cur = @ + 1],
         UNCHANGED <<dpr, global, tape, lost, wr, bg, writes, site>>
  PROVE  Inv'
<1>1. /\ op.cur \in Nat /\ op.cur > 0 /\ Matched(Pair, {"DP", "PARTIAL"}) /\ dpr.in["IP"] = 0
      /\ Passed(dpr.requests, op) /\ (op.mode = "unmount" => AllIp(dpr.requests))
  BY IndexFacts
<1>2. /\ Sound(Pair) /\ Fits(dpr.requests) /\ Pair.d = dpr /\ Pair.g = global /\ Blank(dpr)
      /\ Cleared(dpr) /\ op \in OpRecord /\ tape \in TapeRecord /\ Telling
      /\ lost \in LostStates /\ CountersOk(Pair, op)
      /\ DOMAIN dpr.requests = 1 .. Len(dpr.requests) /\ Len(dpr.requests) \in Nat
  BY WalkFacts
<1>3. op' \in OpRecord /\ op'.pc = "index" /\ op'.mode = op.mode /\ op'.cur = op.cur + 1
  BY <1>1, <1>2 DEF OpRecord
<1>4. Passed(dpr.requests, op')
  <2> SUFFICES ASSUME NEW k \in DOMAIN dpr.requests, k < op'.cur
               PROVE  dpr.requests[k].state # "IP"
    BY <1>3 DEF Passed
  <2>1. k \in Nat /\ (k < op.cur \/ k = op.cur)
    BY <1>1, <1>2, <1>3
  <2>2. CASE k < op.cur
    BY <1>1, <2>2 DEF Passed
  <2>3. CASE k = op.cur
    BY <2>3
  <2>4. QED
    BY <2>1, <2>2, <2>3
<1>5. op'.cur > 0
  BY <1>1, <1>3
<1>6. CountersOk(Pair, op')
  <2>1. Live(op') = Live(op)
    BY <1>3 DEF Live
  <2>2. QED
    BY <1>2, <1>4, <1>5, <2>1 DEF CountersOk
<1>7. Commit(Pair)
  BY DEF Commit, Pair
<1>8. Telling'
  BY <1>2, <1>3 DEF Telling, Told
<1>9. QED
  BY <1>1, <1>2, <1>3, <1>6, <1>7, <1>8, IndexLaw

(* A request that was written to the index partition leaves the list, and  *)
(* its block becomes free.                                                 *)
LEMMA IndexDoneLaw ==
  ASSUME Inv, op.pc = "index", op.cur \in DOMAIN dpr.requests,
         dpr.requests[op.cur].state = "IP", NEW new
  PROVE  LET T == UpdateAlt(CacheFree(RemoveRequest(Pair, op.cur), 1), new)
         IN  /\ Sound(T) /\ Same(Pair, T) /\ Fits(T.d.requests) /\ CountersOk(T, op)
             /\ T.g.cache - Len(T.d.requests) = global.cache - Len(dpr.requests)
             /\ AllIp(dpr.requests) => AllIp(T.d.requests)
<1> DEFINE i == op.cur
           q == dpr.requests
           R == RemoveRequest(Pair, i)
           F == CacheFree(R, 1)
           T == UpdateAlt(F, new)
<1>1. /\ i \in Nat /\ i > 0 /\ Matched(Pair, {"DP", "PARTIAL"}) /\ dpr.in["IP"] = 0
      /\ Passed(q, op)
  BY IndexFacts
<1>2. /\ Sound(Pair) /\ CountersOk(Pair, op) /\ Fits(q) /\ Pair.d = dpr /\ Pair.g = global
      /\ q \in Seq(Request) /\ DOMAIN q = 1 .. Len(q) /\ Len(q) \in Nat /\ global.cache \in Int
  BY WalkFacts
<1>3. /\ Removed(Pair, i, R) /\ R.d.in = dpr.in
      /\ \A st : Count(q, st) = Count(R.d.requests, st) + Is(q[i].state, st)
  <2>1. i \in DOMAIN Pair.d.requests /\ Fits(Pair.d.requests)
    BY <1>2
  <2> HIDE DEF i
  <2>2. QED
    BY <1>2, <2>1, RemoveLaw
<1> HIDE DEF R
<1>4. /\ Sound(R) /\ Same(Pair, R) /\ Fits(R.d.requests) /\ R.g.cache = global.cache
      /\ Len(R.d.requests) = Len(q) - 1 /\ DOMAIN R.d.requests = 1 .. Len(q) - 1
      /\ \A k \in 1 .. i - 1 : R.d.requests[k] = q[k]
      /\ \A k \in i .. Len(q) - 1 : R.d.requests[k] = q[k + 1]
  BY <1>2, <1>3 DEF Removed
<1>5. Sound(F) /\ Same(R, F) /\ F.d = R.d /\ F.g.cache = R.g.cache - 1
  <2>1. 1 \in Int
    OBVIOUS
  <2>2. QED
    BY <1>4, <2>1, CacheFreeLaw
<1> HIDE DEF F
<1>6. Plain(F, T)
  BY <1>5, AltListLaw
<1> HIDE DEF T
<1>7. /\ Sound(T) /\ T.d.requests = R.d.requests /\ T.d.in = dpr.in
      /\ T.g.cache = global.cache - 1 /\ Same(Pair, T)
  BY <1>3, <1>4, <1>5, <1>6 DEF Plain, Same
<1>8. Matched(T, {"DP", "PARTIAL"})
  <2> SUFFICES ASSUME NEW st \in {"DP", "PARTIAL"} PROVE T.d.in[st] = Count(T.d.requests, st)
    BY DEF Matched
  <2>1. dpr.in[st] = Count(q, st)
    BY <1>1, <1>2 DEF Matched
  <2>2. Is(q[i].state, st) = 0
    BY DEF Is
  <2>3. R.d.requests \in Seq(Request)
    BY <1>4 DEF Sound, IsPair, IsPriv
  <2>4. Count(R.d.requests, st) \in Nat
    BY <2>3, InStateFinite
  <2>5. Count(q, st) = Count(R.d.requests, st) + 0
    BY <1>3, <2>2
  <2>6. QED
    BY <1>7, <2>1, <2>4, <2>5
<1>9. CountersOk(T, op)
  <2>1. Live(op) = {"DP", "PARTIAL"}
    BY DEF Live
  <2>2. \A st \in States : st \notin Live(op) => T.d.in[st] = 0
    BY <1>1, <1>7, <2>1 DEF States
  <2>3. Passed(T.d.requests, op)
    <3>1. \A k \in DOMAIN R.d.requests : k < i => k \in DOMAIN q /\ R.d.requests[k] = q[k]
      BY <1>1, <1>2, <1>4
    <3>2. Passed(R.d.requests, op)
      BY <1>1, <3>1 DEF Passed
    <3>3. QED
      BY <1>7, <3>2
  <2>4. QED
    BY <1>1, <1>8, <2>1, <2>2, <2>3 DEF CountersOk
<1>10. T.g.cache - Len(T.d.requests) = global.cache - Len(q)
  BY <1>2, <1>4, <1>7, SMTT(30)
<1>11. ASSUME AllIp(q) PROVE AllIp(R.d.requests)
  <2>1. ASSUME NEW k \in DOMAIN R.d.requests PROVE R.d.requests[k].state = "IP"
    <3>1. CASE k < i
      <4>1. k \in DOMAIN q /\ R.d.requests[k] = q[k]
        BY <1>1, <1>2, <1>4, <3>1, SMTT(30)
      <4>2. QED
        BY <1>11, <4>1 DEF AllIp
    <3>2. CASE k >= i
      <4>1. k + 1 \in DOMAIN q /\ R.d.requests[k] = q[k + 1]
        BY <1>1, <1>2, <1>4, <3>2
      <4>2. QED
        BY <1>11, <4>1 DEF AllIp
    <3>3. QED
      BY <1>1, <1>4, <3>1, <3>2
  <2>2. QED
    BY <2>1 DEF AllIp
<1>12. QED
  BY <1>4, <1>7, <1>9, <1>10, <1>11 DEF T, F, R

(* After an error on the index partition.  An error of the data partition   *)
(* that is on record stays there.                                           *)
LEMMA IndexErrorInv ==
  ASSUME Inv, op.pc = "index", op.cur \in DOMAIN dpr.requests, NEW res \in Errors, res # "ok",
         res \in Outcomes("IP", IpResults), NEW e \in Errors, res # "perm" => e = res,
         NEW H, H = HandleWriteError(Pair, e, "IP", TapeAfter("IP", res), Len(disk)),
         Commit(H), tape' = TapeAfter("IP", res),
         lost' = IF DropsData(Pair, H) /\ lost # "pending" THEN "index" ELSE lost,
         op' = [op EXCEPT !.cur = Len(H.d.requests) + 1], UNCHANGED <<wr, bg, writes, site>>
  PROVE  Inv'
<1> DEFINE q == dpr.requests
           h == H.d.requests
           t == TapeAfter("IP", res)
           size == Len(disk)
<1>1. /\ bg.pc = "idle" /\ op.mode \in {"unmount", "IP"} /\ op.cur \in Nat
      /\ (op.mode = "unmount" => AllIp(q)) /\ Matched(Pair, {"DP", "PARTIAL"})
  BY IndexFacts
<1>2. /\ Sound(Pair) /\ Fits(q) /\ Pair.d = dpr /\ Pair.g = global /\ Blank(dpr)
      /\ Cleared(dpr) /\ op \in OpRecord /\ tape \in TapeRecord /\ Telling
      /\ lost \in LostStates /\ q \in Seq(Request)
  BY WalkFacts
<1>3. /\ Thinned(Pair, H) /\ Matched(H, States)
      /\ H.d.write_error = (IF Reports("IP", e) /\ dpr.write_error = "ok" THEN e
                                                                 ELSE dpr.write_error)
      /\ \A k \in DOMAIN h : h[k].state # "IP"
      /\ ~NoSpace(e) => Len(h) = 0
  <2>1. Fits(Pair.d.requests) /\ "IP" = "IP" /\ H = HandleWriteError(Pair, e, "IP", t, size)
    BY <1>2
  <2> DEFINE st == "IP"
  <2>2. /\ (st # "IP" => Matched(Pair, {"IP"})) /\ (st = "IP" => Matched(Pair, {"DP", "PARTIAL"}))
        /\ H = HandleWriteError(Pair, e, st, t, size) /\ st = "IP"
    BY <1>1, <2>1
  <2> HIDE DEF st, t, size
  <2>3. LET X == HandleWriteError(Pair, e, st, t, size)
        IN  /\ Thinned(Pair, X) /\ Matched(X, States)
            /\ X.d.write_error = IF Reports(st, e) /\ Pair.d.write_error = "ok" THEN e
                                                                       ELSE Pair.d.write_error
            /\ st = "IP" => \A k \in DOMAIN X.d.requests : X.d.requests[k].state # "IP"
            /\ ~NoSpace(e) => Len(X.d.requests) = 0
    BY <1>2, <2>1, <2>2, HandleErrorLaw
  <2>4. QED
    BY <1>2, <2>2, <2>3
<1>4. /\ Sound(H) /\ Fits(h) /\ H.g.leaked = global.leaked /\ H.d.alloc = dpr.alloc
      /\ H.g.cache - Len(h) = global.cache - Len(q)
      /\ \A k \in DOMAIN h : \E j \in DOMAIN q : h[k].state = q[j].state
  BY <1>2, <1>3 DEF Thinned
<1>5. h \in Seq(Request) /\ Len(h) \in Nat /\ dpr' = H.d
  <2>1. h \in Seq(Request)
    BY <1>4 DEF Sound, IsPair, IsPriv
  <2>2. QED
    BY <2>1, LenProperties DEF Commit
<1>6. dpr.alloc
  BY <1>2 DEF Blank
<1>7. AllIp(q) => AllIp(h)
  BY <1>4 DEF AllIp
<1>8. Cleared(H.d)
  <2>1. CASE NoSpace(e)
    <3>1. H.d.write_error = dpr.write_error
      BY <1>3, <2>1 DEF Reports
    <3>2. QED
      BY <1>2, <1>7, <3>1 DEF Cleared
  <2>2. CASE ~NoSpace(e)
    <3>1. h = <<>>
      BY <1>3, <1>5, <2>2, EmptySeq
    <3>2. AllIp(h)
      BY <3>1 DEF AllIp
    <3>3. QED
      BY <3>2 DEF Cleared
  <2>3. QED
    BY <2>1, <2>2
<1>9. op' \in OpRecord /\ op'.pc = "index" /\ op'.mode = op.mode /\ op'.cur = Len(h) + 1
  BY <1>1, <1>2, <1>5 DEF OpRecord
<1>10. CountersOk(H, op')
  <2>1. Live(op') = {"DP", "PARTIAL"}
    BY <1>9 DEF Live
  <2>2. Matched(H, Live(op'))
    BY <1>3, <2>1 DEF Matched, States
  <2>3. Count(h, "IP") = 0
    BY <1>3, <1>5, CountZero
  <2>4. H.d.in["IP"] = 0
    BY <1>3, <2>3 DEF Matched, States
  <2>5. \A st \in States : st \notin Live(op') => H.d.in[st] = 0
    BY <2>1, <2>4 DEF States
  <2>6. Passed(h, op') /\ op'.cur > 0
    BY <1>3, <1>5, <1>9 DEF Passed
  <2>7. QED
    BY <2>2, <2>5, <2>6 DEF CountersOk
<1>11. tape' \in TapeRecord
  <2>1. "IP" \in {"DP", "IP"}
    OBVIOUS
  <2>2. QED
    BY <1>2, <2>1, TapeLaw
<1>12. Telling'
  <2>1. /\ Told(dpr) /\ (op.mode = "unmount" => lost # "pending")
        /\ lost' = "pending" => lost = "pending"
    BY <1>2 DEF Telling
  <2>2. lost' = "pending" => dpr.alloc /\ H.d.write_error # "ok"
    BY <1>1, <1>3, <1>6, <2>1 DEF Told
  <2>3. QED
    BY <1>4, <1>5, <1>9, <2>1, <2>2 DEF Telling, Told
<1>13. Blank(H.d) /\ lost' \in LostStates
  BY <1>2, <1>4, <1>6 DEF Blank, LostStates
<1>14. QED
  BY <1>4, <1>7, <1>1, <1>8, <1>9, <1>10, <1>11, <1>12, <1>13, IndexLaw

(* One request of the walk over the index queue. *)
LEMMA IndexStepInv ==
  ASSUME Inv, NEW res \in Errors, IndexStep(res)
  PROVE  Inv'
<1> DEFINE r == dpr.requests[op.cur]
           new == [block |-> Len(ipTape) + 1, byteoffset |-> 0,
                   bytecount |-> Len(r.data), fileoffset |-> r.offset]
           e == IF res = "perm" THEN "ok" ELSE res
           H == HandleWriteError(Pair, e, "IP", TapeAfter("IP", res), Len(disk))
           T == UpdateAlt(CacheFree(RemoveRequest(Pair, op.cur), 1), new)
<1>1. op.pc = "index" /\ op.cur <= Len(dpr.requests) /\ UNCHANGED <<wr, bg, writes, site>>
  BY DEF IndexStep
<1>2. op.cur \in DOMAIN dpr.requests
  <2>1. op.cur \in Nat /\ op.cur > 0
    BY <1>1, IndexFacts
  <2>2. DOMAIN dpr.requests = 1 .. Len(dpr.requests) /\ Len(dpr.requests) \in Nat
    BY WalkFacts
  <2>3. QED
    BY <1>1, <2>1, <2>2
<1>3. CASE /\ r.state # "IP" /\ op' = [op EXCEPT !.cur = @ + 1]
           /\ UNCHANGED <<dpr, global, tape, lost>>
  BY <1>1, <1>3, IndexSkipInv
<1>4. CASE r.state = "IP" /\ Commit(T) /\ UNCHANGED <<op, tape, lost>>
  <2>1. /\ Sound(T) /\ Same(Pair, T) /\ Fits(T.d.requests) /\ CountersOk(T, op)
        /\ T.g.cache - Len(T.d.requests) = global.cache - Len(dpr.requests)
        /\ AllIp(dpr.requests) => AllIp(T.d.requests)
    <3> HIDE DEF new
    <3>1. QED
      BY <1>1, <1>2, <1>4, IndexDoneLaw
  <2>2. Commit(T) /\ op' = op /\ tape' = tape /\ lost' = lost
    BY <1>4
  <2> HIDE DEF T, new
  <2>3. /\ Pair.d = dpr /\ Pair.g = global /\ Blank(dpr) /\ Cleared(dpr) /\ op \in OpRecord
        /\ tape \in TapeRecord /\ Telling /\ lost \in LostStates
    BY WalkFacts
  <2>4. /\ T.d.alloc = dpr.alloc /\ T.d.write_error = dpr.write_error
        /\ T.g.leaked = global.leaked
    BY <2>1, <2>3 DEF Same
  <2>5. dpr.alloc /\ Blank(T.d) /\ Cleared(T.d)
    BY <1>2, <2>1, <2>3, <2>4 DEF Blank, Cleared
  <2>6. dpr' = T.d
    BY <2>2 DEF Commit
  <2>7. Telling'
    BY <1>1, <2>2, <2>3, <2>4, <2>6 DEF Telling, Told
  <2>8. op.mode = "unmount" => AllIp(T.d.requests)
    BY <1>1, <2>1, IndexFacts
  <2>9. op' \in OpRecord /\ op'.pc = "index" /\ op'.mode = op.mode /\ CountersOk(T, op')
    BY <1>1, <2>1, <2>2, <2>3
  <2>10. QED
    BY <1>1, <2>1, <2>2, <2>3, <2>4, <2>5, <2>7, <2>8, <2>9, IndexLaw
<1>5. CASE /\ res # "ok" /\ res \in Outcomes("IP", IpResults) /\ Commit(H)
           /\ tape' = TapeAfter("IP", res)
           /\ lost' = (IF DropsData(Pair, H) /\ lost # "pending" THEN "index" ELSE lost)
           /\ op' = [op EXCEPT !.cur = Len(H.d.requests) + 1]
  <2>1. e \in Errors /\ (res # "perm" => e = res)
    BY DEF Errors, Results
  <2> HIDE DEF e
  <2>2. H = HandleWriteError(Pair, e, "IP", TapeAfter("IP", res), Len(disk))
    OBVIOUS
  <2> HIDE DEF H
  <2>3. QED
    BY <1>1, <1>2, <1>5, <2>1, <2>2, IndexErrorInv
<1>6. QED
  BY <1>3, <1>4, <1>5 DEF IndexStep

(* The end of the writer thread's walk over the index queue.  A dentry_priv *)
(* without requests and extents of a file that is closed goes.              *)
LEMMA IndexEndInv ==
  ASSUME Inv, IndexEnd
  PROVE  Inv'
<1> DEFINE T == IF handle THEN Pair ELSE Freed(Pair)
<1>1. /\ op.pc = "index" /\ op.mode = "IP" /\ op.cur > Len(dpr.requests) /\ Commit(T)
      /\ lost' = (IF handle THEN lost ELSE LostAfter(Pair, lost)) /\ op' = IdleOp
      /\ UNCHANGED <<tape, wr, bg, writes, site>>
  BY DEF IndexEnd
<1>2. /\ Sound(Pair) /\ Fits(dpr.requests) /\ Pair.d = dpr /\ Pair.g = global /\ Blank(dpr)
      /\ Cleared(dpr) /\ bg \in BgRecord /\ tape \in TapeRecord /\ Failing /\ Telling
      /\ lost \in LostStates /\ WriteOk(wr, dpr) /\ Accounted(Pair, bg, wr)
  BY WalkFacts
<1>3. bg.pc = "idle" /\ bg.local = <<>> /\ wr.pc \in {"idle", "wait"}
  BY <1>1, IndexFacts
<1>4. Matched(Pair, States)
  BY <1>1, WalkEndLaw
<1>5. /\ Sound(T) /\ Matched(T, States) /\ T.d.requests = dpr.requests /\ T.g = global
      /\ Blank(T.d) /\ Cleared(T.d)
      /\ (lost' = "pending" => lost = "pending" /\ T.d = dpr)
  <2>1. CASE handle \/ ~Frees(Pair)
    <3>1. T = Pair
      BY <2>1 DEF Freed
    <3>2. lost' = lost
      BY <1>1, <2>1 DEF LostAfter
    <3>3. QED
      BY <1>2, <1>4, <3>1, <3>2
  <2>2. CASE ~handle /\ Frees(Pair)
    <3>1. T = Freed(Pair)
      BY <2>2
    <3>2. /\ Sound(Freed(Pair)) /\ Matched(Freed(Pair), States)
          /\ Freed(Pair).d.requests = Pair.d.requests /\ Freed(Pair).g = Pair.g
          /\ Freed(Pair).d = NoPriv
      BY <1>2, <1>4, <2>2, FreedLaw
    <3>3. lost' # "pending"
      BY <1>1, <2>2 DEF LostAfter
    <3> HIDE DEF T
    <3>4. T.d = NoPriv
      BY <3>1, <3>2
    <3>5. Blank(T.d) /\ Cleared(T.d)
      BY <3>4, NoPrivLaw DEF Blank, Cleared
    <3>6. QED
      BY <1>2, <3>1, <3>2, <3>3, <3>5
  <2>3. QED
    BY <2>1, <2>2
<1> HIDE DEF T
<1>6. lost' \in LostStates
  BY <1>1, <1>2 DEF LostAfter, LostStates
<1>7. op' \in OpRecord /\ op'.pc = "idle" /\ op'.mode = "none"
  BY <1>1 DEF IdleOp, OpRecord
<1>8. dpr' = T.d /\ bg' = bg
  BY <1>1 DEF Commit
<1>9. CountersOk(T, op')
  BY <1>5, <1>7 DEF CountersOk, Live
<1>10. Threads'
  BY <1>3, <1>7, <1>8 DEF Threads
<1>11. Failing'
  BY <1>2, <1>3, <1>5, <1>7, <1>8 DEF Failing
<1>12. Telling'
  BY <1>1, <1>2, <1>5, <1>7, <1>8 DEF Telling, Told
<1>13. WriteOk(wr, T.d) /\ Fits(T.d.requests) /\ Accounted(T, bg', wr)
  BY <1>2, <1>3, <1>5, <1>8, QuietLaw DEF Accounted
<1>14. QED
  BY <1>1, <1>2, <1>3, <1>5, <1>6, <1>7, <1>8, <1>9, <1>10, <1>11, <1>12, <1>13, ComposeLaw

(* unified_destroy leaves the scheduler as it was at the mount. *)
LEMMA UnmountInv ==
  ASSUME Inv, Unmount
  PROVE  Inv'
<1> DEFINE T == [d |-> NoPriv, g |-> NoGlobal]
<1>1. /\ op.pc = "index" /\ op.mode = "unmount" /\ Commit(T) /\ op' = IdleOp
      /\ UNCHANGED <<tape, wr, bg, lost, writes, site>>
  BY DEF Unmount
<1>2. /\ bg \in BgRecord /\ tape \in TapeRecord /\ Failing /\ Telling
      /\ lost \in LostStates /\ WriteOk(wr, dpr)
  BY WalkFacts
<1>3. bg.pc = "idle" /\ bg.local = <<>> /\ wr.pc \in {"idle", "wait"}
  BY <1>1, IndexFacts
<1>4. /\ IsGlobal(NoGlobal) /\ NoGlobal.cache = 0 /\ NoGlobal.leaked = 0
      /\ NoGlobal.dp_request_count = 0
  BY DEF NoGlobal, IsGlobal, GlobalFields
<1>5. T.d = NoPriv /\ T.g = NoGlobal /\ DOMAIN T = {"d", "g"}
  OBVIOUS
<1> HIDE DEF T
<1>6. /\ T.d.requests = <<>> /\ T.d.alloc = FALSE /\ T.d.write_ip = FALSE
      /\ T.d.write_error = "ok" /\ \A st \in States : T.d.in[st] = 0
  BY <1>5, NoPrivLaw
<1>7. Sound(T)
  BY <1>4, <1>5, <1>6, NoPrivLaw DEF Sound, IsPair, Balanced, States
<1>8. Matched(T, States)
  BY <1>6, CountEmpty DEF Matched
<1>9. op' \in OpRecord /\ op'.pc = "idle" /\ op'.mode = "none"
  BY <1>1 DEF IdleOp, OpRecord
<1>10. dpr' = T.d /\ bg' = bg
  BY <1>1 DEF Commit
<1>11. CountersOk(T, op')
  BY <1>8, <1>9 DEF CountersOk, Live
<1>12. Threads'
  BY <1>3, <1>9, <1>10 DEF Threads
<1>13. Failing'
  BY <1>2, <1>3, <1>6, <1>9, <1>10 DEF Failing, Cleared
<1>14. Telling'
  BY <1>1, <1>2, <1>9 DEF Telling, Told
<1>15. WriteOk(wr, T.d) /\ Blank(T.d) /\ Fits(T.d.requests)
  BY <1>2, <1>3, <1>6, QuietLaw DEF Blank, Fits
<1>16. Accounted(T, bg', wr)
  <2>1. Spare(wr) = 0
    BY <1>2, <1>3, QuietLaw
  <2>2. Len(T.d.requests) = 0 /\ Len(bg'.local) = 0
    BY <1>3, <1>6, <1>10
  <2>3. QED
    BY <1>4, <1>5, <2>1, <2>2 DEF Accounted
<1>17. QED
  BY <1>1, <1>2, <1>7, <1>9, <1>10, <1>11, <1>12, <1>13, <1>14, <1>15, <1>16, ComposeLaw

-----------------------------------------------------------------------------
(* The inductive invariant.                                                *)

(* A step of a write that holds the iosched_lock, or that gets it back. *)
LEMMA WriteStepInv ==
  ASSUME Inv, WriteStep
  PROVE  Inv'
<1>1. CASE RetryWrite
  BY <1>1, RetryInv
<1>2. CASE WriteAppend
  BY <1>2, AppendInv
<1>3. CASE WriteScan
  BY <1>3, ScanInv
<1>4. CASE WriteBefore
  BY <1>4, BeforeInv
<1>5. CASE WriteOverlap
  BY <1>5, OverlapInv
<1>6. CASE WriteOut
  BY <1>6, OutInv
<1>7. QED
  BY <1>1, <1>2, <1>3, <1>4, <1>5, <1>6 DEF WriteStep

(* A step of a walk through the requests. *)
LEMMA OpStepInv ==
  ASSUME Inv, OpStep
  PROVE  Inv'
<1>1. CASE \E res \in Results \cup {"werr"} : DataStep(res) \/ IndexStep(res)
  <2>1. PICK res \in Errors : DataStep(res) \/ IndexStep(res)
    BY <1>1 DEF Errors
  <2>2. CASE DataStep(res)
    BY <2>2, DataStepInv
  <2>3. CASE IndexStep(res)
    BY <2>3, IndexStepInv
  <2>4. QED
    BY <2>1, <2>2, <2>3
<1>2. CASE DataEnd
  BY <1>2, DataEndInv
<1>3. CASE IndexEnd
  BY <1>3, IndexEndInv
<1>4. CASE Unmount
  BY <1>4, UnmountInv
<1>5. QED
  BY <1>1, <1>2, <1>3, <1>4 DEF OpStep

(* A step of the writer thread at the tape. *)
LEMMA WriterStepInv ==
  ASSUME Inv, WriterStep
  PROVE  Inv'
<1>1. CASE TapeFail
  BY <1>1, TapeFailInv
<1>2. CASE \E res \in Results \cup {"werr"} : TapeStep(res)
  <2>1. PICK res \in Errors : TapeStep(res)
    BY <1>2 DEF Errors
  <2>2. QED
    BY <2>1, TapeStepInv
<1>3. QED
  BY <1>1, <1>2 DEF WriterStep

(* Every step keeps the invariant. *)
LEMMA NextInv ==
  ASSUME Inv, [Next]_vars
  PROVE  Inv'
<1>1. CASE \E m \in BOOLEAN : Open(m) \/ UpdatePlacement(m)
  <2>1. PICK m \in BOOLEAN : Open(m) \/ UpdatePlacement(m)
    BY <1>1
  <2>2. CASE Open(m)
    BY <2>2, OpenInv
  <2>3. CASE UpdatePlacement(m)
    BY <2>3, PlacementInv
  <2>4. QED
    BY <2>1, <2>2, <2>3
<1>2. CASE \E off \in 0 .. MaxFile, size \in 1 .. MaxWrite : BeginWrite(off, size)
  BY <1>2, BeginInv
<1>3. CASE GetCacheBlock
  BY <1>3, CacheBlockInv
<1>4. CASE WriteStep
  BY <1>4, WriteStepInv
<1>5. CASE \E mode \in {"close", "flush", "unmount", "DP", "PARTIAL"} : BeginData(mode)
  BY <1>5, BeginDataInv
<1>6. CASE BeginIndex
  BY <1>6, BeginIndexInv
<1>7. CASE OpStep
  BY <1>7, OpStepInv
<1>8. CASE WriterStep
  BY <1>8, WriterStepInv
<1>9. CASE \E len \in 0 .. MaxFile : Truncate(len)
  BY <1>9, TruncateInv
<1>10. CASE UNCHANGED vars
  <2>1. UNCHANGED <<dpr, global, tape, wr, op, bg, lost, writes, site>>
    BY <1>10 DEF vars
  <2>2. Pair' = Pair /\ CacheSize' = CacheSize /\ IpResults' = IpResults
    BY <2>1 DEF Pair, CacheSize, IpResults
  <2>3. Types' /\ Writing' /\ Threads'
    BY <2>1 DEF Inv, Types, Writing, Threads
  <2>4. Counting' /\ Cache'
    BY <2>1, <2>2 DEF Inv, Counting, Balanced, Cache, Fits
  <2>5. Failing' /\ Telling'
    BY <2>1, <2>2 DEF Inv, Failing, Telling, Told
  <2>6. QED
    BY <2>3, <2>4, <2>5 DEF Inv
<1>11. QED
  BY <1>1, <1>2, <1>3, <1>4, <1>5, <1>6, <1>7, <1>8, <1>9, <1>10 DEF Next

(* The bookkeeping of the scheduler, as each handler finds and leaves it:   *)
(* the list and its counters, the walks in progress, the blocks in use, and *)
(* what is on record about a loss.                                          *)
THEOREM BookkeepingHolds == Spec => []Inv
<1>1. Init => Inv
  BY InitLaw
<1>2. Inv /\ [Next]_vars => Inv'
  BY NextInv
<1>3. QED
  BY <1>1, <1>2, PTL DEF Spec

-----------------------------------------------------------------------------
(* What follows from it.                                                   *)

(* Whenever the iosched_lock is free, in_working_set, in_dp_queue,          *)
(* in_ip_queue and the global dp_request_count are the numbers of requests  *)
(* in the list: no path through a write, a merge, a flush, a truncation, a  *)
(* change of placement or an error of any kind misses or repeats a call of  *)
(* _unified_update_queue_membership.                                        *)
THEOREM CountersHold == Spec => []QueueCountsMatch
<1>1. ASSUME Inv, Unlocked
      PROVE  /\ \A q \in States : dpr.in[q] = Cardinality(InState(dpr.requests, q))
             /\ global.dp_request_count = IF dpr.write_ip THEN 0 ELSE dpr.in["DP"]
  <2>1. op.pc = "idle"
    BY <1>1 DEF Unlocked
  <2>2. Sound(Pair) /\ Matched(Pair, States) /\ Pair.d = dpr /\ Pair.g = global
    BY <1>1, <2>1, IdleFacts
  <2>3. QED
    BY <2>2 DEF Sound, Balanced, Matched, Count
<1>2. Inv => QueueCountsMatch
  BY <1>1 DEF QueueCountsMatch
<1>3. QED
  BY <1>2, BookkeepingHolds, PTL

(* Whenever the iosched_lock is free, every cache block in use belongs to a *)
(* request, to the writer thread's list or to a writer that waited for it,  *)
(* but for the blocks forgotten by writes that found an error when they     *)
(* started over; and every request has at least one byte and at most a      *)
(* block.                                                                   *)
THEOREM BlocksHold == Spec => []CacheAccounted
<1>1. ASSUME Inv, Unlocked
      PROVE  /\ \A k \in DOMAIN dpr.requests : Len(dpr.requests[k].data) \in 1 .. CacheSize
             /\ global.cache = Len(dpr.requests) + Len(bg.local) + (IF wr.spare THEN 1 ELSE 0)
                               + global.leaked
  <2>1. Fits(dpr.requests) /\ Accounted(Pair, bg, wr) /\ Pair.d = dpr /\ Pair.g = global
    BY <1>1, WalkFacts
  <2>2. QED
    BY <2>1 DEF Fits, Accounted, Spare
<1>2. Inv => CacheAccounted
  BY <1>1 DEF CacheAccounted
<1>3. QED
  BY <1>2, BookkeepingHolds, PTL

(* Whatever happens to the writes to either partition and to the device: as *)
(* long as no caller was told of an error of the data partition that        *)
(* dropped bytes, the error is in write_error or the writer thread is about *)
(* to put it there, unless a close that returned 0 has freed the record     *)
(* (ErrorReported).                                                         *)
THEOREM ErrorsHold == Spec => []ErrorPending
<1>1. Inv => ErrorPending
  BY DEF Inv, Telling, Told, ErrorPending
<1>2. QED
  BY <1>1, BookkeepingHolds, PTL

=============================================================================
