--------------------------- MODULE DentriesProofs ---------------------------
(***************************************************************************)
(* The handle counts of dentries, for any tree, any calls and any finite   *)
(* set of threads: every action keeps the inductive invariant.             *)
(***************************************************************************)
EXTENDS DentryLemmas

\* What the calls that leave open files alone have in common.
Arm(t, rec) ==
    /\ rec \in Call /\ OpInv(rec) /\ LocalInv(rec) /\ rec.op \in {th[t].op, "none"}
    /\ LocksKept(t) /\ LockInv(lock', t, rec) /\ ViewInv(node', rec)
    /\ th' = [th EXCEPT ![t] = rec] /\ open' = open /\ site' = site /\ (forgot => forgot')

(* Such a step, but for the tree. *)
LEMMA ArmTaken ==
    ASSUME Inv, NEW t \in Threads, NEW rec, Arm(t, rec)
    PROVE  Taken(t, rec, open[t])
BY Here DEF Arm, Taken

(* The record of a thread that is not in a call. *)
LEMMA NothingFacts == Nothing \in Call /\ OpInv(Nothing) /\ LocalInv(Nothing)
<1>1. << >> \in Seq(Names)
  OBVIOUS
<1>2. Nothing \in Call
  BY <1>1 DEF Nothing, Call, Positions, Flags
<1>3. OpInv(Nothing) /\ LocalInv(Nothing)
  BY DEF Nothing, OpInv, LocalInv, LookupPc, CreatePc, UnlinkPc, FirstPc, TargetPc, BothPc, RenamePc
<1>4. QED
  BY <1>2, <1>3

(* A thread makes a call; with close, the handle of the open file goes to the call. *)
LEMMA StepBegin ==
    ASSUME Inv, NEW t \in Threads, Begin(t)
    PROVE  Inv'
<1> USE DEF LookupPc, CreatePc, UnlinkPc, FirstPc, TargetPc, BothPc, RenamePc
<1>1. PICK q \in site.requests :
        /\ q.op \in {"close", "readdir"} => open[t] # None
        /\ q.op \in {"open", "create"} => open[t] = None
        /\ Goto(t, [Nothing EXCEPT !.op = q.op, !.req = q, !.pc = IF q.op = "close" THEN "close" ELSE "vol",
                                   !.d = IF q.op \in {"close", "readdir"} THEN open[t] ELSE None])
        /\ open' = IF q.op = "close" THEN [open EXCEPT ![t] = None] ELSE open
  BY DEF Begin
<1> DEFINE rec == [Nothing EXCEPT !.op = q.op, !.req = q, !.pc = IF q.op = "close" THEN "close" ELSE "vol",
                                  !.d = IF q.op \in {"close", "readdir"} THEN open[t] ELSE None]
           o == IF q.op = "close" THEN None ELSE open[t]
<1>2. th[t].pc = "idle" /\ lock' = lock /\ node' = node /\ site' = site /\ forgot' = forgot
  BY DEF Begin
<1>3. th[t] \in Call /\ open \in [Threads -> Dirents \cup {None}] /\ OpInv(th[t]) /\ LocalInv(th[t])
  BY Here
<1>4. q \in Request /\ (q.op = "unlink" => q.path # << >>)
  <2>1. site \in Sites
    BY DEF Inv, TypeOK
  <2>2. QED
    BY <1>1, <2>1, SitesAssumption DEF WellFormed
<1>5. q.op \in Ops
  BY <1>4 DEF Request
<1>6. rec \in Call
  <2> DEFINE label == IF q.op = "close" THEN "close" ELSE "vol"
             dentry == IF q.op \in {"close", "readdir"} THEN open[t] ELSE None
  <2>1. label \in Positions
    BY DEF Positions
  <2>2. dentry \in Dirents \cup {None}
    BY <1>3
  <2> HIDE DEF label, dentry
  <2>3. [Nothing EXCEPT !.op = q.op, !.req = q, !.pc = label, !.d = dentry] \in Call
    BY <1>4, <1>5, <2>1, <2>2, NothingFacts DEF Call
  <2>4. QED
    BY <2>3 DEF label, dentry
<1>7. OpInv(rec) /\ LocalInv(rec)
  BY <1>1, <1>4, <1>5 DEF OpInv, LocalInv, Nothing, Ops
<1>8. LockInv(lock', t, rec) /\ ViewInv(node', rec)
  BY DEF LockInv, ViewInv, Nothing
<1>9. LocksKept(t)
  BY <1>2, Here, LockSteps, KeyFacts
<1>10. Taken(t, rec, o)
  BY <1>1, <1>2, <1>3, <1>6, <1>7, <1>8, <1>9 DEF Taken, Goto, Nothing
<1>11. \A d \in Dirents : Num(Refs(rec, o), d) = Num(Owned(t), d)
  BY <1>1, <1>2, <1>3, <1>5, RootAssumption DEF Num, N, Refs, Owned, Nothing, OpInv, LocalInv, Call, Ops
<1>12. QED
  BY <1>2, <1>10, <1>11, NumSlot, Calm DEF Owned

(* Set changes the position of a call only. *)
LEMMA SetFacts ==
    ASSUME NEW t \in Threads, th[t] \in Call, NEW label \in Positions
    PROVE  LET r == Set(t, label)
           IN  /\ r \in Call /\ r.op = th[t].op /\ r.pc = label /\ r.flag = th[t].flag /\ r.path = th[t].path
               /\ r.par = th[t].par /\ r.d = th[t].d /\ r.fdir = th[t].fdir /\ r.tdir = th[t].tdir
               /\ r.fd = th[t].fd /\ r.td = th[t].td /\ r.req = th[t].req
BY DEF Set, Call

(* Lookup starts a search and leaves the dentries of the call alone. *)
LEMMA LookupFacts ==
    ASSUME NEW s \in Call, NEW p \in Seq(Names), NEW f \in Flags
    PROVE  LET r == Lookup(s, p, f)
           IN  /\ r \in Call /\ r.op = s.op /\ r.pc = "root" /\ r.flag = f /\ r.path = p
               /\ r.par = s.par /\ r.d = s.d /\ r.fdir = s.fdir /\ r.tdir = s.tdir
               /\ r.fd = s.fd /\ r.td = s.td /\ r.req = s.req
<1>1. "root" \in Positions
  BY DEF Positions, LookupPc
<1>2. QED
  BY <1>1 DEF Lookup, Call

(* The names of a path. *)
LEMMA PathFacts ==
    ASSUME NEW s \in Seq(Names), s # << >>
    PROVE  Tail(s) \in Seq(Names) /\ Head(s) \in Names /\ (Tail(s) = << >> => Len(s) = 1)
<1>1. Len(s) \in Nat /\ Len(s) # 0 /\ Head(s) \in Names /\ Tail(s) \in Seq(Names)
  OBVIOUS
<1>2. Len(Tail(s)) = Len(s) - 1
  BY <1>1
<1>3. Len(<< >>) = 0
  OBVIOUS
<1>4. QED
  BY <1>1, <1>2, <1>3

(* A step that leaves the dentries alone. *)
LEMMA CalmStep ==
    ASSUME Inv, NEW t \in Threads, NEW rec, Arm(t, rec), th[t].pc # "link", node' = node,
           \A e \in Dirents : Num(Refs(rec, open[t]), e) = Num(Owned(t), e)
    PROVE  Inv'
<1>1. \A e \in Dirents : Num(Owned(t), e) \in Nat
  BY NumSlot DEF Owned
<1>2. QED
  BY <1>1, ArmTaken, Calm

(* The volume lock is taken. *)
LEMMA StepVolume ==
    ASSUME Inv, NEW t \in Threads, Volume(t)
    PROVE  Inv'
<1> USE DEF LookupPc, CreatePc, UnlinkPc, FirstPc, TargetPc, BothPc, RenamePc
<1> DEFINE q == th[t].req
<1>1. /\ th[t] \in Call /\ open[t] \in Dirents \cup {None} /\ node \in Nodes /\ lock \in Locks /\ TreeOK(node)
      /\ OpInv(th[t]) /\ LocalInv(th[t]) /\ (th[t].op \in {"open", "create"} => open[t] = None)
      /\ LockInv(lock, t, th[t]) /\ ViewInv(node, th[t]) /\ StableInv(node, th[t], open[t])
  BY Here
<1>2. th[t].pc = "vol" /\ node' = node /\ open' = open /\ site' = site /\ forgot' = forgot
  BY DEF Volume, At
<1>3. q \in Request /\ q.op = th[t].op /\ (q.op = "unlink" => q.path # << >>) /\ q.path \in Seq(Names) /\ q.op \in Ops \ {"close"}
  BY <1>1, <1>2 DEF OpInv, Request
<1>4. /\ q.op = "sync" => Write(t, Vol) /\ Goto(t, Set(t, "synced"))
      /\ q.op = "rename" => Read(t, Vol) /\ Goto(t, Set(t, "rename"))
      /\ q.op = "readdir" => Read(t, Vol) /\ Goto(t, Set(t, "list"))
      /\ q.op = "create" => Read(t, Vol) /\ Goto(t, Lookup(th[t], q.path, "dentry_w"))
      /\ q.op = "unlink" => Read(t, Vol) /\ Goto(t, Lookup(th[t], q.path, "parent_w"))
      /\ q.op = "open" => Read(t, Vol) /\ Goto(t, Lookup(th[t], q.path, "none"))
  BY DEF Volume
<1>5. LocksKept(t)
  BY <1>1, <1>3, <1>4, LockSteps, KeyFacts DEF Ops
<1>6. ASSUME NEW label \in {"synced", "rename", "list"}, Goto(t, Set(t, label)),
             q.op = CASE label = "synced" -> "sync" [] label = "rename" -> "rename" [] label = "list" -> "readdir"
      PROVE  Inv'
  <2> DEFINE rec == Set(t, label)
  <2>1. /\ rec \in Call /\ rec.op = th[t].op /\ rec.pc = label /\ rec.flag = th[t].flag
        /\ rec.path = th[t].path /\ rec.par = th[t].par
        /\ rec.d = th[t].d /\ rec.fdir = th[t].fdir /\ rec.tdir = th[t].tdir /\ rec.fd = th[t].fd
        /\ rec.td = th[t].td /\ rec.req = th[t].req
    BY <1>1, <1>6, SetFacts DEF Call, Positions, Flags
  <2> HIDE DEF rec
  <2>2. OpInv(rec) /\ LocalInv(rec) /\ rec.op \in {th[t].op, "none"}
    BY <1>1, <1>6, <2>1, <1>2, <1>3 DEF OpInv, LocalInv
  <2>3. LocksKept(t) /\ LockInv(lock', t, rec)
    BY <1>6, <1>5, <2>1 DEF LockInv
  <2>4. ViewInv(node', rec)
    BY <1>1, <1>6, <2>1, <1>2 DEF ViewInv
  <2>5. \A e \in Dirents : Num(Refs(rec, open[t]), e) = Num(Owned(t), e)
    BY <1>1, <1>6, <2>1, RootAssumption, <1>2 DEF Num, N, Refs, Owned, OpInv, LocalInv
  <2>6. Arm(t, rec)
    BY <1>2, <1>6, <2>1, <2>2, <2>3, <2>4 DEF Arm, rec, Goto
  <2>7. QED
    BY <1>6, <2>5, <2>6, CalmStep, <1>2
<1>7. ASSUME NEW flag \in {"dentry_w", "parent_w", "none"}, Goto(t, Lookup(th[t], q.path, flag)),
             q.op = CASE flag = "dentry_w" -> "create" [] flag = "parent_w" -> "unlink" [] flag = "none" -> "open"
      PROVE  Inv'
  <2> DEFINE rec == Lookup(th[t], q.path, flag)
  <2>1. /\ rec \in Call /\ rec.op = th[t].op /\ rec.pc = "root" /\ rec.flag = flag /\ rec.path = q.path
        /\ rec.par = th[t].par
        /\ rec.d = th[t].d /\ rec.fdir = th[t].fdir /\ rec.tdir = th[t].tdir /\ rec.fd = th[t].fd
        /\ rec.td = th[t].td /\ rec.req = th[t].req
    BY <1>1, <1>7, <1>3, LookupFacts DEF Call, Positions, Flags
  <2> HIDE DEF rec
  <2>2. OpInv(rec) /\ LocalInv(rec) /\ rec.op \in {th[t].op, "none"}
    BY <1>1, <1>7, <2>1, <1>2, <1>3 DEF OpInv, LocalInv
  <2>3. LocksKept(t) /\ LockInv(lock', t, rec)
    BY <1>7, <1>5, <2>1 DEF LockInv
  <2>4. ViewInv(node', rec)
    BY <1>1, <1>7, <2>1, <1>2 DEF ViewInv
  <2>5. \A e \in Dirents : Num(Refs(rec, open[t]), e) = Num(Owned(t), e)
    BY <1>1, <1>7, <2>1, RootAssumption, <1>2 DEF Num, N, Refs, Owned, OpInv, LocalInv
  <2>6. Arm(t, rec)
    BY <1>2, <1>7, <2>1, <2>2, <2>3, <2>4 DEF Arm, rec, Goto
  <2>7. QED
    BY <1>7, <2>5, <2>6, CalmStep, <1>2
<1>8. QED
  BY <1>3, <1>4, <1>6, <1>7 DEF Ops

(* An index has been written. *)
LEMMA StepSynced ==
    ASSUME Inv, NEW t \in Threads, Synced(t)
    PROVE  Inv'
<1> USE DEF LookupPc, CreatePc, UnlinkPc, FirstPc, TargetPc, BothPc, RenamePc
<1>1. /\ th[t] \in Call /\ open[t] \in Dirents \cup {None} /\ node \in Nodes /\ lock \in Locks /\ TreeOK(node)
      /\ OpInv(th[t]) /\ LocalInv(th[t]) /\ (th[t].op \in {"open", "create"} => open[t] = None)
      /\ LockInv(lock, t, th[t]) /\ ViewInv(node, th[t]) /\ StableInv(node, th[t], open[t])
  BY Here
<1>2. /\ th[t].pc = "synced" /\ Unlock(t, {Vol}) /\ Goto(t, Nothing) /\ node' = node /\ open' = open
      /\ site' = site /\ forgot' = forgot
  BY DEF Synced, At
<1> DEFINE rec == Nothing
<1>3. /\ rec \in Call /\ rec.op = "none" /\ rec.pc = "idle" /\ rec.flag = "none" /\ rec.path = << >>
      /\ rec.par = None /\ rec.d = None
      /\ rec.fdir = None /\ rec.tdir = None /\ rec.fd = None /\ rec.td = None /\ rec.req = None
  BY NothingFacts DEF Nothing
<1> HIDE DEF rec
<1>4. OpInv(rec) /\ LocalInv(rec) /\ rec.op \in {th[t].op, "none"}
  BY <1>1, <1>2, <1>3 DEF OpInv, LocalInv
<1>5. LocksKept(t) /\ LockInv(lock', t, rec)
  <2>1. LocksKept(t)
    BY <1>1, <1>2, LockSteps, KeyFacts
  <2>2. QED
    BY <1>1, <1>2, <1>3, <2>1 DEF LockInv
<1>6. ViewInv(node', rec)
  BY <1>1, <1>2, <1>3 DEF ViewInv
<1>7. \A e \in Dirents : Num(Refs(rec, open[t]), e) = Num(Owned(t), e)
  BY <1>1, <1>2, <1>3, RootAssumption DEF Num, N, Refs, Owned, OpInv, LocalInv
<1>8. Arm(t, rec)
  BY <1>2, <1>3, <1>4, <1>5, <1>6 DEF Arm, Goto, rec
<1>9. QED
  BY <1>2, <1>7, <1>8, CalmStep

(* An open file is closed. *)
LEMMA StepClose ==
    ASSUME Inv, NEW t \in Threads, Close(t)
    PROVE  Inv'
<1> USE DEF LookupPc, CreatePc, UnlinkPc, FirstPc, TargetPc, BothPc, RenamePc
<1> DEFINE p == th[t].d
<1>1. /\ th[t] \in Call /\ open[t] \in Dirents \cup {None} /\ node \in Nodes /\ lock \in Locks /\ TreeOK(node)
      /\ OpInv(th[t]) /\ LocalInv(th[t]) /\ (th[t].op \in {"open", "create"} => open[t] = None)
      /\ LockInv(lock, t, th[t]) /\ ViewInv(node, th[t]) /\ StableInv(node, th[t], open[t])
  BY Here
<1>2. /\ th[t].pc = "close" /\ node' = fs_release_dentry_unlocked(node, p) /\ Goto(t, Nothing)
      /\ lock' = lock /\ open' = open /\ site' = site /\ forgot' = forgot
  BY DEF Close, At
<1>3. p \in Dirents
  BY <1>1, <1>2 DEF LocalInv, Call
<1> DEFINE rec == Nothing
<1>4. /\ rec \in Call /\ rec.op = "none" /\ rec.pc = "idle" /\ rec.flag = "none" /\ rec.path = << >>
      /\ rec.par = None /\ rec.d = None
      /\ rec.fdir = None /\ rec.tdir = None /\ rec.fd = None /\ rec.td = None /\ rec.req = None
  BY NothingFacts DEF Nothing
<1> HIDE DEF rec
<1>5. OpInv(rec) /\ LocalInv(rec) /\ rec.op \in {th[t].op, "none"}
  BY <1>1, <1>2, <1>4 DEF OpInv, LocalInv
<1>6. LocksKept(t) /\ LockInv(lock', t, rec)
  <2>1. LocksKept(t)
    BY <1>1, <1>2, LockSteps, KeyFacts
  <2>2. QED
    BY <1>1, <1>2, <1>4, <2>1 DEF LockInv
<1>7. ViewInv(node', rec)
  BY <1>1, <1>2, <1>4 DEF ViewInv
<1>8. \A e \in Dirents : Num(Refs(rec, open[t]), e) = Num(Owned(t), e) - N(e = p)
  BY <1>1, <1>2, <1>4, RootAssumption, <1>3 DEF Num, N, Refs, Owned, OpInv, LocalInv
<1>9. Arm(t, rec)
  BY <1>2, <1>4, <1>5, <1>6, <1>7 DEF Arm, Goto, rec
<1>10. QED
  BY <1>2, <1>8, <1>9, ArmTaken, ReleaseOne, <1>3

(* A directory is read. *)
LEMMA StepReaddir ==
    ASSUME Inv, NEW t \in Threads, Readdir(t)
    PROVE  Inv'
<1> USE DEF LookupPc, CreatePc, UnlinkPc, FirstPc, TargetPc, BothPc, RenamePc
<1> DEFINE p == th[t].d
<1>1. /\ th[t] \in Call /\ open[t] \in Dirents \cup {None} /\ node \in Nodes /\ lock \in Locks /\ TreeOK(node)
      /\ OpInv(th[t]) /\ LocalInv(th[t]) /\ (th[t].op \in {"open", "create"} => open[t] = None)
      /\ LockInv(lock, t, th[t]) /\ ViewInv(node, th[t]) /\ StableInv(node, th[t], open[t])
  BY Here
<1>2. node' = node /\ open' = open /\ site' = site /\ forgot' = forgot /\ (th[t].pc \in {"list", "listed", "atime"} => p \in Dirents)
  BY <1>1 DEF Readdir, LocalInv, Call
<1>3. ASSUME th[t].pc = "list", Read(t, C(p)), Goto(t, Set(t, "listed"))
      PROVE  Inv'
  <2> DEFINE rec == Set(t, "listed")
  <2>1. /\ rec \in Call /\ rec.op = th[t].op /\ rec.pc = "listed" /\ rec.flag = th[t].flag
        /\ rec.path = th[t].path /\ rec.par = th[t].par /\ rec.d = th[t].d
        /\ rec.fdir = th[t].fdir /\ rec.tdir = th[t].tdir /\ rec.fd = th[t].fd /\ rec.td = th[t].td
        /\ rec.req = th[t].req
    BY <1>1, <1>3, <1>2, SetFacts DEF Positions
  <2> HIDE DEF rec
  <2>2. OpInv(rec) /\ LocalInv(rec) /\ rec.op \in {th[t].op, "none"}
    BY <1>1, <1>3, <1>2, <2>1 DEF OpInv, LocalInv
  <2>3. LocksKept(t) /\ LockInv(lock', t, rec)
    <3>1. LocksKept(t)
      BY <1>1, <1>3, <1>2, LockSteps, KeyFacts
    <3>2. QED
      BY <1>1, <1>3, <1>2, <2>1, <3>1 DEF LockInv
  <2>4. ViewInv(node', rec)
    BY <1>1, <1>3, <1>2, <2>1 DEF ViewInv
  <2>5. \A e \in Dirents : Num(Refs(rec, open[t]), e) = Num(Owned(t), e)
    BY <1>1, <1>3, <1>2, <2>1, RootAssumption DEF Num, N, Refs, Owned, OpInv, LocalInv
  <2>6. Arm(t, rec)
    BY <1>3, <1>2, <2>1, <2>2, <2>3, <2>4 DEF Arm, Goto, rec
  <2>7. QED
    BY <1>3, <1>2, <2>5, <2>6, CalmStep
<1>4. ASSUME th[t].pc = "listed", Unlock(t, {C(p)}), Goto(t, Set(t, "atime"))
      PROVE  Inv'
  <2> DEFINE rec == Set(t, "atime")
  <2>1. /\ rec \in Call /\ rec.op = th[t].op /\ rec.pc = "atime" /\ rec.flag = th[t].flag
        /\ rec.path = th[t].path /\ rec.par = th[t].par /\ rec.d = th[t].d
        /\ rec.fdir = th[t].fdir /\ rec.tdir = th[t].tdir /\ rec.fd = th[t].fd /\ rec.td = th[t].td
        /\ rec.req = th[t].req
    BY <1>1, <1>4, <1>2, SetFacts DEF Positions
  <2> HIDE DEF rec
  <2>2. OpInv(rec) /\ LocalInv(rec) /\ rec.op \in {th[t].op, "none"}
    BY <1>1, <1>4, <1>2, <2>1 DEF OpInv, LocalInv
  <2>3. LocksKept(t) /\ LockInv(lock', t, rec)
    <3>1. LocksKept(t)
      BY <1>1, <1>4, <1>2, LockSteps, KeyFacts
    <3>2. QED
      BY <1>1, <1>4, <1>2, <2>1, <3>1 DEF LockInv
  <2>4. ViewInv(node', rec)
    BY <1>1, <1>4, <1>2, <2>1 DEF ViewInv
  <2>5. \A e \in Dirents : Num(Refs(rec, open[t]), e) = Num(Owned(t), e)
    BY <1>1, <1>4, <1>2, <2>1, RootAssumption DEF Num, N, Refs, Owned, OpInv, LocalInv
  <2>6. Arm(t, rec)
    BY <1>4, <1>2, <2>1, <2>2, <2>3, <2>4 DEF Arm, Goto, rec
  <2>7. QED
    BY <1>4, <1>2, <2>5, <2>6, CalmStep
<1>5. ASSUME th[t].pc = "atime", Unlock(t, {Vol}), Goto(t, Nothing)
      PROVE  Inv'
  <2> DEFINE rec == Nothing
  <2>1. /\ rec \in Call /\ rec.op = "none" /\ rec.pc = "idle" /\ rec.flag = "none" /\ rec.path = << >>
        /\ rec.par = None /\ rec.d = None
        /\ rec.fdir = None /\ rec.tdir = None /\ rec.fd = None /\ rec.td = None /\ rec.req = None
    BY NothingFacts DEF Nothing
  <2> HIDE DEF rec
  <2>2. OpInv(rec) /\ LocalInv(rec) /\ rec.op \in {th[t].op, "none"}
    BY <1>1, <1>5, <1>2, <2>1 DEF OpInv, LocalInv
  <2>3. LocksKept(t) /\ LockInv(lock', t, rec)
    <3>1. LocksKept(t)
      BY <1>1, <1>5, <1>2, LockSteps, KeyFacts
    <3>2. QED
      BY <1>1, <1>5, <1>2, <2>1, <3>1 DEF LockInv
  <2>4. ViewInv(node', rec)
    BY <1>1, <1>5, <1>2, <2>1 DEF ViewInv
  <2>5. \A e \in Dirents : Num(Refs(rec, open[t]), e) = Num(Owned(t), e)
    BY <1>1, <1>5, <1>2, <2>1, RootAssumption DEF Num, N, Refs, Owned, OpInv, LocalInv
  <2>6. Arm(t, rec)
    BY <1>5, <1>2, <2>1, <2>2, <2>3, <2>4 DEF Arm, Goto, rec
  <2>7. QED
    BY <1>5, <1>2, <2>5, <2>6, CalmStep
<1>6. QED
  BY <1>3, <1>4, <1>5 DEF Readdir, At

\* A lookup has come to its end.
Arrived(s) ==
    /\ s \in Call /\ s.d # None /\ s.op \in {"open", "create", "unlink", "rename"}
    /\ s.req \in Request /\ s.req.op = s.op /\ (s.op = "unlink" => s.req.path # << >>)
    /\ s.flag = "parent_w" <=> s.op = "unlink"
    /\ s.flag = "dentry_w" => s.op = "create" /\ s.tdir = None /\ s.fd = None
    /\ s.op = "create" /\ s.flag # "dentry_w" => s.tdir # None /\ s.fd # None
    /\ s.par # None <=> s.op = "unlink"
    /\ s.fdir # None => s.op = "rename"
    /\ s.tdir # None => s.op = "create"
    /\ s.fd # None => s.op = "create"
    /\ s.td = None

(* Where a call goes on with the dentry found, it refers to the same       *)
(* dentries.                                                               *)
LEMMA FoundFacts ==
    ASSUME NEW t, NEW s, Arrived(s)
    PROVE  LET r == Found(t, s)
           IN  /\ r \in Call /\ OpInv(r) /\ LocalInv(r) /\ r.op = s.op
               /\ r.pc \in {"dentry", "setxattr", "unlink", "opened", "root", "worm"}
               /\ r.pc = "unlink" <=> s.op = "unlink"
               /\ r.pc = "unlink" => r.par = s.par /\ r.d = s.d
               /\ \A o, e : Num(Refs(r, o), e) = N(s.d = e) + N(s.par = e) + N(s.fdir = e) + N(s.tdir = e)
                                                   + N(s.fd = e) + N(s.td = e) + N(o = e)
<1> USE DEF LookupPc, CreatePc, UnlinkPc, FirstPc, TargetPc, BothPc, RenamePc
<1>1. CASE s.op = "create" /\ s.flag = "dentry_w"
  <2> DEFINE r == [s EXCEPT !.pc = "dentry"]
  <2>1. Found(t, s) = r
    BY <1>1 DEF Found, Arrived
  <2>2. /\ r \in Call /\ r.op = s.op /\ r.pc = "dentry" /\ r.flag = s.flag /\ r.path = s.path
        /\ r.par = s.par /\ r.d = s.d
        /\ r.fdir = s.fdir /\ r.tdir = s.tdir /\ r.fd = s.fd /\ r.td = s.td /\ r.req = s.req
    <3>1. "dentry" \in Positions
      BY DEF Positions
    <3>2. QED
      BY <3>1 DEF Arrived, Call
  <2> HIDE DEF r
  <2>3. OpInv(r) /\ LocalInv(r) /\ r.op = s.op
    BY <1>1, <2>2 DEF Arrived, OpInv, LocalInv
  <2>4. \A o, e : Num(Refs(r, o), e) = N(s.d = e) + N(s.par = e) + N(s.fdir = e) + N(s.tdir = e)
                                         + N(s.fd = e) + N(s.td = e) + N(o = e)
    BY <1>1, <2>2 DEF Arrived, Num, N, Refs
  <2>5. QED
    BY <1>1, <2>1, <2>2, <2>3, <2>4 DEF Arrived
<1>2. CASE s.op = "create" /\ s.flag # "dentry_w"
  <2> DEFINE r == [s EXCEPT !.pc = "setxattr"]
  <2>1. Found(t, s) = r
    BY <1>2 DEF Found, Arrived
  <2>2. /\ r \in Call /\ r.op = s.op /\ r.pc = "setxattr" /\ r.flag = s.flag /\ r.path = s.path
        /\ r.par = s.par /\ r.d = s.d
        /\ r.fdir = s.fdir /\ r.tdir = s.tdir /\ r.fd = s.fd /\ r.td = s.td /\ r.req = s.req
    <3>1. "setxattr" \in Positions
      BY DEF Positions
    <3>2. QED
      BY <3>1 DEF Arrived, Call
  <2> HIDE DEF r
  <2>3. OpInv(r) /\ LocalInv(r) /\ r.op = s.op
    BY <1>2, <2>2 DEF Arrived, OpInv, LocalInv
  <2>4. \A o, e : Num(Refs(r, o), e) = N(s.d = e) + N(s.par = e) + N(s.fdir = e) + N(s.tdir = e)
                                         + N(s.fd = e) + N(s.td = e) + N(o = e)
    BY <1>2, <2>2 DEF Arrived, Num, N, Refs
  <2>5. QED
    BY <1>2, <2>1, <2>2, <2>3, <2>4 DEF Arrived
<1>3. CASE s.op = "unlink"
  <2> DEFINE r == [s EXCEPT !.pc = "unlink"]
  <2>1. Found(t, s) = r
    BY <1>3 DEF Found, Arrived
  <2>2. /\ r \in Call /\ r.op = s.op /\ r.pc = "unlink" /\ r.flag = s.flag /\ r.path = s.path
        /\ r.par = s.par /\ r.d = s.d
        /\ r.fdir = s.fdir /\ r.tdir = s.tdir /\ r.fd = s.fd /\ r.td = s.td /\ r.req = s.req
    <3>1. "unlink" \in Positions
      BY DEF Positions
    <3>2. QED
      BY <3>1 DEF Arrived, Call
  <2> HIDE DEF r
  <2>3. OpInv(r) /\ LocalInv(r) /\ r.op = s.op
    BY <1>3, <2>2 DEF Arrived, OpInv, LocalInv
  <2>4. \A o, e : Num(Refs(r, o), e) = N(s.d = e) + N(s.par = e) + N(s.fdir = e) + N(s.tdir = e)
                                         + N(s.fd = e) + N(s.td = e) + N(o = e)
    BY <1>3, <2>2 DEF Arrived, Num, N, Refs
  <2>5. QED
    BY <1>3, <2>1, <2>2, <2>3, <2>4 DEF Arrived
<1>4. CASE s.op = "open"
  <2> DEFINE r == [s EXCEPT !.pc = "opened"]
  <2>1. Found(t, s) = r
    BY <1>4 DEF Found, Arrived
  <2>2. /\ r \in Call /\ r.op = s.op /\ r.pc = "opened" /\ r.flag = s.flag /\ r.path = s.path
        /\ r.par = s.par /\ r.d = s.d
        /\ r.fdir = s.fdir /\ r.tdir = s.tdir /\ r.fd = s.fd /\ r.td = s.td /\ r.req = s.req
    <3>1. "opened" \in Positions
      BY DEF Positions
    <3>2. QED
      BY <3>1 DEF Arrived, Call
  <2> HIDE DEF r
  <2>3. OpInv(r) /\ LocalInv(r) /\ r.op = s.op
    BY <1>4, <2>2 DEF Arrived, OpInv, LocalInv
  <2>4. \A o, e : Num(Refs(r, o), e) = N(s.d = e) + N(s.par = e) + N(s.fdir = e) + N(s.tdir = e)
                                         + N(s.fd = e) + N(s.td = e) + N(o = e)
    BY <1>4, <2>2 DEF Arrived, Num, N, Refs
  <2>5. QED
    BY <1>4, <2>1, <2>2, <2>3, <2>4 DEF Arrived
<1>5. CASE s.op = "rename" /\ s.fdir = None
  <2> DEFINE r == Lookup([s EXCEPT !.fdir = s.d, !.d = None], s.req.to, "none")
  <2>1. Found(t, s) = r
    BY <1>5 DEF Found, Arrived
  <2>2. /\ r \in Call /\ r.op = s.op /\ r.pc = "root" /\ r.flag = "none" /\ r.path = s.req.to
        /\ r.par = s.par /\ r.d = None
        /\ r.fdir = s.d /\ r.tdir = s.tdir /\ r.fd = s.fd /\ r.td = s.td /\ r.req = s.req
    <3> DEFINE s2 == [s EXCEPT !.fdir = s.d, !.d = None]
    <3>1. /\ s2 \in Call /\ s2.op = s.op /\ s2.par = s.par /\ s2.d = None /\ s2.fdir = s.d /\ s2.tdir = s.tdir
          /\ s2.fd = s.fd /\ s2.td = s.td /\ s2.req = s.req
      BY DEF Arrived, Call
    <3>2. s.req.to \in Seq(Names)
      BY DEF Arrived, Request
    <3> HIDE DEF s2
    <3>3. "none" \in Flags
      BY DEF Flags
    <3> DEFINE r2 == Lookup(s2, s.req.to, "none")
    <3>4. /\ r2 \in Call /\ r2.op = s.op /\ r2.pc = "root" /\ r2.flag = "none" /\ r2.path = s.req.to
          /\ r2.par = s.par /\ r2.d = None /\ r2.fdir = s.d /\ r2.tdir = s.tdir
          /\ r2.fd = s.fd /\ r2.td = s.td /\ r2.req = s.req
      BY <3>1, <3>2, <3>3, LookupFacts
    <3>5. QED
      BY <3>4 DEF s2
  <2> HIDE DEF r
  <2>3. OpInv(r) /\ LocalInv(r) /\ r.op = s.op
    BY <1>5, <2>2 DEF Arrived, OpInv, LocalInv
  <2>4. \A o, e : Num(Refs(r, o), e) = N(s.d = e) + N(s.par = e) + N(s.fdir = e) + N(s.tdir = e)
                                         + N(s.fd = e) + N(s.td = e) + N(o = e)
    BY <1>5, <2>2 DEF Arrived, Num, N, Refs
  <2>5. QED
    BY <1>5, <2>1, <2>2, <2>3, <2>4 DEF Arrived
<1>6. CASE s.op = "rename" /\ s.fdir # None
  <2> DEFINE r == [s EXCEPT !.tdir = s.d, !.d = None, !.pc = "worm"]
  <2>1. Found(t, s) = r
    BY <1>6 DEF Found, Arrived
  <2>2. /\ r \in Call /\ r.op = s.op /\ r.pc = "worm" /\ r.flag = s.flag /\ r.path = s.path
        /\ r.par = s.par /\ r.d = None
        /\ r.fdir = s.fdir /\ r.tdir = s.d /\ r.fd = s.fd /\ r.td = s.td /\ r.req = s.req
    <3>1. "worm" \in Positions
      BY DEF Positions
    <3>2. QED
      BY <3>1 DEF Arrived, Call
  <2> HIDE DEF r
  <2>3. OpInv(r) /\ LocalInv(r) /\ r.op = s.op
    BY <1>6, <2>2 DEF Arrived, OpInv, LocalInv
  <2>4. \A o, e : Num(Refs(r, o), e) = N(s.d = e) + N(s.par = e) + N(s.fdir = e) + N(s.tdir = e)
                                         + N(s.fd = e) + N(s.td = e) + N(o = e)
    BY <1>6, <2>2 DEF Arrived, Num, N, Refs
  <2>5. QED
    BY <1>6, <2>1, <2>2, <2>3, <2>4 DEF Arrived
<1>7. QED
  BY <1>1, <1>2, <1>3, <1>4, <1>5, <1>6 DEF Arrived

(* A lookup takes a handle of the root. *)
LEMMA StepLookupRoot ==
    ASSUME Inv, NEW t \in Threads, LookupRoot(t)
    PROVE  Inv'
<1> USE DEF LookupPc, CreatePc, UnlinkPc, FirstPc, TargetPc, BothPc, RenamePc
<1>1. /\ th[t] \in Call /\ open[t] \in Dirents \cup {None} /\ node \in Nodes /\ lock \in Locks /\ TreeOK(node)
      /\ OpInv(th[t]) /\ LocalInv(th[t]) /\ (th[t].op \in {"open", "create"} => open[t] = None)
      /\ LockInv(lock, t, th[t]) /\ ViewInv(node, th[t]) /\ StableInv(node, th[t], open[t])
  BY Here
<1> DEFINE s == [th[t] EXCEPT !.d = Root, !.pc = "enter"]
<1>2. /\ th[t].pc = "root" /\ node' = Take(node, Root) /\ lock' = lock /\ open' = open /\ site' = site
      /\ forgot' = forgot
      /\ Goto(t, IF s.path = << >> THEN Found(t, s) ELSE s)
  BY DEF LookupRoot, At
<1>3. /\ s \in Call /\ s.d = Root /\ s.pc = "enter"
      /\ s.op = th[t].op /\ s.flag = th[t].flag /\ s.path = th[t].path /\ s.par = th[t].par
      /\ s.fdir = th[t].fdir /\ s.tdir = th[t].tdir /\ s.fd = th[t].fd /\ s.td = th[t].td
      /\ s.req = th[t].req
  <2>1. "enter" \in Positions
    BY DEF Positions
  <2>2. QED
    BY <1>1, <2>1, RootAssumption DEF Call
<1> HIDE DEF s
<1>4. Linked(node, Root)
  BY DEF Linked
<1>5. LocksKept(t)
  BY <1>1, <1>2, LockSteps, KeyFacts
<1>6. CASE s.path = << >>
  <2> DEFINE rec == Found(t, s)
  <2>1. Arrived(s)
    BY <1>1, <1>2, <1>3, <1>6, RootAssumption DEF Arrived, OpInv, LocalInv
  <2>2. /\ rec \in Call /\ OpInv(rec) /\ LocalInv(rec) /\ rec.op = th[t].op
        /\ rec.pc \in {"dentry", "setxattr", "opened", "root", "worm"}
        /\ \A e : Num(Refs(rec, open[t]), e) = N(s.d = e) + N(s.par = e) + N(s.fdir = e) + N(s.tdir = e)
                                                + N(s.fd = e) + N(s.td = e) + N(open[t] = e)
    BY <1>1, <1>2, <1>3, <1>6, <2>1, FoundFacts DEF OpInv
  <2> HIDE DEF rec
  <2>3. LockInv(lock', t, rec) /\ ViewInv(node', rec)
    BY <2>2 DEF LockInv, ViewInv
  <2>4. \A e \in Dirents : Num(Refs(rec, open[t]), e) = Num(Owned(t), e) + N(e = Root)
    <3>1. th[t].d = None /\ th[t].par = None /\ th[t].op # "readdir"
      BY <1>1, <1>2 DEF OpInv, LocalInv
    <3> HIDE DEF rec
    <3>2. \A e \in Dirents : Num(Owned(t), e) = N(th[t].fdir = e) + N(th[t].tdir = e) + N(th[t].fd = e)
                                               + N(th[t].td = e) + N(open[t] = e)
      BY <1>2, <3>1, RootAssumption DEF Num, N, Refs, Owned
    <3>3. QED
      BY <1>3, <2>2, <3>1, <3>2, RootAssumption DEF N
  <2>5. Arm(t, rec)
    BY <1>2, <1>5, <1>6, <2>2, <2>3 DEF Arm, Goto, rec
  <2>6. QED
    BY <1>2, <1>4, <2>4, <2>5, ArmTaken, TakeOne, RootAssumption
<1>7. CASE s.path # << >>
  <2>1. OpInv(s) /\ LocalInv(s)
    BY <1>1, <1>2, <1>3, <1>7, RootAssumption DEF OpInv, LocalInv
  <2>2. LockInv(lock', t, s) /\ ViewInv(node', s)
    BY <1>3 DEF LockInv, ViewInv
  <2>3. \A e \in Dirents : Num(Refs(s, open[t]), e) = Num(Owned(t), e) + N(e = Root)
    BY <1>1, <1>2, <1>3, RootAssumption DEF Num, N, Refs, Owned, OpInv, LocalInv
  <2>4. Arm(t, s)
    BY <1>2, <1>3, <1>5, <1>7, <2>1, <2>2 DEF Arm, Goto
  <2>5. QED
    BY <1>2, <1>4, <2>3, <2>4, ArmTaken, TakeOne, RootAssumption
<1>8. QED
  BY <1>6, <1>7

(* The next directory is locked. *)
LEMMA StepLookupEnter ==
    ASSUME Inv, NEW t \in Threads, LookupEnter(t)
    PROVE  Inv'
<1> USE DEF LookupPc, CreatePc, UnlinkPc, FirstPc, TargetPc, BothPc, RenamePc
<1> DEFINE p == th[t].d
<1>1. /\ th[t] \in Call /\ open[t] \in Dirents \cup {None} /\ node \in Nodes /\ lock \in Locks /\ TreeOK(node)
      /\ OpInv(th[t]) /\ LocalInv(th[t]) /\ (th[t].op \in {"open", "create"} => open[t] = None)
      /\ LockInv(lock, t, th[t]) /\ ViewInv(node, th[t]) /\ StableInv(node, th[t], open[t])
  BY Here
<1>2. /\ th[t].pc = "enter" /\ Goto(t, Set(t, "hop")) /\ node' = node /\ open' = open /\ site' = site
      /\ forgot' = forgot
      /\ IF Len(th[t].path) = 1 /\ th[t].flag = "parent_w" THEN Write(t, C(p)) ELSE Read(t, C(p))
  BY DEF LookupEnter, At
<1>3. p \in Dirents /\ C(p) \in Keys
  BY <1>1, <1>2, KeyFacts DEF LocalInv, Call
<1> DEFINE rec == Set(t, "hop")
<1>4. /\ rec \in Call /\ rec.op = th[t].op /\ rec.pc = "hop" /\ rec.flag = th[t].flag
      /\ rec.path = th[t].path /\ rec.par = th[t].par /\ rec.d = th[t].d
      /\ rec.fdir = th[t].fdir /\ rec.tdir = th[t].tdir /\ rec.fd = th[t].fd /\ rec.td = th[t].td
      /\ rec.req = th[t].req
  BY <1>1, <1>2, <1>3, SetFacts DEF Positions
<1> HIDE DEF rec
<1>5. OpInv(rec) /\ LocalInv(rec) /\ rec.op \in {th[t].op, "none"}
  BY <1>1, <1>2, <1>3, <1>4 DEF OpInv, LocalInv
<1>6. LocksKept(t) /\ LockInv(lock', t, rec)
  <2>1. LocksKept(t) /\ (IF Len(th[t].path) = 1 /\ th[t].flag = "parent_w" THEN lock'[C(p)].w = t ELSE t \in lock'[C(p)].r)
    BY <1>1, <1>2, <1>3, LockSteps, KeyFacts
  <2>2. QED
    BY <1>1, <1>2, <1>3, <1>4, <2>1 DEF LockInv, Last
<1>7. ViewInv(node', rec)
  BY <1>1, <1>2, <1>3, <1>4 DEF ViewInv
<1>8. \A e \in Dirents : Num(Refs(rec, open[t]), e) = Num(Owned(t), e)
  BY <1>1, <1>2, <1>3, <1>4, RootAssumption DEF Num, N, Refs, Owned, OpInv, LocalInv
<1>9. Arm(t, rec)
  BY <1>2, <1>3, <1>4, <1>5, <1>6, <1>7 DEF Arm, Goto, rec
<1>10. QED
  BY <1>2, <1>3, <1>8, <1>9, CalmStep

(* The directory before is left. *)
LEMMA StepLookupHop ==
    ASSUME Inv, NEW t \in Threads, LookupHop(t)
    PROVE  Inv'
<1> USE DEF LookupPc, CreatePc, UnlinkPc, FirstPc, TargetPc, BothPc, RenamePc
<1> DEFINE p == th[t].d
<1>1. /\ th[t] \in Call /\ open[t] \in Dirents \cup {None} /\ node \in Nodes /\ lock \in Locks /\ TreeOK(node)
      /\ OpInv(th[t]) /\ LocalInv(th[t]) /\ (th[t].op \in {"open", "create"} => open[t] = None)
      /\ LockInv(lock, t, th[t]) /\ ViewInv(node, th[t]) /\ StableInv(node, th[t], open[t])
  BY Here
<1>2. /\ th[t].pc = "hop" /\ Unlock(t, {C(th[t].par)} \cap Keys)
      /\ Goto(t, [th[t] EXCEPT !.par = th[t].d, !.d = None, !.pc = "find"]) /\ node' = node
      /\ open' = open /\ site' = site /\ forgot' = forgot
  BY DEF LookupHop, At
<1>3. p \in Dirents /\ C(p) \notin {C(th[t].par)} \cap Keys
  BY <1>1, <1>2, KeyFacts DEF LocalInv, Call
<1> DEFINE rec == [th[t] EXCEPT !.par = th[t].d, !.d = None, !.pc = "find"]
<1>4. /\ rec \in Call /\ rec.op = th[t].op /\ rec.pc = "find" /\ rec.flag = th[t].flag
      /\ rec.path = th[t].path /\ rec.par = p /\ rec.d = None
      /\ rec.fdir = th[t].fdir /\ rec.tdir = th[t].tdir /\ rec.fd = th[t].fd /\ rec.td = th[t].td
      /\ rec.req = th[t].req
  <2>1. "find" \in Positions
    BY DEF Positions
  <2>2. QED
    BY <1>1, <1>2, <1>3, <2>1 DEF Call
<1> HIDE DEF rec
<1>5. OpInv(rec) /\ LocalInv(rec) /\ rec.op \in {th[t].op, "none"}
  BY <1>1, <1>2, <1>3, <1>4 DEF OpInv, LocalInv
<1>6. LocksKept(t) /\ LockInv(lock', t, rec)
  <2>1. LocksKept(t) /\ lock'[C(p)] = lock[C(p)]
    BY <1>1, <1>2, <1>3, LockSteps, KeyFacts
  <2>2. QED
    BY <1>1, <1>2, <1>3, <1>4, <2>1 DEF LockInv, Last
<1>7. ViewInv(node', rec)
  BY <1>1, <1>2, <1>3, <1>4 DEF ViewInv
<1>8. \A e \in Dirents : Num(Refs(rec, open[t]), e) = Num(Owned(t), e)
  BY <1>1, <1>2, <1>3, <1>4, RootAssumption DEF Num, N, Refs, Owned, OpInv, LocalInv
<1>9. Arm(t, rec)
  BY <1>2, <1>3, <1>4, <1>5, <1>6, <1>7 DEF Arm, Goto, rec
<1>10. QED
  BY <1>2, <1>3, <1>8, <1>9, CalmStep

(* The next name is looked up. *)
LEMMA StepLookupFind ==
    ASSUME Inv, NEW t \in Threads, LookupFind(t)
    PROVE  Inv'
<1> USE DEF LookupPc, CreatePc, UnlinkPc, FirstPc, TargetPc, BothPc, RenamePc
<1> DEFINE p == th[t].par
           x == Head(th[t].path)
           c == node[p].child[x]
<1>1. /\ th[t] \in Call /\ open[t] \in Dirents \cup {None} /\ node \in Nodes /\ lock \in Locks /\ TreeOK(node)
      /\ OpInv(th[t]) /\ LocalInv(th[t]) /\ (th[t].op \in {"open", "create"} => open[t] = None)
      /\ LockInv(lock, t, th[t]) /\ ViewInv(node, th[t]) /\ StableInv(node, th[t], open[t])
  BY Here
<1>2. th[t].pc = "find" /\ open' = open /\ site' = site /\ forgot' = forgot
  BY DEF LookupFind, At
<1>3. p \in Dirents /\ x \in Names /\ c \in Dirents \cup {None}
  <2>1. p \in Dirents /\ th[t].path \in Seq(Names) /\ th[t].path # << >>
    BY <1>1, <1>2 DEF LocalInv, OpInv, Call
  <2>2. x \in Names
    BY <2>1
  <2>3. QED
    BY <1>1, <2>1, <2>2 DEF Nodes, Dentry
<1> HIDE DEF x
<1>4. ASSUME c = None, Unlock(t, {C(p)}), Goto(t, Set(t, "miss")), node' = node
      PROVE  Inv'
  <2> DEFINE rec == Set(t, "miss")
  <2>1. /\ rec \in Call /\ rec.op = th[t].op /\ rec.pc = "miss" /\ rec.flag = th[t].flag
        /\ rec.path = th[t].path /\ rec.par = th[t].par /\ rec.d = th[t].d
        /\ rec.fdir = th[t].fdir /\ rec.tdir = th[t].tdir /\ rec.fd = th[t].fd /\ rec.td = th[t].td
        /\ rec.req = th[t].req
    BY <1>1, <1>4, <1>2, <1>3, SetFacts DEF Positions
  <2> HIDE DEF rec
  <2>2. OpInv(rec) /\ LocalInv(rec) /\ rec.op \in {th[t].op, "none"}
    BY <1>1, <1>4, <1>2, <1>3, <2>1 DEF OpInv, LocalInv
  <2>3. LocksKept(t) /\ LockInv(lock', t, rec)
    <3>1. LocksKept(t)
      BY <1>1, <1>4, <1>2, <1>3, LockSteps, KeyFacts
    <3>2. QED
      BY <1>1, <1>4, <1>2, <1>3, <2>1, <3>1 DEF LockInv
  <2>4. ViewInv(node', rec)
    BY <1>1, <1>4, <1>2, <1>3, <2>1 DEF ViewInv
  <2>5. \A e \in Dirents : Num(Refs(rec, open[t]), e) = Num(Owned(t), e)
    BY <1>1, <1>4, <1>2, <1>3, <2>1, RootAssumption DEF Num, N, Refs, Owned, OpInv, LocalInv
  <2>6. Arm(t, rec)
    BY <1>4, <1>2, <1>3, <2>1, <2>2, <2>3, <2>4 DEF Arm, Goto, rec
  <2>7. QED
    BY <1>4, <1>2, <1>3, <2>5, <2>6, CalmStep
<1>5. ASSUME c # None, node' = Take(node, c), Goto(t, [th[t] EXCEPT !.d = c, !.pc = "drop"]), lock' = lock
      PROVE  Inv'
  <2>1. c \in Dirents /\ c # p /\ Linked(node, c)
    <3>1. c \in Dirents
      BY <1>3, <1>5
    <3>2. Linked(node, c)
      BY <1>3 DEF Linked
    <3>3. c # p
      BY <1>1, <1>3, <1>5 DEF TreeOK
    <3>4. QED
      BY <3>1, <3>2, <3>3
  <2>2. node'[p].child[x] = c
    BY <1>1, <1>3, <1>5, <2>1, TakeEffect DEF SameShape
  <2> HIDE DEF c
  <2> DEFINE rec == [th[t] EXCEPT !.d = c, !.pc = "drop"]
  <2>3. /\ rec \in Call /\ rec.op = th[t].op /\ rec.pc = "drop" /\ rec.flag = th[t].flag
        /\ rec.path = th[t].path /\ rec.par = th[t].par /\ rec.d = c
        /\ rec.fdir = th[t].fdir /\ rec.tdir = th[t].tdir /\ rec.fd = th[t].fd /\ rec.td = th[t].td
        /\ rec.req = th[t].req
    <3>1. "drop" \in Positions
      BY DEF Positions
    <3>2. QED
      BY <1>1, <1>2, <1>3, <1>5, <2>1, <3>1 DEF Call
  <2> HIDE DEF rec
  <2>4. OpInv(rec) /\ LocalInv(rec) /\ rec.op \in {th[t].op, "none"}
    BY <1>1, <1>2, <1>3, <1>5, <2>1, <2>3 DEF OpInv, LocalInv
  <2>5. LocksKept(t) /\ LockInv(lock', t, rec)
    <3>1. LocksKept(t) /\ HeldKept(t)
      BY <1>1, <1>2, <1>3, <1>5, <2>1, LockSteps, KeyFacts
    <3>2. QED
      BY <1>1, <1>2, <1>3, <1>5, <2>1, <2>3, <3>1 DEF LockInv, HeldKept, Last
  <2>6. ViewInv(node', rec)
    BY <1>1, <1>2, <1>3, <1>5, <2>1, <2>3, <2>2 DEF ViewInv, x
  <2>7. \A e \in Dirents : Num(Refs(rec, open[t]), e) = Num(Owned(t), e) + N(e = c)
    <3>1. th[t].d = None /\ th[t].op # "readdir"
      BY <1>1, <1>2, <1>3, <1>5, <2>1 DEF OpInv, LocalInv
    <3>2. QED
      BY <1>2, <1>3, <1>5, <2>1, <2>3, <3>1, RootAssumption DEF Num, N, Refs, Owned
  <2>8. Arm(t, rec)
    BY <1>2, <1>3, <1>5, <2>1, <2>3, <2>4, <2>5, <2>6 DEF Arm, Goto, rec
  <2>9. QED
    BY <1>2, <1>3, <1>5, <2>1, <2>7, <2>8, ArmTaken, TakeOne
<1>6. QED
  BY <1>4, <1>5 DEF LookupFind, x

(* The directory before is given back, or kept for the caller. *)
LEMMA StepLookupDrop ==
    ASSUME Inv, NEW t \in Threads, LookupDrop(t)
    PROVE  Inv'
<1> USE DEF LookupPc, CreatePc, UnlinkPc, FirstPc, TargetPc, BothPc, RenamePc
<1> DEFINE p == th[t].par
           rest == Tail(th[t].path)
           keep == rest = << >> /\ th[t].flag = "parent_w"
           s == [th[t] EXCEPT !.path = rest, !.pc = "enter"]
<1>1. /\ th[t] \in Call /\ open[t] \in Dirents \cup {None} /\ node \in Nodes /\ lock \in Locks /\ TreeOK(node)
      /\ OpInv(th[t]) /\ LocalInv(th[t]) /\ (th[t].op \in {"open", "create"} => open[t] = None)
      /\ LockInv(lock, t, th[t]) /\ ViewInv(node, th[t]) /\ StableInv(node, th[t], open[t])
  BY Here
<1>2. /\ th[t].pc = "drop" /\ open' = open /\ site' = site /\ forgot' = forgot
      /\ node' = IF keep THEN node ELSE Drop(node, p)
      /\ IF rest # << >> THEN Goto(t, s) /\ UNCHANGED lock
         ELSE IF keep THEN Goto(t, Found(t, s)) /\ UNCHANGED lock
         ELSE Unlock(t, {C(p)}) /\ Goto(t, Found(t, [s EXCEPT !.par = None]))
  BY DEF LookupDrop, At
<1>3. /\ p \in Dirents /\ th[t].d \in Dirents /\ th[t].path \in Seq(Names) /\ th[t].path # << >>
      /\ th[t].fdir # None => th[t].op = "rename"
      /\ th[t].tdir # None => th[t].op = "create"
      /\ th[t].fd # None => th[t].op = "create"
      /\ th[t].td = None /\ th[t].op # "readdir"
  BY <1>1, <1>2 DEF LocalInv, OpInv, Call
<1>4. rest \in Seq(Names) /\ (rest = << >> => Len(th[t].path) = 1) /\ Head(th[t].path) \in Names
  BY <1>3, PathFacts
<1>5. node[p].child[Head(th[t].path)] = th[t].d /\ Linked(node, p)
  BY <1>1, <1>2, <1>3, <1>4, RootAssumption DEF ViewInv, TreeOK
<1> HIDE DEF rest
<1>6. /\ s \in Call /\ s.path = rest /\ s.pc = "enter"
      /\ s.op = th[t].op /\ s.flag = th[t].flag /\ s.par = th[t].par /\ s.d = th[t].d
      /\ s.fdir = th[t].fdir /\ s.tdir = th[t].tdir /\ s.fd = th[t].fd /\ s.td = th[t].td
      /\ s.req = th[t].req
  <2>1. "enter" \in Positions
    BY DEF Positions
  <2>2. QED
    BY <1>1, <1>4, <2>1 DEF Call
<1> HIDE DEF s
<1>7. \A e \in Dirents : Num(Owned(t), e) = N(th[t].d = e) + N(p = e) + N(th[t].fdir = e) + N(th[t].tdir = e)
                                             + N(th[t].fd = e) + N(open[t] = e)
  BY <1>2, <1>3, RootAssumption DEF Num, N, Refs, Owned
<1>8. CASE rest # << >>
  <2>1. OpInv(s) /\ LocalInv(s)
    BY <1>1, <1>2, <1>6, <1>8 DEF OpInv, LocalInv
  <2>2. LocksKept(t)
    BY <1>1, <1>2, <1>8, LockSteps, KeyFacts
  <2>3. LockInv(lock', t, s) /\ ViewInv(node', s)
    BY <1>6 DEF LockInv, ViewInv
  <2>4. \A e \in Dirents : Num(Refs(s, open[t]), e) = Num(Owned(t), e) - N(e = p)
    BY <1>3, <1>6, <1>7, RootAssumption DEF Num, N, Refs
  <2>5. Arm(t, s) /\ node' = Drop(node, p)
    BY <1>2, <1>6, <1>8, <2>1, <2>2, <2>3 DEF Arm, Goto
  <2>6. QED
    BY <1>2, <1>3, <1>5, <2>4, <2>5, ArmTaken, DropOne
<1>9. CASE keep
  <2> DEFINE rec == Found(t, s)
  <2>1. Arrived(s) /\ s.op = "unlink"
    BY <1>1, <1>2, <1>3, <1>6, <1>9, RootAssumption DEF Arrived, OpInv
  <2>2. /\ rec \in Call /\ OpInv(rec) /\ LocalInv(rec) /\ rec.op = th[t].op
        /\ rec.pc = "unlink" /\ rec.par = p /\ rec.d = th[t].d
        /\ \A e : Num(Refs(rec, open[t]), e) = N(s.d = e) + N(s.par = e) + N(s.fdir = e) + N(s.tdir = e)
                                                + N(s.fd = e) + N(s.td = e) + N(open[t] = e)
    BY <1>6, <2>1, FoundFacts
  <2> HIDE DEF rec
  <2>3. lock' = lock /\ LocksKept(t)
    BY <1>1, <1>2, <1>9, LockSteps, KeyFacts
  <2>4. lock[C(p)].w = t
    BY <1>1, <1>2, <1>4, <1>9 DEF LockInv, Last
  <2>5. LockInv(lock', t, rec) /\ ViewInv(node', rec)
    BY <1>2, <1>4, <1>5, <1>9, <2>2, <2>3, <2>4 DEF LockInv, ViewInv
  <2>6. \A e \in Dirents : Num(Refs(rec, open[t]), e) = Num(Owned(t), e)
    BY <1>3, <1>6, <1>7, <2>2, RootAssumption DEF N
  <2>7. Arm(t, rec) /\ node' = node
    BY <1>2, <1>9, <2>2, <2>3, <2>5 DEF Arm, Goto, rec
  <2>8. QED
    BY <1>2, <2>6, <2>7, CalmStep
<1>10. CASE rest = << >> /\ ~keep
  <2> DEFINE s2 == [s EXCEPT !.par = None]
             rec == Found(t, s2)
  <2>1. /\ s2 \in Call /\ s2.par = None /\ s2.op = th[t].op /\ s2.flag = th[t].flag /\ s2.d = th[t].d
        /\ s2.fdir = th[t].fdir /\ s2.tdir = th[t].tdir /\ s2.fd = th[t].fd /\ s2.td = th[t].td
        /\ s2.req = th[t].req
    BY <1>6 DEF Call
  <2> HIDE DEF s2
  <2>2. Arrived(s2) /\ s2.op # "unlink"
    BY <1>1, <1>2, <1>3, <1>10, <2>1, RootAssumption DEF Arrived, OpInv
  <2>3. /\ rec \in Call /\ OpInv(rec) /\ LocalInv(rec) /\ rec.op = th[t].op
        /\ rec.pc \in {"dentry", "setxattr", "opened", "root", "worm"}
        /\ \A e : Num(Refs(rec, open[t]), e) = N(s2.d = e) + N(s2.par = e) + N(s2.fdir = e) + N(s2.tdir = e)
                                                + N(s2.fd = e) + N(s2.td = e) + N(open[t] = e)
    BY <2>1, <2>2, FoundFacts
  <2> HIDE DEF rec
  <2>4. LocksKept(t)
    BY <1>1, <1>2, <1>10, LockSteps, KeyFacts
  <2>5. LockInv(lock', t, rec) /\ ViewInv(node', rec)
    BY <2>3 DEF LockInv, ViewInv
  <2>6. \A e \in Dirents : Num(Refs(rec, open[t]), e) = Num(Owned(t), e) - N(e = p)
    BY <1>3, <1>7, <2>1, <2>3, RootAssumption DEF N
  <2>7. Arm(t, rec) /\ node' = Drop(node, p)
    BY <1>2, <1>10, <2>3, <2>4, <2>5 DEF Arm, Goto, rec, s2
  <2>8. QED
    BY <1>2, <1>3, <1>5, <2>6, <2>7, ArmTaken, DropOne
<1>11. QED
  BY <1>8, <1>9, <1>10

(* There is no such name. *)
LEMMA StepLookupMiss ==
    ASSUME Inv, NEW t \in Threads, LookupMiss(t)
    PROVE  Inv'
<1> USE DEF LookupPc, CreatePc, UnlinkPc, FirstPc, TargetPc, BothPc, RenamePc
<1> DEFINE p == th[t].par
           s == [th[t] EXCEPT !.par = None]
<1>1. /\ th[t] \in Call /\ open[t] \in Dirents \cup {None} /\ node \in Nodes /\ lock \in Locks /\ TreeOK(node)
      /\ OpInv(th[t]) /\ LocalInv(th[t]) /\ (th[t].op \in {"open", "create"} => open[t] = None)
      /\ LockInv(lock, t, th[t]) /\ ViewInv(node, th[t]) /\ StableInv(node, th[t], open[t])
  BY Here
<1>2. /\ th[t].pc = "miss" /\ node' = fs_release_dentry_unlocked(node, p) /\ open' = open /\ site' = site
      /\ forgot' = forgot
      /\ CASE s.op = "rename" /\ s.fdir # None -> Goto(t, [s EXCEPT !.pc = "release_fdir"]) /\ UNCHANGED lock
           [] s.op = "create" /\ s.fd # None -> Goto(t, [s EXCEPT !.pc = "setxattr_failed"]) /\ UNCHANGED lock
           [] OTHER -> Unlock(t, {Vol, RenameLock}) /\ Goto(t, Nothing)
  BY DEF LookupMiss, At
<1>3. /\ p \in Dirents /\ th[t].op # "readdir" /\ th[t].d = None
  BY <1>1, <1>2 DEF LocalInv, OpInv, Call
<1>4. /\ s \in Call /\ s.par = None /\ s.op = th[t].op /\ s.pc = th[t].pc /\ s.flag = th[t].flag
      /\ s.path = th[t].path /\ s.d = th[t].d /\ s.fdir = th[t].fdir /\ s.tdir = th[t].tdir
      /\ s.fd = th[t].fd /\ s.td = th[t].td /\ s.req = th[t].req
  BY <1>1 DEF Call
<1> HIDE DEF s
<1>5. CASE th[t].op = "rename" /\ th[t].fdir # None
  <2>1. Goto(t, [s EXCEPT !.pc = "release_fdir"]) /\ lock' = lock
    BY <1>2, <1>4, <1>5
  <2> DEFINE rec == [s EXCEPT !.pc = "release_fdir"]
  <2>2. /\ rec \in Call /\ rec.op = th[t].op /\ rec.pc = "release_fdir" /\ rec.flag = th[t].flag
        /\ rec.path = th[t].path /\ rec.par = None /\ rec.d = th[t].d
        /\ rec.fdir = th[t].fdir /\ rec.tdir = th[t].tdir /\ rec.fd = th[t].fd /\ rec.td = th[t].td
        /\ rec.req = th[t].req
    <3>1. "release_fdir" \in Positions
      BY DEF Positions
    <3>2. QED
      BY <1>1, <1>2, <1>3, <1>4, <1>5, <2>1, <3>1 DEF Call
  <2> HIDE DEF rec
  <2>3. OpInv(rec) /\ LocalInv(rec) /\ rec.op \in {th[t].op, "none"}
    BY <1>1, <1>2, <1>3, <1>4, <1>5, <2>1, <2>2 DEF OpInv, LocalInv
  <2>4. LocksKept(t) /\ LockInv(lock', t, rec)
    <3>1. LocksKept(t)
      BY <1>1, <1>2, <1>3, <1>4, <1>5, <2>1, LockSteps, KeyFacts
    <3>2. QED
      BY <1>1, <1>2, <1>3, <1>4, <1>5, <2>1, <2>2, <3>1 DEF LockInv
  <2>5. ViewInv(node', rec)
    BY <1>1, <1>2, <1>3, <1>4, <1>5, <2>1, <2>2 DEF ViewInv
  <2>6. \A e \in Dirents : Num(Refs(rec, open[t]), e) = Num(Owned(t), e) - N(e = p)
    BY <1>1, <1>2, <1>3, <1>4, <1>5, <2>1, <2>2, RootAssumption DEF Num, N, Refs, Owned, OpInv, LocalInv
  <2>7. Arm(t, rec)
    BY <1>2, <1>3, <1>4, <1>5, <2>1, <2>2, <2>3, <2>4, <2>5 DEF Arm, Goto, rec
  <2>8. QED
    BY <1>2, <1>3, <1>4, <1>5, <2>1, <2>6, <2>7, ArmTaken, ReleaseOne
<1>6. CASE th[t].op = "create" /\ th[t].fd # None
  <2>1. Goto(t, [s EXCEPT !.pc = "setxattr_failed"]) /\ lock' = lock
    BY <1>2, <1>4, <1>6
  <2> DEFINE rec == [s EXCEPT !.pc = "setxattr_failed"]
  <2>2. /\ rec \in Call /\ rec.op = th[t].op /\ rec.pc = "setxattr_failed" /\ rec.flag = th[t].flag
        /\ rec.path = th[t].path /\ rec.par = None /\ rec.d = th[t].d
        /\ rec.fdir = th[t].fdir /\ rec.tdir = th[t].tdir /\ rec.fd = th[t].fd /\ rec.td = th[t].td
        /\ rec.req = th[t].req
    <3>1. "setxattr_failed" \in Positions
      BY DEF Positions
    <3>2. QED
      BY <1>1, <1>2, <1>3, <1>4, <1>6, <2>1, <3>1 DEF Call
  <2> HIDE DEF rec
  <2>3. OpInv(rec) /\ LocalInv(rec) /\ rec.op \in {th[t].op, "none"}
    BY <1>1, <1>2, <1>3, <1>4, <1>6, <2>1, <2>2 DEF OpInv, LocalInv
  <2>4. LocksKept(t) /\ LockInv(lock', t, rec)
    <3>1. LocksKept(t)
      BY <1>1, <1>2, <1>3, <1>4, <1>6, <2>1, LockSteps, KeyFacts
    <3>2. QED
      BY <1>1, <1>2, <1>3, <1>4, <1>6, <2>1, <2>2, <3>1 DEF LockInv
  <2>5. ViewInv(node', rec)
    BY <1>1, <1>2, <1>3, <1>4, <1>6, <2>1, <2>2 DEF ViewInv
  <2>6. \A e \in Dirents : Num(Refs(rec, open[t]), e) = Num(Owned(t), e) - N(e = p)
    BY <1>1, <1>2, <1>3, <1>4, <1>6, <2>1, <2>2, RootAssumption DEF Num, N, Refs, Owned, OpInv, LocalInv
  <2>7. Arm(t, rec)
    BY <1>2, <1>3, <1>4, <1>6, <2>1, <2>2, <2>3, <2>4, <2>5 DEF Arm, Goto, rec
  <2>8. QED
    BY <1>2, <1>3, <1>4, <1>6, <2>1, <2>6, <2>7, ArmTaken, ReleaseOne
<1>7. CASE ~(th[t].op = "rename" /\ th[t].fdir # None) /\ ~(th[t].op = "create" /\ th[t].fd # None)
  <2>1. Unlock(t, {Vol, RenameLock}) /\ Goto(t, Nothing)
    BY <1>2, <1>4, <1>7
  <2> DEFINE rec == Nothing
  <2>2. /\ rec \in Call /\ rec.op = "none" /\ rec.pc = "idle" /\ rec.flag = "none" /\ rec.path = << >>
        /\ rec.par = None /\ rec.d = None
        /\ rec.fdir = None /\ rec.tdir = None /\ rec.fd = None /\ rec.td = None /\ rec.req = None
    BY NothingFacts DEF Nothing
  <2> HIDE DEF rec
  <2>3. OpInv(rec) /\ LocalInv(rec) /\ rec.op \in {th[t].op, "none"}
    BY <1>1, <1>2, <1>3, <1>7, <2>1, <2>2 DEF OpInv, LocalInv
  <2>4. LocksKept(t) /\ LockInv(lock', t, rec)
    <3>1. LocksKept(t)
      BY <1>1, <1>2, <1>3, <1>7, <2>1, LockSteps, KeyFacts
    <3>2. QED
      BY <1>1, <1>2, <1>3, <1>7, <2>1, <2>2, <3>1 DEF LockInv
  <2>5. ViewInv(node', rec)
    BY <1>1, <1>2, <1>3, <1>7, <2>1, <2>2 DEF ViewInv
  <2>6. \A e \in Dirents : Num(Refs(rec, open[t]), e) = Num(Owned(t), e) - N(e = p)
    <3>1. th[t].fdir = None /\ th[t].tdir = None /\ th[t].fd = None /\ th[t].td = None
      BY <1>1, <1>2, <1>3, <1>7, <2>1 DEF OpInv, LocalInv
    <3>2. QED
      BY <1>2, <1>3, <1>7, <2>1, <2>2, <3>1, RootAssumption DEF Num, N, Refs, Owned
  <2>7. Arm(t, rec)
    BY <1>2, <1>3, <1>7, <2>1, <2>2, <2>3, <2>4, <2>5 DEF Arm, Goto, rec
  <2>8. QED
    BY <1>2, <1>3, <1>7, <2>1, <2>6, <2>7, ArmTaken, ReleaseOne
<1>8. QED
  BY <1>5, <1>6, <1>7

(* A file is open. *)
LEMMA StepOpened ==
    ASSUME Inv, NEW t \in Threads, Opened(t)
    PROVE  Inv'
<1> USE DEF LookupPc, CreatePc, UnlinkPc, FirstPc, TargetPc, BothPc, RenamePc
<1>1. /\ th[t] \in Call /\ open[t] \in Dirents \cup {None} /\ node \in Nodes /\ lock \in Locks /\ TreeOK(node)
      /\ OpInv(th[t]) /\ LocalInv(th[t]) /\ (th[t].op \in {"open", "create"} => open[t] = None)
      /\ LockInv(lock, t, th[t]) /\ ViewInv(node, th[t]) /\ StableInv(node, th[t], open[t])
  BY Here
<1>2. /\ th[t].pc = "opened" /\ open' = [open EXCEPT ![t] = th[t].d] /\ node' = node
      /\ Unlock(t, {Vol}) /\ Goto(t, Nothing) /\ site' = site /\ forgot' = forgot
  BY DEF Opened, At
<1> DEFINE rec == Nothing
<1>3. /\ rec \in Call /\ rec.op = "none" /\ rec.pc = "idle" /\ rec.flag = "none" /\ rec.path = << >>
      /\ rec.par = None /\ rec.d = None
      /\ rec.fdir = None /\ rec.tdir = None /\ rec.fd = None /\ rec.td = None /\ rec.req = None
  BY NothingFacts DEF Nothing
<1> HIDE DEF rec
<1>4. OpInv(rec) /\ LocalInv(rec) /\ rec.op \in {th[t].op, "none"}
  BY <1>1, <1>2, <1>3 DEF OpInv, LocalInv
<1>5. LocksKept(t) /\ LockInv(lock', t, rec)
  <2>1. LocksKept(t)
    BY <1>1, <1>2, LockSteps, KeyFacts
  <2>2. QED
    BY <1>1, <1>2, <1>3, <2>1 DEF LockInv
<1>6. ViewInv(node', rec)
  BY <1>1, <1>2, <1>3 DEF ViewInv
<1>7. \A e \in Dirents : Num(Refs(rec, th[t].d), e) = Num(Owned(t), e)
  <2>1. /\ th[t].par = None /\ th[t].fdir = None /\ th[t].tdir = None /\ th[t].fd = None
        /\ th[t].td = None /\ th[t].op = "open" /\ open[t] = None
    BY <1>1, <1>2 DEF OpInv, LocalInv
  <2>2. QED
    BY <1>2, <1>3, <2>1, RootAssumption DEF Num, N, Refs, Owned
<1>8. Taken(t, rec, th[t].d)
  BY <1>1, <1>2, <1>3, <1>4, <1>5, <1>6 DEF Taken, Goto, rec, Call
<1>9. QED
  BY <1>1, <1>2, <1>7, <1>8, NumSlot, Calm DEF Owned

(* The directory of a new dentry is locked. *)
LEMMA StepCreateEnter ==
    ASSUME Inv, NEW t \in Threads, CreateEnter(t)
    PROVE  Inv'
<1> USE DEF LookupPc, CreatePc, UnlinkPc, FirstPc, TargetPc, BothPc, RenamePc
<1> DEFINE p == th[t].d
<1>1. /\ th[t] \in Call /\ open[t] \in Dirents \cup {None} /\ node \in Nodes /\ lock \in Locks /\ TreeOK(node)
      /\ OpInv(th[t]) /\ LocalInv(th[t]) /\ (th[t].op \in {"open", "create"} => open[t] = None)
      /\ LockInv(lock, t, th[t]) /\ ViewInv(node, th[t]) /\ StableInv(node, th[t], open[t])
  BY Here
<1>2. /\ th[t].pc = "dentry" /\ Write(t, C(p)) /\ node' = node /\ open' = open /\ site' = site /\ forgot' = forgot
      /\ Goto(t, [th[t] EXCEPT !.tdir = th[t].d, !.d = None, !.pc = "create"])
  BY DEF CreateEnter, At
<1>3. p \in Dirents /\ C(p) \in Keys
  BY <1>1, <1>2, KeyFacts DEF LocalInv, Call
<1> DEFINE rec == [th[t] EXCEPT !.tdir = th[t].d, !.d = None, !.pc = "create"]
<1>4. /\ rec \in Call /\ rec.op = th[t].op /\ rec.pc = "create" /\ rec.flag = th[t].flag
      /\ rec.path = th[t].path /\ rec.par = th[t].par /\ rec.d = None
      /\ rec.fdir = th[t].fdir /\ rec.tdir = p /\ rec.fd = th[t].fd /\ rec.td = th[t].td /\ rec.req = th[t].req
  <2>1. "create" \in Positions
    BY DEF Positions
  <2>2. QED
    BY <1>1, <1>2, <1>3, <2>1 DEF Call
<1> HIDE DEF rec
<1>5. OpInv(rec) /\ LocalInv(rec) /\ rec.op \in {th[t].op, "none"}
  BY <1>1, <1>2, <1>3, <1>4 DEF OpInv, LocalInv
<1>6. LocksKept(t) /\ LockInv(lock', t, rec)
  <2>1. LocksKept(t) /\ lock'[C(p)].w = t
    BY <1>1, <1>2, <1>3, LockSteps, KeyFacts
  <2>2. QED
    BY <1>1, <1>2, <1>3, <1>4, <2>1 DEF LockInv, LocalInv
<1>7. ViewInv(node', rec)
  BY <1>1, <1>2, <1>3, <1>4 DEF ViewInv
<1>8. \A e \in Dirents : Num(Refs(rec, open[t]), e) = Num(Owned(t), e)
  <2>1. th[t].tdir = None /\ th[t].par = None /\ th[t].op # "readdir"
    BY <1>1, <1>2, <1>3 DEF OpInv, LocalInv
  <2>2. QED
    BY <1>2, <1>3, <1>4, <2>1, RootAssumption DEF Num, N, Refs, Owned
<1>9. Arm(t, rec)
  BY <1>2, <1>3, <1>4, <1>5, <1>6, <1>7 DEF Arm, Goto, rec
<1>10. QED
  BY <1>2, <1>3, <1>8, <1>9, CalmStep

(* The name is there already. *)
LEMMA StepCreateExists ==
    ASSUME Inv, NEW t \in Threads, CreateExists(t)
    PROVE  Inv'
<1> USE DEF LookupPc, CreatePc, UnlinkPc, FirstPc, TargetPc, BothPc, RenamePc
<1> DEFINE p == th[t].d
<1>1. /\ th[t] \in Call /\ open[t] \in Dirents \cup {None} /\ node \in Nodes /\ lock \in Locks /\ TreeOK(node)
      /\ OpInv(th[t]) /\ LocalInv(th[t]) /\ (th[t].op \in {"open", "create"} => open[t] = None)
      /\ LockInv(lock, t, th[t]) /\ ViewInv(node, th[t]) /\ StableInv(node, th[t], open[t])
  BY Here
<1>2. /\ th[t].pc = "exists" /\ node' = fs_release_dentry_unlocked(node, p) /\ lock' = lock
      /\ Goto(t, [th[t] EXCEPT !.d = None, !.pc = "release_parent"]) /\ open' = open /\ site' = site
      /\ forgot' = forgot
  BY DEF CreateExists, At
<1>3. p \in Dirents
  BY <1>1, <1>2 DEF LocalInv, Call
<1> DEFINE rec == [th[t] EXCEPT !.d = None, !.pc = "release_parent"]
<1>4. /\ rec \in Call /\ rec.op = th[t].op /\ rec.pc = "release_parent" /\ rec.flag = th[t].flag
      /\ rec.path = th[t].path /\ rec.par = th[t].par /\ rec.d = None
      /\ rec.fdir = th[t].fdir /\ rec.tdir = th[t].tdir /\ rec.fd = th[t].fd /\ rec.td = th[t].td
      /\ rec.req = th[t].req
  <2>1. "release_parent" \in Positions
    BY DEF Positions
  <2>2. QED
    BY <1>1, <1>2, <1>3, <2>1 DEF Call
<1> HIDE DEF rec
<1>5. OpInv(rec) /\ LocalInv(rec) /\ rec.op \in {th[t].op, "none"}
  BY <1>1, <1>2, <1>3, <1>4 DEF OpInv, LocalInv
<1>6. LocksKept(t) /\ LockInv(lock', t, rec)
  <2>1. LocksKept(t)
    BY <1>1, <1>2, <1>3, LockSteps, KeyFacts
  <2>2. QED
    BY <1>1, <1>2, <1>3, <1>4, <2>1 DEF LockInv
<1>7. ViewInv(node', rec)
  BY <1>1, <1>2, <1>3, <1>4 DEF ViewInv
<1>8. \A e \in Dirents : Num(Refs(rec, open[t]), e) = Num(Owned(t), e) - N(e = p)
  <2>1. th[t].par = None /\ th[t].op # "readdir"
    BY <1>1, <1>2, <1>3 DEF OpInv, LocalInv
  <2>2. QED
    BY <1>2, <1>3, <1>4, <2>1, RootAssumption DEF Num, N, Refs, Owned
<1>9. Arm(t, rec)
  BY <1>2, <1>3, <1>4, <1>5, <1>6, <1>7 DEF Arm, Goto, rec
<1>10. QED
  BY <1>2, <1>3, <1>8, <1>9, ArmTaken, ReleaseOne

(* The call returns, the new file open. *)
LEMMA StepCreateEnd ==
    ASSUME Inv, NEW t \in Threads, CreateEnd(t)
    PROVE  Inv'
<1> USE DEF LookupPc, CreatePc, UnlinkPc, FirstPc, TargetPc, BothPc, RenamePc
<1> DEFINE p == th[t].tdir
<1>1. /\ th[t] \in Call /\ open[t] \in Dirents \cup {None} /\ node \in Nodes /\ lock \in Locks /\ TreeOK(node)
      /\ OpInv(th[t]) /\ LocalInv(th[t]) /\ (th[t].op \in {"open", "create"} => open[t] = None)
      /\ LockInv(lock, t, th[t]) /\ ViewInv(node, th[t]) /\ StableInv(node, th[t], open[t])
  BY Here
<1>2. /\ th[t].pc = "release_parent" /\ node' = fs_release_dentry_unlocked(node, p) /\ Unlock(t, {Vol})
      /\ Goto(t, Nothing) /\ open' = [open EXCEPT ![t] = th[t].fd] /\ site' = site /\ forgot' = forgot
  BY DEF CreateEnd, At
<1>3. p \in Dirents
  BY <1>1, <1>2 DEF LocalInv, Call
<1> DEFINE rec == Nothing
<1>4. /\ rec \in Call /\ rec.op = "none" /\ rec.pc = "idle" /\ rec.flag = "none" /\ rec.path = << >>
      /\ rec.par = None /\ rec.d = None
      /\ rec.fdir = None /\ rec.tdir = None /\ rec.fd = None /\ rec.td = None /\ rec.req = None
  BY NothingFacts DEF Nothing
<1> HIDE DEF rec
<1>5. OpInv(rec) /\ LocalInv(rec) /\ rec.op \in {th[t].op, "none"}
  BY <1>1, <1>2, <1>3, <1>4 DEF OpInv, LocalInv
<1>6. LocksKept(t) /\ LockInv(lock', t, rec)
  <2>1. LocksKept(t)
    BY <1>1, <1>2, <1>3, LockSteps, KeyFacts
  <2>2. QED
    BY <1>1, <1>2, <1>3, <1>4, <2>1 DEF LockInv
<1>7. ViewInv(node', rec)
  BY <1>1, <1>2, <1>3, <1>4 DEF ViewInv
<1>8. \A e \in Dirents : Num(Refs(rec, th[t].fd), e) = Num(Owned(t), e) - N(e = p)
  <2>1. th[t].d = None /\ th[t].par = None /\ th[t].fdir = None /\ th[t].td = None /\ open[t] = None
    BY <1>1, <1>2, <1>3 DEF OpInv, LocalInv
  <2>2. QED
    BY <1>2, <1>3, <1>4, <2>1, RootAssumption DEF Num, N, Refs, Owned
<1>9. Taken(t, rec, th[t].fd)
  BY <1>1, <1>2, <1>3, <1>4, <1>5, <1>6, <1>7 DEF Taken, Goto, rec, Call
<1>10. QED
  BY <1>1, <1>2, <1>3, <1>8, <1>9, ReleaseOne

(* The removed dentry is given back. *)
LEMMA StepUnlinkEnd ==
    ASSUME Inv, NEW t \in Threads, UnlinkEnd(t)
    PROVE  Inv'
<1> USE DEF LookupPc, CreatePc, UnlinkPc, FirstPc, TargetPc, BothPc, RenamePc
<1> DEFINE p == th[t].d
<1>1. /\ th[t] \in Call /\ open[t] \in Dirents \cup {None} /\ node \in Nodes /\ lock \in Locks /\ TreeOK(node)
      /\ OpInv(th[t]) /\ LocalInv(th[t]) /\ (th[t].op \in {"open", "create"} => open[t] = None)
      /\ LockInv(lock, t, th[t]) /\ ViewInv(node, th[t]) /\ StableInv(node, th[t], open[t])
  BY Here
<1>2. /\ th[t].pc = "release" /\ node' = fs_release_dentry_unlocked(node, p) /\ lock' = lock
      /\ Goto(t, Nothing) /\ open' = open /\ site' = site /\ forgot' = forgot
  BY DEF UnlinkEnd, At
<1>3. p \in Dirents
  BY <1>1, <1>2 DEF LocalInv, Call
<1> DEFINE rec == Nothing
<1>4. /\ rec \in Call /\ rec.op = "none" /\ rec.pc = "idle" /\ rec.flag = "none" /\ rec.path = << >>
      /\ rec.par = None /\ rec.d = None
      /\ rec.fdir = None /\ rec.tdir = None /\ rec.fd = None /\ rec.td = None /\ rec.req = None
  BY NothingFacts DEF Nothing
<1> HIDE DEF rec
<1>5. OpInv(rec) /\ LocalInv(rec) /\ rec.op \in {th[t].op, "none"}
  BY <1>1, <1>2, <1>3, <1>4 DEF OpInv, LocalInv
<1>6. LocksKept(t) /\ LockInv(lock', t, rec)
  <2>1. LocksKept(t)
    BY <1>1, <1>2, <1>3, LockSteps, KeyFacts
  <2>2. QED
    BY <1>1, <1>2, <1>3, <1>4, <2>1 DEF LockInv
<1>7. ViewInv(node', rec)
  BY <1>1, <1>2, <1>3, <1>4 DEF ViewInv
<1>8. \A e \in Dirents : Num(Refs(rec, open[t]), e) = Num(Owned(t), e) - N(e = p)
  <2>1. /\ th[t].par = None /\ th[t].fdir = None /\ th[t].tdir = None /\ th[t].fd = None
        /\ th[t].td = None /\ th[t].op # "readdir"
    BY <1>1, <1>2, <1>3 DEF OpInv, LocalInv
  <2>2. QED
    BY <1>2, <1>3, <1>4, <2>1, RootAssumption DEF Num, N, Refs, Owned
<1>9. Arm(t, rec)
  BY <1>2, <1>3, <1>4, <1>5, <1>6, <1>7 DEF Arm, Goto, rec
<1>10. QED
  BY <1>2, <1>3, <1>8, <1>9, ArmTaken, ReleaseOne

(* There is no target directory. *)
LEMMA StepRenameNoDir ==
    ASSUME Inv, NEW t \in Threads, RenameNoDir(t)
    PROVE  Inv'
<1> USE DEF LookupPc, CreatePc, UnlinkPc, FirstPc, TargetPc, BothPc, RenamePc
<1> DEFINE p == th[t].fdir
<1>1. /\ th[t] \in Call /\ open[t] \in Dirents \cup {None} /\ node \in Nodes /\ lock \in Locks /\ TreeOK(node)
      /\ OpInv(th[t]) /\ LocalInv(th[t]) /\ (th[t].op \in {"open", "create"} => open[t] = None)
      /\ LockInv(lock, t, th[t]) /\ ViewInv(node, th[t]) /\ StableInv(node, th[t], open[t])
  BY Here
<1>2. /\ th[t].pc = "release_fdir" /\ node' = fs_release_dentry_unlocked(node, p) /\ Unlock(t, {RenameLock, Vol})
      /\ Goto(t, Nothing) /\ open' = open /\ site' = site /\ forgot' = forgot
  BY DEF RenameNoDir, At
<1>3. p \in Dirents
  BY <1>1, <1>2 DEF LocalInv, Call
<1> DEFINE rec == Nothing
<1>4. /\ rec \in Call /\ rec.op = "none" /\ rec.pc = "idle" /\ rec.flag = "none" /\ rec.path = << >>
      /\ rec.par = None /\ rec.d = None
      /\ rec.fdir = None /\ rec.tdir = None /\ rec.fd = None /\ rec.td = None /\ rec.req = None
  BY NothingFacts DEF Nothing
<1> HIDE DEF rec
<1>5. OpInv(rec) /\ LocalInv(rec) /\ rec.op \in {th[t].op, "none"}
  BY <1>1, <1>2, <1>3, <1>4 DEF OpInv, LocalInv
<1>6. LocksKept(t) /\ LockInv(lock', t, rec)
  <2>1. LocksKept(t)
    BY <1>1, <1>2, <1>3, LockSteps, KeyFacts
  <2>2. QED
    BY <1>1, <1>2, <1>3, <1>4, <2>1 DEF LockInv
<1>7. ViewInv(node', rec)
  BY <1>1, <1>2, <1>3, <1>4 DEF ViewInv
<1>8. \A e \in Dirents : Num(Refs(rec, open[t]), e) = Num(Owned(t), e) - N(e = p)
  <2>1. th[t].d = None /\ th[t].par = None /\ th[t].tdir = None /\ th[t].fd = None /\ th[t].td = None
    BY <1>1, <1>2, <1>3 DEF OpInv, LocalInv
  <2>2. QED
    BY <1>2, <1>3, <1>4, <2>1, RootAssumption DEF Num, N, Refs, Owned
<1>9. Arm(t, rec)
  BY <1>2, <1>3, <1>4, <1>5, <1>6, <1>7 DEF Arm, Goto, rec
<1>10. QED
  BY <1>2, <1>3, <1>8, <1>9, ArmTaken, ReleaseOne

(* The new path is looked up again. *)
LEMMA StepCreateAgain ==
    ASSUME Inv, NEW t \in Threads, CreateAgain(t)
    PROVE  Inv'
<1> USE DEF LookupPc, CreatePc, UnlinkPc, FirstPc, TargetPc, BothPc, RenamePc
<1>1. /\ th[t] \in Call /\ open[t] \in Dirents \cup {None} /\ node \in Nodes /\ lock \in Locks /\ TreeOK(node)
      /\ OpInv(th[t]) /\ LocalInv(th[t]) /\ (th[t].op \in {"open", "create"} => open[t] = None)
      /\ LockInv(lock, t, th[t]) /\ ViewInv(node, th[t]) /\ StableInv(node, th[t], open[t])
  BY Here
<1> DEFINE path == Append(th[t].req.path, th[t].req.name)
<1>2. /\ th[t].pc = "again" /\ Goto(t, Lookup(th[t], path, "none")) /\ lock' = lock /\ node' = node
      /\ open' = open /\ site' = site /\ forgot' = forgot
  BY DEF CreateAgain, At
<1>3. path \in Seq(Names)
  <2>1. th[t].req.path \in Seq(Names) /\ th[t].req.name \in Names
    BY <1>1, <1>2 DEF OpInv, Request
  <2>2. QED
    BY <2>1
<1> HIDE DEF path
<1> DEFINE rec == Lookup(th[t], path, "none")
<1>4. /\ rec \in Call /\ rec.op = th[t].op /\ rec.pc = "root" /\ rec.flag = "none" /\ rec.path = path
      /\ rec.par = th[t].par /\ rec.d = th[t].d
      /\ rec.fdir = th[t].fdir /\ rec.tdir = th[t].tdir /\ rec.fd = th[t].fd /\ rec.td = th[t].td
      /\ rec.req = th[t].req
  <2>1. "none" \in Flags
    BY DEF Flags
  <2>2. QED
    BY <1>1, <1>3, <2>1, LookupFacts
<1> HIDE DEF rec
<1>5. OpInv(rec) /\ LocalInv(rec) /\ rec.op \in {th[t].op, "none"}
  BY <1>1, <1>2, <1>3, <1>4 DEF OpInv, LocalInv
<1>6. LocksKept(t) /\ LockInv(lock', t, rec)
  <2>1. LocksKept(t)
    BY <1>1, <1>2, <1>3, LockSteps, KeyFacts
  <2>2. QED
    BY <1>1, <1>2, <1>3, <1>4, <2>1 DEF LockInv
<1>7. ViewInv(node', rec)
  BY <1>1, <1>2, <1>3, <1>4 DEF ViewInv
<1>8. \A e \in Dirents : Num(Refs(rec, open[t]), e) = Num(Owned(t), e)
  <2>1. th[t].par = None
    BY <1>1, <1>2, <1>3 DEF OpInv, LocalInv
  <2>2. QED
    BY <1>2, <1>3, <1>4, <2>1, RootAssumption DEF Num, N, Refs, Owned
<1>9. Arm(t, rec)
  BY <1>2, <1>3, <1>4, <1>5, <1>6, <1>7 DEF Arm, Goto, rec
<1>10. QED
  BY <1>2, <1>3, <1>8, <1>9, CalmStep

(* The rename lock is taken. *)
LEMMA StepRenameBegin ==
    ASSUME Inv, NEW t \in Threads, RenameBegin(t)
    PROVE  Inv'
<1> USE DEF LookupPc, CreatePc, UnlinkPc, FirstPc, TargetPc, BothPc, RenamePc
<1>1. /\ th[t] \in Call /\ open[t] \in Dirents \cup {None} /\ node \in Nodes /\ lock \in Locks /\ TreeOK(node)
      /\ OpInv(th[t]) /\ LocalInv(th[t]) /\ (th[t].op \in {"open", "create"} => open[t] = None)
      /\ LockInv(lock, t, th[t]) /\ ViewInv(node, th[t]) /\ StableInv(node, th[t], open[t])
  BY Here
<1> DEFINE path == th[t].req.path
<1>2. /\ th[t].pc = "rename" /\ Write(t, RenameLock) /\ Goto(t, Lookup(th[t], path, "none"))
      /\ node' = node /\ open' = open /\ site' = site /\ forgot' = forgot
  BY DEF RenameBegin, At
<1>3. path \in Seq(Names)
  BY <1>1, <1>2 DEF OpInv, Request
<1> HIDE DEF path
<1> DEFINE rec == Lookup(th[t], path, "none")
<1>4. /\ rec \in Call /\ rec.op = th[t].op /\ rec.pc = "root" /\ rec.flag = "none" /\ rec.path = path
      /\ rec.par = th[t].par /\ rec.d = th[t].d
      /\ rec.fdir = th[t].fdir /\ rec.tdir = th[t].tdir /\ rec.fd = th[t].fd /\ rec.td = th[t].td
      /\ rec.req = th[t].req
  <2>1. "none" \in Flags
    BY DEF Flags
  <2>2. QED
    BY <1>1, <1>3, <2>1, LookupFacts
<1> HIDE DEF rec
<1>5. OpInv(rec) /\ LocalInv(rec) /\ rec.op \in {th[t].op, "none"}
  BY <1>1, <1>2, <1>3, <1>4 DEF OpInv, LocalInv
<1>6. LocksKept(t) /\ LockInv(lock', t, rec)
  <2>1. LocksKept(t)
    BY <1>1, <1>2, <1>3, LockSteps, KeyFacts
  <2>2. QED
    BY <1>1, <1>2, <1>3, <1>4, <2>1 DEF LockInv
<1>7. ViewInv(node', rec)
  BY <1>1, <1>2, <1>3, <1>4 DEF ViewInv
<1>8. \A e \in Dirents : Num(Refs(rec, open[t]), e) = Num(Owned(t), e)
  <2>1. th[t].par = None
    BY <1>1, <1>2, <1>3 DEF OpInv, LocalInv
  <2>2. QED
    BY <1>2, <1>3, <1>4, <2>1, RootAssumption DEF Num, N, Refs, Owned
<1>9. Arm(t, rec)
  BY <1>2, <1>3, <1>4, <1>5, <1>6, <1>7 DEF Arm, Goto, rec
<1>10. QED
  BY <1>2, <1>3, <1>8, <1>9, CalmStep

(* The dentry to remove is looked at. *)
LEMMA StepUnlinkCheck ==
    ASSUME Inv, NEW t \in Threads, UnlinkCheck(t)
    PROVE  Inv'
<1> USE DEF LookupPc, CreatePc, UnlinkPc, FirstPc, TargetPc, BothPc, RenamePc
<1> DEFINE p == th[t].par
           d == th[t].d
<1>1. /\ th[t] \in Call /\ open[t] \in Dirents \cup {None} /\ node \in Nodes /\ lock \in Locks /\ TreeOK(node)
      /\ OpInv(th[t]) /\ LocalInv(th[t]) /\ (th[t].op \in {"open", "create"} => open[t] = None)
      /\ LockInv(lock, t, th[t]) /\ ViewInv(node, th[t]) /\ StableInv(node, th[t], open[t])
  BY Here
<1>2. node' = node /\ open' = open /\ site' = site /\ forgot' = forgot /\ th[t].pc \in {"unlink", "empty"}
  BY DEF UnlinkCheck, At
<1>3. p \in Dirents /\ d \in Dirents /\ p # d /\ C(d) \in Keys /\ C(p) # C(d)
  <2>1. p \in Dirents /\ d \in Dirents
    BY <1>1, <1>2 DEF LocalInv, Call
  <2>2. p # d
    BY <1>1, <1>2, <2>1, RootAssumption DEF ViewInv, TreeOK
  <2>3. QED
    BY <2>1, <2>2, KeyFacts
<1>4. ASSUME NEW label \in {"refused", "parent_meta"}, lock' = lock, Goto(t, Set(t, label))
      PROVE  Inv'
  <2> DEFINE rec == Set(t, label)
  <2>1. /\ rec \in Call /\ rec.op = th[t].op /\ rec.pc = label /\ rec.flag = th[t].flag
        /\ rec.path = th[t].path /\ rec.par = th[t].par /\ rec.d = th[t].d
        /\ rec.fdir = th[t].fdir /\ rec.tdir = th[t].tdir /\ rec.fd = th[t].fd /\ rec.td = th[t].td
        /\ rec.req = th[t].req
    BY <1>1, <1>2, <1>3, <1>4, SetFacts DEF Positions
  <2> HIDE DEF rec
  <2>2. OpInv(rec) /\ LocalInv(rec) /\ rec.op \in {th[t].op, "none"}
    BY <1>1, <1>2, <1>3, <1>4, <2>1 DEF OpInv, LocalInv
  <2>3. LocksKept(t) /\ LockInv(lock', t, rec)
    <3>1. LocksKept(t) /\ HeldKept(t)
      BY <1>1, <1>2, <1>3, <1>4, LockSteps, KeyFacts
    <3>2. QED
      BY <1>1, <1>2, <1>3, <1>4, <2>1, <3>1 DEF LockInv, HeldKept, LocalInv
  <2>4. ViewInv(node', rec)
    BY <1>1, <1>2, <1>3, <1>4, <2>1 DEF ViewInv
  <2>5. \A e \in Dirents : Num(Refs(rec, open[t]), e) = Num(Owned(t), e)
    BY <1>1, <1>2, <1>3, <1>4, <2>1, RootAssumption DEF Num, N, Refs, Owned, OpInv, LocalInv
  <2>6. Arm(t, rec)
    BY <1>2, <1>3, <1>4, <2>1, <2>2, <2>3, <2>4 DEF Arm, Goto, rec
  <2>7. QED
    BY <1>2, <1>3, <1>4, <2>5, <2>6, CalmStep
<1>5. ASSUME Read(t, C(d)), Goto(t, Set(t, "empty"))
      PROVE  Inv'
  <2> DEFINE rec == Set(t, "empty")
  <2>1. /\ rec \in Call /\ rec.op = th[t].op /\ rec.pc = "empty" /\ rec.flag = th[t].flag
        /\ rec.path = th[t].path /\ rec.par = th[t].par /\ rec.d = th[t].d
        /\ rec.fdir = th[t].fdir /\ rec.tdir = th[t].tdir /\ rec.fd = th[t].fd /\ rec.td = th[t].td
        /\ rec.req = th[t].req
    BY <1>1, <1>2, <1>3, <1>5, SetFacts DEF Positions
  <2> HIDE DEF rec
  <2>2. OpInv(rec) /\ LocalInv(rec) /\ rec.op \in {th[t].op, "none"}
    BY <1>1, <1>2, <1>3, <1>5, <2>1 DEF OpInv, LocalInv
  <2>3. LocksKept(t) /\ LockInv(lock', t, rec)
    <3>1. LocksKept(t) /\ HeldKept(t)
      BY <1>1, <1>2, <1>3, <1>5, LockSteps, KeyFacts
    <3>2. QED
      BY <1>1, <1>2, <1>3, <1>5, <2>1, <3>1 DEF LockInv, HeldKept, LocalInv
  <2>4. ViewInv(node', rec)
    BY <1>1, <1>2, <1>3, <1>5, <2>1 DEF ViewInv
  <2>5. \A e \in Dirents : Num(Refs(rec, open[t]), e) = Num(Owned(t), e)
    BY <1>1, <1>2, <1>3, <1>5, <2>1, RootAssumption DEF Num, N, Refs, Owned, OpInv, LocalInv
  <2>6. Arm(t, rec)
    BY <1>2, <1>3, <1>5, <2>1, <2>2, <2>3, <2>4 DEF Arm, Goto, rec
  <2>7. QED
    BY <1>2, <1>3, <1>5, <2>5, <2>6, CalmStep
<1>6. ASSUME NEW label \in {"refused", "parent_meta"}, Unlock(t, {C(d)}), Goto(t, Set(t, label))
      PROVE  Inv'
  <2> DEFINE rec == Set(t, label)
  <2>1. /\ rec \in Call /\ rec.op = th[t].op /\ rec.pc = label /\ rec.flag = th[t].flag
        /\ rec.path = th[t].path /\ rec.par = th[t].par /\ rec.d = th[t].d
        /\ rec.fdir = th[t].fdir /\ rec.tdir = th[t].tdir /\ rec.fd = th[t].fd /\ rec.td = th[t].td
        /\ rec.req = th[t].req
    BY <1>1, <1>2, <1>3, <1>6, SetFacts DEF Positions
  <2> HIDE DEF rec
  <2>2. OpInv(rec) /\ LocalInv(rec) /\ rec.op \in {th[t].op, "none"}
    BY <1>1, <1>2, <1>3, <1>6, <2>1 DEF OpInv, LocalInv
  <2>3. LocksKept(t) /\ LockInv(lock', t, rec)
    <3>1. LocksKept(t) /\ lock'[C(p)] = lock[C(p)]
      BY <1>1, <1>2, <1>3, <1>6, LockSteps, KeyFacts
    <3>2. QED
      BY <1>1, <1>2, <1>3, <1>6, <2>1, <3>1 DEF LockInv, LocalInv
  <2>4. ViewInv(node', rec)
    BY <1>1, <1>2, <1>3, <1>6, <2>1 DEF ViewInv
  <2>5. \A e \in Dirents : Num(Refs(rec, open[t]), e) = Num(Owned(t), e)
    BY <1>1, <1>2, <1>3, <1>6, <2>1, RootAssumption DEF Num, N, Refs, Owned, OpInv, LocalInv
  <2>6. Arm(t, rec)
    BY <1>2, <1>3, <1>6, <2>1, <2>2, <2>3, <2>4 DEF Arm, Goto, rec
  <2>7. QED
    BY <1>2, <1>3, <1>6, <2>5, <2>6, CalmStep
<1>7. QED
  BY <1>4, <1>5, <1>6 DEF UnlinkCheck

(* The meta_lock of the directory is taken. *)
LEMMA StepUnlinkParent ==
    ASSUME Inv, NEW t \in Threads, UnlinkParent(t)
    PROVE  Inv'
<1> USE DEF LookupPc, CreatePc, UnlinkPc, FirstPc, TargetPc, BothPc, RenamePc
<1> DEFINE p == th[t].par
<1>1. /\ th[t] \in Call /\ open[t] \in Dirents \cup {None} /\ node \in Nodes /\ lock \in Locks /\ TreeOK(node)
      /\ OpInv(th[t]) /\ LocalInv(th[t]) /\ (th[t].op \in {"open", "create"} => open[t] = None)
      /\ LockInv(lock, t, th[t]) /\ ViewInv(node, th[t]) /\ StableInv(node, th[t], open[t])
  BY Here
<1>2. /\ th[t].pc = "parent_meta" /\ Write(t, M(p)) /\ Goto(t, Set(t, "remove")) /\ node' = node
      /\ open' = open /\ site' = site /\ forgot' = forgot
  BY DEF UnlinkParent, At
<1>3. p \in Dirents /\ M(p) \in Keys
  BY <1>1, <1>2, KeyFacts DEF LocalInv, Call
<1> DEFINE rec == Set(t, "remove")
<1>4. /\ rec \in Call /\ rec.op = th[t].op /\ rec.pc = "remove" /\ rec.flag = th[t].flag
      /\ rec.path = th[t].path /\ rec.par = th[t].par /\ rec.d = th[t].d
      /\ rec.fdir = th[t].fdir /\ rec.tdir = th[t].tdir /\ rec.fd = th[t].fd /\ rec.td = th[t].td
      /\ rec.req = th[t].req
  BY <1>1, <1>2, <1>3, SetFacts DEF Positions
<1> HIDE DEF rec
<1>5. OpInv(rec) /\ LocalInv(rec) /\ rec.op \in {th[t].op, "none"}
  BY <1>1, <1>2, <1>3, <1>4 DEF OpInv, LocalInv
<1>6. LocksKept(t) /\ LockInv(lock', t, rec)
  <2>1. LocksKept(t) /\ HeldKept(t)
    BY <1>1, <1>2, <1>3, LockSteps, KeyFacts
  <2>2. QED
    BY <1>1, <1>2, <1>3, <1>4, <2>1 DEF LockInv, HeldKept, LocalInv
<1>7. ViewInv(node', rec)
  BY <1>1, <1>2, <1>3, <1>4 DEF ViewInv
<1>8. \A e \in Dirents : Num(Refs(rec, open[t]), e) = Num(Owned(t), e)
  BY <1>1, <1>2, <1>3, <1>4, RootAssumption DEF Num, N, Refs, Owned, OpInv, LocalInv
<1>9. Arm(t, rec)
  BY <1>2, <1>3, <1>4, <1>5, <1>6, <1>7 DEF Arm, Goto, rec
<1>10. QED
  BY <1>2, <1>3, <1>8, <1>9, CalmStep

\* the protection of a dentry is set (ltfs_fsops_setxattr)
Mark(n, d, w) == [n EXCEPT ![d].worm = w]

(* A step that sets the protection of a dentry that the call refers to. *)
LEMMA MarkOne ==
    ASSUME Inv, NEW t \in Threads, NEW rec, Arm(t, rec), th[t].pc # "link", NEW p \in Dirents, NEW w,
           w \in {"no", "immutable", "appendonly"}, node' = Mark(node, p, w), Num(Owned(t), p) > 0,
           \A e \in Dirents : Num(Refs(rec, open[t]), e) = Num(Owned(t), e)
    PROVE  Inv'
<1>1. node \in Nodes /\ TreeOK(node)
  BY Here
<1>2. /\ node' \in Nodes /\ \A e \in Dirents : SameShape(node[e], node'[e]) /\ node'[e].handles = node[e].handles
      /\ \A e \in Dirents \ {p} : node'[e] = node[e]
  BY <1>1 DEF Mark, Nodes, Dentry, SameShape
<1>3. TreeOK(node') /\ \A e \in Dirents : Linked(node', e) <=> Linked(node, e)
  BY <1>1, <1>2, ShapeTree
<1>4. TablesKept(t) /\ StatesKept(t)
  <2>1. Num(Owned(t), p) # 0
    OBVIOUS
  <2>2. QED
    BY <1>2, <1>3, <2>1 DEF TablesKept, StatesKept, SameShape
<1>5. \A e \in Dirents : Num(Owned(t), e) \in Nat
  BY NumSlot DEF Owned
<1>6. RefsFound(t, rec, open[t])
  BY DEF RefsFound
<1>7. Balanced(t, rec, open[t])
  <2> SUFFICES ASSUME NEW e \in Dirents
               PROVE  LET a == Num(Owned(t), e) + N(Linked(node, e))
                          b == Num(Refs(rec, open[t]), e) + N(Linked(node', e))
                      IN  \/ /\ node[e].k = "used" /\ node'[e].k = "used"
                             /\ node'[e].handles >= 1
                             /\ node'[e].handles = node[e].handles + b - a
                          \/ /\ node[e].k # "used" /\ node'[e].k # "used" /\ b = 0
                             /\ node'[e].child = NoChild /\ node'[e].parent = None
    <3>1. \A e \in Dirents : node'[e].handles \in Int
      BY <1>2 DEF Nodes, Dentry
    <3>2. QED
      BY <3>1 DEF Balanced
  <2> DEFINE a == Num(Owned(t), e) + N(Linked(node, e))
  <2>1. Num(Refs(rec, open[t]), e) + N(Linked(node', e)) = a
    BY <1>3, <1>5 DEF N
  <2>2. a \in Nat /\ node[e].handles \in Int /\ (node[e].k = "used" => node[e].handles >= 1)
        /\ (node[e].k # "used" => a = 0 /\ node[e].child = NoChild /\ node[e].parent = None)
    BY <1>5, InUse DEF N
  <2> HIDE DEF a
  <2>3. QED
    BY <1>2, <2>1, <2>2 DEF SameShape, a
<1>8. QED
  BY <1>2, <1>3, <1>4, <1>6, <1>7, ArmTaken, Assemble

(* The new file gets its attribute, or it cannot be found any more. *)
LEMMA StepCreateSetxattr ==
    ASSUME Inv, NEW t \in Threads, CreateSetxattr(t)
    PROVE  Inv'
<1> USE DEF LookupPc, CreatePc, UnlinkPc, FirstPc, TargetPc, BothPc, RenamePc
<1>1. /\ th[t] \in Call /\ open[t] \in Dirents \cup {None} /\ node \in Nodes /\ lock \in Locks /\ TreeOK(node)
      /\ OpInv(th[t]) /\ LocalInv(th[t]) /\ (th[t].op \in {"open", "create"} => open[t] = None)
      /\ LockInv(lock, t, th[t]) /\ ViewInv(node, th[t]) /\ StableInv(node, th[t], open[t])
  BY Here
<1>2. lock' = lock /\ open' = open /\ site' = site /\ forgot' = forgot
  BY DEF CreateSetxattr
<1>3. th[t].pc \in {"setxattr", "setxattr_done"} => th[t].d \in Dirents
  BY <1>1 DEF LocalInv, Call
<1>4. th[t].pc = "setxattr_failed" => th[t].fd \in Dirents
  BY <1>1 DEF LocalInv, Call
<1>5. ASSUME th[t].pc = "setxattr", Goto(t, Set(t, "setxattr_done")),
             node' = [node EXCEPT ![th[t].d].worm = IF @ = "no" THEN "appendonly" ELSE @]
      PROVE  Inv'
  <2> DEFINE p == th[t].d
             w == IF node[p].worm = "no" THEN "appendonly" ELSE node[p].worm
  <2>1. w \in {"no", "immutable", "appendonly"} /\ node' = Mark(node, p, w)
    BY <1>1, <1>3, <1>5 DEF Mark, Nodes, Dentry
  <2>2. Num(Owned(t), p) > 0
    <3>1. Owned(t)[1] = p /\ 1 \in 1 .. 7
      BY <1>1, <1>5 DEF Owned, Refs, OpInv
    <3>2. QED
      BY <3>1, NumSlot DEF Owned
  <2> DEFINE rec == Set(t, "setxattr_done")
  <2>3. /\ rec \in Call /\ rec.op = th[t].op /\ rec.pc = "setxattr_done" /\ rec.flag = th[t].flag
        /\ rec.path = th[t].path /\ rec.par = th[t].par /\ rec.d = th[t].d
        /\ rec.fdir = th[t].fdir /\ rec.tdir = th[t].tdir /\ rec.fd = th[t].fd /\ rec.td = th[t].td
        /\ rec.req = th[t].req
    BY <1>1, <1>2, <1>3, <1>5, SetFacts DEF Positions
  <2> HIDE DEF rec
  <2>4. OpInv(rec) /\ LocalInv(rec) /\ rec.op \in {th[t].op, "none"}
    BY <1>1, <1>2, <1>3, <1>5, <2>3 DEF OpInv, LocalInv
  <2>5. LocksKept(t) /\ LockInv(lock', t, rec)
    <3>1. LocksKept(t)
      BY <1>1, <1>2, <1>3, <1>5, LockSteps, KeyFacts
    <3>2. QED
      BY <1>1, <1>2, <1>3, <1>5, <2>3, <3>1 DEF LockInv
  <2>6. ViewInv(node', rec)
    BY <1>1, <1>2, <1>3, <1>5, <2>3 DEF ViewInv
  <2>7. \A e \in Dirents : Num(Refs(rec, open[t]), e) = Num(Owned(t), e)
    BY <1>1, <1>2, <1>3, <1>5, <2>3, RootAssumption DEF Num, N, Refs, Owned, OpInv, LocalInv
  <2>8. Arm(t, rec)
    BY <1>2, <1>3, <1>5, <2>3, <2>4, <2>5, <2>6 DEF Arm, Goto, rec
  <2>9. p \in Dirents /\ th[t].pc # "link"
    BY <1>3, <1>5
  <2> HIDE DEF p, w
  <2>10. QED
    BY <2>7, <2>8, <2>1, <2>2, <2>9, MarkOne
<1>6. ASSUME th[t].pc = "setxattr_done", Goto(t, [th[t] EXCEPT !.d = None, !.pc = "release_parent"]),
             node' = fs_release_dentry_unlocked(node, th[t].d)
      PROVE  Inv'
  <2> DEFINE p == th[t].d
  <2> DEFINE rec == [th[t] EXCEPT !.d = None, !.pc = "release_parent"]
  <2>1. /\ rec \in Call /\ rec.op = th[t].op /\ rec.pc = "release_parent" /\ rec.flag = th[t].flag
        /\ rec.path = th[t].path /\ rec.par = th[t].par /\ rec.d = None
        /\ rec.fdir = th[t].fdir /\ rec.tdir = th[t].tdir /\ rec.fd = th[t].fd /\ rec.td = th[t].td
        /\ rec.req = th[t].req
    <3>1. "release_parent" \in Positions
      BY DEF Positions
    <3>2. QED
      BY <1>1, <1>2, <1>3, <1>6, <3>1 DEF Call
  <2> HIDE DEF rec
  <2>2. OpInv(rec) /\ LocalInv(rec) /\ rec.op \in {th[t].op, "none"}
    BY <1>1, <1>2, <1>3, <1>6, <2>1 DEF OpInv, LocalInv
  <2>3. LocksKept(t) /\ LockInv(lock', t, rec)
    <3>1. LocksKept(t)
      BY <1>1, <1>2, <1>3, <1>6, LockSteps, KeyFacts
    <3>2. QED
      BY <1>1, <1>2, <1>3, <1>6, <2>1, <3>1 DEF LockInv
  <2>4. ViewInv(node', rec)
    BY <1>1, <1>2, <1>3, <1>6, <2>1 DEF ViewInv
  <2>5. \A e \in Dirents : Num(Refs(rec, open[t]), e) = Num(Owned(t), e) - N(e = p)
    <3>1. th[t].par = None /\ th[t].op # "readdir"
      BY <1>1, <1>2, <1>3, <1>6 DEF OpInv, LocalInv
    <3>2. QED
      BY <1>2, <1>3, <1>6, <2>1, <3>1, RootAssumption DEF Num, N, Refs, Owned
  <2>6. Arm(t, rec)
    BY <1>2, <1>3, <1>6, <2>1, <2>2, <2>3, <2>4 DEF Arm, Goto, rec
  <2>7. QED
    BY <1>2, <1>3, <1>6, <2>5, <2>6, ArmTaken, ReleaseOne
<1>7. ASSUME th[t].pc = "setxattr_failed", Goto(t, [th[t] EXCEPT !.fd = None, !.pc = "release_parent"]),
             node' = fs_release_dentry_unlocked(node, th[t].fd)
      PROVE  Inv'
  <2> DEFINE p == th[t].fd
  <2> DEFINE rec == [th[t] EXCEPT !.fd = None, !.pc = "release_parent"]
  <2>1. /\ rec \in Call /\ rec.op = th[t].op /\ rec.pc = "release_parent" /\ rec.flag = th[t].flag
        /\ rec.path = th[t].path /\ rec.par = th[t].par /\ rec.d = th[t].d
        /\ rec.fdir = th[t].fdir /\ rec.tdir = th[t].tdir /\ rec.fd = None /\ rec.td = th[t].td
        /\ rec.req = th[t].req
    <3>1. "release_parent" \in Positions
      BY DEF Positions
    <3>2. QED
      BY <1>1, <1>2, <1>4, <1>7, <3>1 DEF Call
  <2> HIDE DEF rec
  <2>2. OpInv(rec) /\ LocalInv(rec) /\ rec.op \in {th[t].op, "none"}
    BY <1>1, <1>2, <1>4, <1>7, <2>1 DEF OpInv, LocalInv
  <2>3. LocksKept(t) /\ LockInv(lock', t, rec)
    <3>1. LocksKept(t)
      BY <1>1, <1>2, <1>4, <1>7, LockSteps, KeyFacts
    <3>2. QED
      BY <1>1, <1>2, <1>4, <1>7, <2>1, <3>1 DEF LockInv
  <2>4. ViewInv(node', rec)
    BY <1>1, <1>2, <1>4, <1>7, <2>1 DEF ViewInv
  <2>5. \A e \in Dirents : Num(Refs(rec, open[t]), e) = Num(Owned(t), e) - N(e = p)
    <3>1. th[t].par = None /\ th[t].op # "readdir"
      BY <1>1, <1>2, <1>4, <1>7 DEF OpInv, LocalInv
    <3>2. QED
      BY <1>2, <1>4, <1>7, <2>1, <3>1, RootAssumption DEF Num, N, Refs, Owned
  <2>6. Arm(t, rec)
    BY <1>2, <1>4, <1>7, <2>1, <2>2, <2>3, <2>4 DEF Arm, Goto, rec
  <2>7. QED
    BY <1>2, <1>4, <1>7, <2>5, <2>6, ArmTaken, ReleaseOne
<1>8. QED
  BY <1>5, <1>6, <1>7 DEF CreateSetxattr, At

(* The directories of a rename are locked. *)
LEMMA StepRenameLocks ==
    ASSUME Inv, NEW t \in Threads, RenameLocks(t)
    PROVE  Inv'
<1> USE DEF LookupPc, CreatePc, UnlinkPc, FirstPc, TargetPc, BothPc, RenamePc
<1> DEFINE a == First(th[t])
           b == Second(th[t])
           order == [th[t] EXCEPT !.flag = IF TargetAbove(node, th[t]) THEN "target_first" ELSE "source_first"]
<1>1. /\ th[t] \in Call /\ open[t] \in Dirents \cup {None} /\ node \in Nodes /\ lock \in Locks /\ TreeOK(node)
      /\ OpInv(th[t]) /\ LocalInv(th[t]) /\ (th[t].op \in {"open", "create"} => open[t] = None)
      /\ LockInv(lock, t, th[t]) /\ ViewInv(node, th[t]) /\ StableInv(node, th[t], open[t])
  BY Here
<1>2. /\ node' = node /\ open' = open /\ site' = site /\ forgot' = forgot
      /\ th[t].pc \in {"worm", "first_meta", "second", "second_meta"}
  BY DEF RenameLocks, At
<1>3. /\ th[t].fdir \in Dirents /\ th[t].tdir \in Dirents /\ {a, b} = {th[t].fdir, th[t].tdir}
      /\ C(a) \in Keys /\ C(b) \in Keys /\ M(a) \in Keys /\ M(b) \in Keys
  <2>1. th[t].fdir \in Dirents /\ th[t].tdir \in Dirents
    BY <1>1, <1>2 DEF LocalInv, Call
  <2>2. QED
    BY <2>1, KeyFacts DEF First, Second
<1>4. ASSUME th[t].pc = "worm", Write(t, C(First(order))), Goto(t, [order EXCEPT !.pc = "first_meta"])
      PROVE  Inv'
  <2> DEFINE flag == IF TargetAbove(node, th[t]) THEN "target_first" ELSE "source_first"
             f == IF flag = "target_first" THEN th[t].tdir ELSE th[t].fdir
  <2>1. flag \in Flags /\ flag \in {"target_first", "source_first"}
    BY DEF Flags
  <2> HIDE DEF flag
  <2>2. order = [th[t] EXCEPT !.flag = flag] /\ C(First(order)) = C(f) /\ C(f) \in Keys /\ f \in Dirents
    <3>1. order = [th[t] EXCEPT !.flag = flag]
      BY DEF flag
    <3>2. First([th[t] EXCEPT !.flag = flag]) = f
      BY <1>1 DEF First, Call
    <3>3. QED
      BY <1>3, <3>1, <3>2, KeyFacts
  <2> HIDE DEF order
  <2> DEFINE rec == [order EXCEPT !.pc = "first_meta"]
  <2>3. /\ rec \in Call /\ rec.op = th[t].op /\ rec.pc = "first_meta" /\ rec.flag = flag
        /\ rec.path = th[t].path /\ rec.par = th[t].par /\ rec.d = th[t].d
        /\ rec.fdir = th[t].fdir /\ rec.tdir = th[t].tdir /\ rec.fd = th[t].fd /\ rec.td = th[t].td
        /\ rec.req = th[t].req
    <3>1. "first_meta" \in Positions
      BY DEF Positions
    <3>2. QED
      BY <1>1, <1>2, <1>3, <1>4, <2>1, <2>2, <3>1 DEF Call
  <2> HIDE DEF rec
  <2>4. OpInv(rec) /\ LocalInv(rec) /\ rec.op \in {th[t].op, "none"}
    BY <1>1, <1>2, <1>3, <1>4, <2>1, <2>2, <2>3 DEF OpInv, LocalInv
  <2>5. LocksKept(t) /\ LockInv(lock', t, rec)
    <3>1. LocksKept(t) /\ lock'[C(f)].w = t
      BY <1>1, <1>2, <1>3, <1>4, <2>1, <2>2, LockSteps, KeyFacts
    <3>2. QED
      BY <1>1, <1>2, <1>3, <1>4, <2>1, <2>2, <2>3, <3>1 DEF LockInv, First
  <2>6. ViewInv(node', rec)
    BY <1>1, <1>2, <1>3, <1>4, <2>1, <2>2, <2>3 DEF ViewInv
  <2>7. \A e \in Dirents : Num(Refs(rec, open[t]), e) = Num(Owned(t), e)
    BY <1>1, <1>2, <1>3, <1>4, <2>1, <2>2, <2>3, RootAssumption DEF Num, N, Refs, Owned, OpInv, LocalInv
  <2>8. Arm(t, rec)
    BY <1>2, <1>3, <1>4, <2>1, <2>2, <2>3, <2>4, <2>5, <2>6 DEF Arm, Goto, rec
  <2>9. QED
    BY <1>2, <1>3, <1>4, <2>1, <2>2, <2>7, <2>8, CalmStep
<1>5. ASSUME th[t].pc = "first_meta", Write(t, M(a)), Goto(t, Set(t, "first_find"))
      PROVE  Inv'
  <2> DEFINE rec == Set(t, "first_find")
  <2>1. /\ rec \in Call /\ rec.op = th[t].op /\ rec.pc = "first_find" /\ rec.flag = th[t].flag
        /\ rec.path = th[t].path /\ rec.par = th[t].par /\ rec.d = th[t].d
        /\ rec.fdir = th[t].fdir /\ rec.tdir = th[t].tdir /\ rec.fd = th[t].fd /\ rec.td = th[t].td
        /\ rec.req = th[t].req
    BY <1>1, <1>2, <1>3, <1>5, SetFacts DEF Positions
  <2> HIDE DEF rec
  <2>2. OpInv(rec) /\ LocalInv(rec) /\ rec.op \in {th[t].op, "none"}
    BY <1>1, <1>2, <1>3, <1>5, <2>1 DEF OpInv, LocalInv
  <2>3. LocksKept(t) /\ LockInv(lock', t, rec)
    <3>1. LocksKept(t) /\ HeldKept(t)
      BY <1>1, <1>2, <1>3, <1>5, LockSteps, KeyFacts
    <3>2. QED
      BY <1>1, <1>2, <1>3, <1>5, <2>1, <3>1 DEF LockInv, HeldKept, First
  <2>4. ViewInv(node', rec)
    BY <1>1, <1>2, <1>3, <1>5, <2>1 DEF ViewInv
  <2>5. \A e \in Dirents : Num(Refs(rec, open[t]), e) = Num(Owned(t), e)
    BY <1>1, <1>2, <1>3, <1>5, <2>1, RootAssumption DEF Num, N, Refs, Owned, OpInv, LocalInv
  <2>6. Arm(t, rec)
    BY <1>2, <1>3, <1>5, <2>1, <2>2, <2>3, <2>4 DEF Arm, Goto, rec
  <2>7. QED
    BY <1>2, <1>3, <1>5, <2>5, <2>6, CalmStep
<1>6. ASSUME th[t].pc = "second", Write(t, C(b)), Goto(t, Set(t, "second_meta"))
      PROVE  Inv'
  <2> DEFINE rec == Set(t, "second_meta")
  <2>1. /\ rec \in Call /\ rec.op = th[t].op /\ rec.pc = "second_meta" /\ rec.flag = th[t].flag
        /\ rec.path = th[t].path /\ rec.par = th[t].par /\ rec.d = th[t].d
        /\ rec.fdir = th[t].fdir /\ rec.tdir = th[t].tdir /\ rec.fd = th[t].fd /\ rec.td = th[t].td
        /\ rec.req = th[t].req
    BY <1>1, <1>2, <1>3, <1>6, SetFacts DEF Positions
  <2> HIDE DEF rec
  <2>2. OpInv(rec) /\ LocalInv(rec) /\ rec.op \in {th[t].op, "none"}
    BY <1>1, <1>2, <1>3, <1>6, <2>1 DEF OpInv, LocalInv
  <2>3. LocksKept(t) /\ LockInv(lock', t, rec)
    <3>1. LocksKept(t) /\ HeldKept(t) /\ lock'[C(b)].w = t
      BY <1>1, <1>2, <1>3, <1>6, LockSteps, KeyFacts
    <3>2. QED
      BY <1>1, <1>2, <1>3, <1>6, <2>1, <3>1 DEF LockInv, HeldKept, First, Second
  <2>4. ViewInv(node', rec)
    BY <1>1, <1>2, <1>3, <1>6, <2>1 DEF ViewInv
  <2>5. \A e \in Dirents : Num(Refs(rec, open[t]), e) = Num(Owned(t), e)
    BY <1>1, <1>2, <1>3, <1>6, <2>1, RootAssumption DEF Num, N, Refs, Owned, OpInv, LocalInv
  <2>6. Arm(t, rec)
    BY <1>2, <1>3, <1>6, <2>1, <2>2, <2>3, <2>4 DEF Arm, Goto, rec
  <2>7. QED
    BY <1>2, <1>3, <1>6, <2>5, <2>6, CalmStep
<1>7. ASSUME th[t].pc = "second", a = b, lock' = lock, Goto(t, Set(t, "second_find"))
      PROVE  Inv'
  <2> DEFINE rec == Set(t, "second_find")
  <2>1. /\ rec \in Call /\ rec.op = th[t].op /\ rec.pc = "second_find" /\ rec.flag = th[t].flag
        /\ rec.path = th[t].path /\ rec.par = th[t].par /\ rec.d = th[t].d
        /\ rec.fdir = th[t].fdir /\ rec.tdir = th[t].tdir /\ rec.fd = th[t].fd /\ rec.td = th[t].td
        /\ rec.req = th[t].req
    BY <1>1, <1>2, <1>3, <1>7, SetFacts DEF Positions
  <2> HIDE DEF rec
  <2>2. OpInv(rec) /\ LocalInv(rec) /\ rec.op \in {th[t].op, "none"}
    BY <1>1, <1>2, <1>3, <1>7, <2>1 DEF OpInv, LocalInv
  <2>3. LocksKept(t) /\ LockInv(lock', t, rec)
    <3>1. LocksKept(t) /\ HeldKept(t)
      BY <1>1, <1>2, <1>3, <1>7, LockSteps, KeyFacts
    <3>2. QED
      BY <1>1, <1>2, <1>3, <1>7, <2>1, <3>1 DEF LockInv, HeldKept, First, Second
  <2>4. ViewInv(node', rec)
    BY <1>1, <1>2, <1>3, <1>7, <2>1 DEF ViewInv
  <2>5. \A e \in Dirents : Num(Refs(rec, open[t]), e) = Num(Owned(t), e)
    BY <1>1, <1>2, <1>3, <1>7, <2>1, RootAssumption DEF Num, N, Refs, Owned, OpInv, LocalInv
  <2>6. Arm(t, rec)
    BY <1>2, <1>3, <1>7, <2>1, <2>2, <2>3, <2>4 DEF Arm, Goto, rec
  <2>7. QED
    BY <1>2, <1>3, <1>7, <2>5, <2>6, CalmStep
<1>8. ASSUME th[t].pc = "second_meta", Write(t, M(b)), Goto(t, Set(t, "second_find"))
      PROVE  Inv'
  <2> DEFINE rec == Set(t, "second_find")
  <2>1. /\ rec \in Call /\ rec.op = th[t].op /\ rec.pc = "second_find" /\ rec.flag = th[t].flag
        /\ rec.path = th[t].path /\ rec.par = th[t].par /\ rec.d = th[t].d
        /\ rec.fdir = th[t].fdir /\ rec.tdir = th[t].tdir /\ rec.fd = th[t].fd /\ rec.td = th[t].td
        /\ rec.req = th[t].req
    BY <1>1, <1>2, <1>3, <1>8, SetFacts DEF Positions
  <2> HIDE DEF rec
  <2>2. OpInv(rec) /\ LocalInv(rec) /\ rec.op \in {th[t].op, "none"}
    BY <1>1, <1>2, <1>3, <1>8, <2>1 DEF OpInv, LocalInv
  <2>3. LocksKept(t) /\ LockInv(lock', t, rec)
    <3>1. LocksKept(t) /\ HeldKept(t)
      BY <1>1, <1>2, <1>3, <1>8, LockSteps, KeyFacts
    <3>2. QED
      BY <1>1, <1>2, <1>3, <1>8, <2>1, <3>1 DEF LockInv, HeldKept, First, Second
  <2>4. ViewInv(node', rec)
    BY <1>1, <1>2, <1>3, <1>8, <2>1 DEF ViewInv
  <2>5. \A e \in Dirents : Num(Refs(rec, open[t]), e) = Num(Owned(t), e)
    BY <1>1, <1>2, <1>3, <1>8, <2>1, RootAssumption DEF Num, N, Refs, Owned, OpInv, LocalInv
  <2>6. Arm(t, rec)
    BY <1>2, <1>3, <1>8, <2>1, <2>2, <2>3, <2>4 DEF Arm, Goto, rec
  <2>7. QED
    BY <1>2, <1>3, <1>8, <2>5, <2>6, CalmStep
<1>9. QED
  BY <1>4, <1>5, <1>6, <1>7, <1>8 DEF RenameLocks, At

(* A refusal releases a meta_lock that the call does not hold. *)
LEMMA StepUnlinkRefused ==
    ASSUME NEW t \in Threads, UnlinkRefused(t), Sane'
    PROVE  FALSE
BY DEF UnlinkRefused, Sane

(* Protected directories. *)
LEMMA StepRenameWorm ==
    ASSUME Inv, NEW t \in Threads, RenameWorm(t), Sane'
    PROVE  Inv'
<1> USE DEF LookupPc, CreatePc, UnlinkPc, FirstPc, TargetPc, BothPc, RenamePc
<1> DEFINE p == th[t].fdir
           q == th[t].tdir
<1>1. /\ th[t] \in Call /\ open[t] \in Dirents \cup {None} /\ node \in Nodes /\ lock \in Locks /\ TreeOK(node)
      /\ OpInv(th[t]) /\ LocalInv(th[t]) /\ (th[t].op \in {"open", "create"} => open[t] = None)
      /\ LockInv(lock, t, th[t]) /\ ViewInv(node, th[t]) /\ StableInv(node, th[t], open[t])
  BY Here
<1>2. /\ th[t].pc = "worm" /\ node' = fs_release_dentry_unlocked(fs_release_dentry_unlocked(node, p), q)
      /\ Unlock(t, {RenameLock, Vol}) /\ Goto(t, Nothing) /\ open' = open /\ site' = site /\ forgot' = forgot
  <2>1. p = q
    BY DEF RenameWorm, Sane
  <2>2. QED
    BY <2>1 DEF RenameWorm, At, Unlock
<1>3. p \in Dirents /\ q \in Dirents
  BY <1>1, <1>2 DEF LocalInv, Call
<1> DEFINE rec == Nothing
<1>4. /\ rec \in Call /\ rec.op = "none" /\ rec.pc = "idle" /\ rec.flag = "none" /\ rec.path = << >>
      /\ rec.par = None /\ rec.d = None
      /\ rec.fdir = None /\ rec.tdir = None /\ rec.fd = None /\ rec.td = None /\ rec.req = None
  BY NothingFacts DEF Nothing
<1> HIDE DEF rec
<1>5. OpInv(rec) /\ LocalInv(rec) /\ rec.op \in {th[t].op, "none"}
  BY <1>1, <1>2, <1>3, <1>4 DEF OpInv, LocalInv
<1>6. LocksKept(t) /\ LockInv(lock', t, rec)
  <2>1. LocksKept(t)
    BY <1>1, <1>2, <1>3, LockSteps, KeyFacts
  <2>2. QED
    BY <1>1, <1>2, <1>3, <1>4, <2>1 DEF LockInv
<1>7. ViewInv(node', rec)
  BY <1>1, <1>2, <1>3, <1>4 DEF ViewInv
<1>8. \A e \in Dirents : Num(Refs(rec, open[t]), e) = Num(Owned(t), e) - (N(e = p) + N(e = q))
  <2>1. th[t].d = None /\ th[t].par = None /\ th[t].fd = None /\ th[t].td = None
    BY <1>1, <1>2, <1>3 DEF OpInv, LocalInv
  <2>2. QED
    BY <1>2, <1>3, <1>4, <2>1, RootAssumption DEF Num, N, Refs, Owned
<1>9. Arm(t, rec)
  BY <1>2, <1>3, <1>4, <1>5, <1>6, <1>7 DEF Arm, Goto, rec
<1>10. QED
  BY <1>2, <1>3, <1>8, <1>9, ArmTaken, ReleaseTwo

(* A rename leaves its directories, and then its source. *)
LEMMA StepRenameLeave ==
    ASSUME Inv, NEW t \in Threads, RenameLeave(t)
    PROVE  Inv'
<1> USE DEF LookupPc, CreatePc, UnlinkPc, FirstPc, TargetPc, BothPc, RenamePc
<1> DEFINE p == th[t].fdir
           q == th[t].tdir
           ks == {C(p), C(q), M(p), M(q), RenameLock, Vol}
           back == [th[t] EXCEPT !.fdir = None, !.tdir = None, !.d = th[t].fd, !.fd = None, !.pc = "release"]
<1>1. /\ th[t] \in Call /\ open[t] \in Dirents \cup {None} /\ node \in Nodes /\ lock \in Locks /\ TreeOK(node)
      /\ OpInv(th[t]) /\ LocalInv(th[t]) /\ (th[t].op \in {"open", "create"} => open[t] = None)
      /\ LockInv(lock, t, th[t]) /\ ViewInv(node, th[t]) /\ StableInv(node, th[t], open[t])
  BY Here
<1>2. /\ th[t].pc = "leave" /\ node' = fs_release_dentry_unlocked(fs_release_dentry_unlocked(node, p), q)
      /\ Unlock(t, ks) /\ open' = open /\ site' = site /\ forgot' = forgot /\ Goto(t, IF th[t].fd = None THEN Nothing ELSE back)
  BY DEF RenameLeave, At
<1>3. p \in Dirents /\ q \in Dirents /\ th[t].fd \in Dirents \cup {None}
  BY <1>1, <1>2 DEF LocalInv, Call
<1> HIDE DEF ks
<1>4. ASSUME th[t].fd = None, Goto(t, Nothing)
      PROVE  Inv'
  <2> DEFINE rec == Nothing
  <2>1. /\ rec \in Call /\ rec.op = "none" /\ rec.pc = "idle" /\ rec.flag = "none" /\ rec.path = << >>
        /\ rec.par = None /\ rec.d = None
        /\ rec.fdir = None /\ rec.tdir = None /\ rec.fd = None /\ rec.td = None /\ rec.req = None
    BY NothingFacts DEF Nothing
  <2> HIDE DEF rec
  <2>2. OpInv(rec) /\ LocalInv(rec) /\ rec.op \in {th[t].op, "none"}
    BY <1>1, <1>2, <1>3, <1>4, <2>1 DEF OpInv, LocalInv
  <2>3. LocksKept(t) /\ LockInv(lock', t, rec)
    <3>1. LocksKept(t)
      BY <1>1, <1>2, <1>3, <1>4, LockSteps, KeyFacts
    <3>2. QED
      BY <1>1, <1>2, <1>3, <1>4, <2>1, <3>1 DEF LockInv
  <2>4. ViewInv(node', rec)
    BY <1>1, <1>2, <1>3, <1>4, <2>1 DEF ViewInv
  <2>5. \A e \in Dirents : Num(Refs(rec, open[t]), e) = Num(Owned(t), e) - (N(e = p) + N(e = q))
    <3>1. th[t].d = None /\ th[t].par = None /\ th[t].fd = None /\ th[t].td = None
      BY <1>1, <1>2, <1>3, <1>4 DEF OpInv, LocalInv
    <3>2. QED
      BY <1>2, <1>3, <1>4, <2>1, <3>1, RootAssumption DEF Num, N, Refs, Owned
  <2>6. Arm(t, rec)
    BY <1>2, <1>3, <1>4, <2>1, <2>2, <2>3, <2>4 DEF Arm, Goto, rec
  <2>7. QED
    BY <1>2, <1>3, <1>4, <2>5, <2>6, ArmTaken, ReleaseTwo
<1>5. ASSUME th[t].fd # None, Goto(t, back)
      PROVE  Inv'
  <2> DEFINE rec == back
  <2>1. /\ rec \in Call /\ rec.op = th[t].op /\ rec.pc = "release" /\ rec.flag = th[t].flag
        /\ rec.path = th[t].path /\ rec.par = th[t].par /\ rec.d = th[t].fd
        /\ rec.fdir = None /\ rec.tdir = None /\ rec.fd = None /\ rec.td = th[t].td /\ rec.req = th[t].req
    <3>1. "release" \in Positions
      BY DEF Positions
    <3>2. QED
      BY <1>1, <1>2, <1>3, <1>5, <3>1 DEF Call
  <2> HIDE DEF rec
  <2>2. OpInv(rec) /\ LocalInv(rec) /\ rec.op \in {th[t].op, "none"}
    BY <1>1, <1>2, <1>3, <1>5, <2>1 DEF OpInv, LocalInv
  <2>3. LocksKept(t) /\ LockInv(lock', t, rec)
    <3>1. LocksKept(t)
      BY <1>1, <1>2, <1>3, <1>5, LockSteps, KeyFacts
    <3>2. QED
      BY <1>1, <1>2, <1>3, <1>5, <2>1, <3>1 DEF LockInv
  <2>4. ViewInv(node', rec)
    BY <1>1, <1>2, <1>3, <1>5, <2>1 DEF ViewInv
  <2>5. \A e \in Dirents : Num(Refs(rec, open[t]), e) = Num(Owned(t), e) - (N(e = p) + N(e = q))
    <3>1. th[t].d = None /\ th[t].par = None /\ th[t].td = None /\ th[t].op # "readdir"
      BY <1>1, <1>2, <1>3, <1>5 DEF OpInv, LocalInv
    <3>2. QED
      BY <1>2, <1>3, <1>5, <2>1, <3>1, RootAssumption DEF Num, N, Refs, Owned
  <2>6. Arm(t, rec)
    BY <1>2, <1>3, <1>5, <2>1, <2>2, <2>3, <2>4 DEF Arm, Goto, rec
  <2>7. QED
    BY <1>2, <1>3, <1>5, <2>5, <2>6, ArmTaken, ReleaseTwo
<1>6. QED
  BY <1>2, <1>4, <1>5

(* The source and the target are given back. *)
LEMMA StepRenameUndo ==
    ASSUME Inv, NEW t \in Threads, RenameUndo(t)
    PROVE  Inv'
<1> USE DEF LookupPc, CreatePc, UnlinkPc, FirstPc, TargetPc, BothPc, RenamePc
<1>1. /\ th[t] \in Call /\ open[t] \in Dirents \cup {None} /\ node \in Nodes /\ lock \in Locks /\ TreeOK(node)
      /\ OpInv(th[t]) /\ LocalInv(th[t]) /\ (th[t].op \in {"open", "create"} => open[t] = None)
      /\ LockInv(lock, t, th[t]) /\ ViewInv(node, th[t]) /\ StableInv(node, th[t], open[t])
  BY Here
<1>2. th[t].pc = "undo" /\ lock' = lock /\ open' = open /\ site' = site /\ forgot' = forgot
  BY DEF RenameUndo, At
<1>3. /\ th[t].fdir \in Dirents /\ th[t].tdir \in Dirents
      /\ th[t].fd \in Dirents \cup {None} /\ th[t].td \in Dirents \cup {None}
      /\ th[t].d = None /\ th[t].par = None
  BY <1>1, <1>2 DEF LocalInv, Call
<1>4. ASSUME th[t].fd # None, Goto(t, [th[t] EXCEPT !.fd = None]), th[t].fd = th[t].tdir, node' = Drop(node, th[t].fd)
      PROVE  Inv'
  <2> DEFINE p == th[t].fd
  <2> DEFINE rec == [th[t] EXCEPT !.fd = None]
  <2>1. /\ rec \in Call /\ rec.op = th[t].op /\ rec.pc = th[t].pc /\ rec.flag = th[t].flag
        /\ rec.path = th[t].path /\ rec.par = th[t].par /\ rec.d = th[t].d
        /\ rec.fdir = th[t].fdir /\ rec.tdir = th[t].tdir /\ rec.fd = None /\ rec.td = th[t].td
        /\ rec.req = th[t].req
    BY <1>1, <1>2 DEF Call
  <2> HIDE DEF rec
  <2>2. OpInv(rec) /\ LocalInv(rec) /\ rec.op \in {th[t].op, "none"}
    BY <1>1, <1>2, <1>3, <1>4, <2>1 DEF OpInv, LocalInv
  <2>3. LocksKept(t) /\ LockInv(lock', t, rec)
    <3>1. LocksKept(t)
      BY <1>1, <1>2, <1>3, <1>4, LockSteps, KeyFacts
    <3>2. QED
      BY <1>1, <1>2, <1>3, <1>4, <2>1, <3>1 DEF LockInv
  <2>4. ViewInv(node', rec)
    BY <1>1, <1>2, <1>3, <1>4, <2>1 DEF ViewInv
  <2>5. \A e \in Dirents : Num(Refs(rec, open[t]), e) = Num(Owned(t), e) - N(e = p)
    <3>1. th[t].op # "readdir" /\ p \in Dirents
      BY <1>1, <1>2, <1>3, <1>4 DEF OpInv, LocalInv
    <3>2. QED
      BY <1>2, <1>3, <1>4, <2>1, <3>1, RootAssumption DEF Num, N, Refs, Owned
  <2>6. Arm(t, rec)
    BY <1>2, <1>3, <1>4, <2>1, <2>2, <2>3, <2>4 DEF Arm, Goto, rec
  <2>7. Num(Refs(rec, open[t]), p) >= 1
    <3>1. Refs(rec, open[t])[4] = p /\ 4 \in 1 .. 7
      BY <1>4, <2>1 DEF Refs
    <3>2. Num(Refs(rec, open[t]), p) \in Nat /\ Num(Refs(rec, open[t]), p) > 0
      BY <3>1, NumSlot
    <3>3. QED
      BY <3>2
  <2>8. QED
    BY <1>2, <1>3, <1>4, <2>5, <2>6, <2>7, ArmTaken, DropOne
<1>5. ASSUME th[t].fd # None, Goto(t, [th[t] EXCEPT !.fd = None]), node' = fs_release_dentry_unlocked(node, th[t].fd)
      PROVE  Inv'
  <2> DEFINE p == th[t].fd
  <2> DEFINE rec == [th[t] EXCEPT !.fd = None]
  <2>1. /\ rec \in Call /\ rec.op = th[t].op /\ rec.pc = th[t].pc /\ rec.flag = th[t].flag
        /\ rec.path = th[t].path /\ rec.par = th[t].par /\ rec.d = th[t].d
        /\ rec.fdir = th[t].fdir /\ rec.tdir = th[t].tdir /\ rec.fd = None /\ rec.td = th[t].td
        /\ rec.req = th[t].req
    BY <1>1, <1>2 DEF Call
  <2> HIDE DEF rec
  <2>2. OpInv(rec) /\ LocalInv(rec) /\ rec.op \in {th[t].op, "none"}
    BY <1>1, <1>2, <1>3, <1>5, <2>1 DEF OpInv, LocalInv
  <2>3. LocksKept(t) /\ LockInv(lock', t, rec)
    <3>1. LocksKept(t)
      BY <1>1, <1>2, <1>3, <1>5, LockSteps, KeyFacts
    <3>2. QED
      BY <1>1, <1>2, <1>3, <1>5, <2>1, <3>1 DEF LockInv
  <2>4. ViewInv(node', rec)
    BY <1>1, <1>2, <1>3, <1>5, <2>1 DEF ViewInv
  <2>5. \A e \in Dirents : Num(Refs(rec, open[t]), e) = Num(Owned(t), e) - N(e = p)
    <3>1. th[t].op # "readdir" /\ p \in Dirents
      BY <1>1, <1>2, <1>3, <1>5 DEF OpInv, LocalInv
    <3>2. QED
      BY <1>2, <1>3, <1>5, <2>1, <3>1, RootAssumption DEF Num, N, Refs, Owned
  <2>6. Arm(t, rec)
    BY <1>2, <1>3, <1>5, <2>1, <2>2, <2>3, <2>4 DEF Arm, Goto, rec
  <2>7. QED
    BY <1>2, <1>3, <1>5, <2>5, <2>6, ArmTaken, ReleaseOne
<1>6. ASSUME th[t].td # None, Goto(t, [th[t] EXCEPT !.td = None]), th[t].td = th[t].fdir, node' = Drop(node, th[t].td)
      PROVE  Inv'
  <2> DEFINE p == th[t].td
  <2> DEFINE rec == [th[t] EXCEPT !.td = None]
  <2>1. /\ rec \in Call /\ rec.op = th[t].op /\ rec.pc = th[t].pc /\ rec.flag = th[t].flag
        /\ rec.path = th[t].path /\ rec.par = th[t].par /\ rec.d = th[t].d
        /\ rec.fdir = th[t].fdir /\ rec.tdir = th[t].tdir /\ rec.fd = th[t].fd /\ rec.td = None
        /\ rec.req = th[t].req
    BY <1>1, <1>2 DEF Call
  <2> HIDE DEF rec
  <2>2. OpInv(rec) /\ LocalInv(rec) /\ rec.op \in {th[t].op, "none"}
    BY <1>1, <1>2, <1>3, <1>6, <2>1 DEF OpInv, LocalInv
  <2>3. LocksKept(t) /\ LockInv(lock', t, rec)
    <3>1. LocksKept(t)
      BY <1>1, <1>2, <1>3, <1>6, LockSteps, KeyFacts
    <3>2. QED
      BY <1>1, <1>2, <1>3, <1>6, <2>1, <3>1 DEF LockInv
  <2>4. ViewInv(node', rec)
    BY <1>1, <1>2, <1>3, <1>6, <2>1 DEF ViewInv
  <2>5. \A e \in Dirents : Num(Refs(rec, open[t]), e) = Num(Owned(t), e) - N(e = p)
    <3>1. th[t].op # "readdir" /\ p \in Dirents
      BY <1>1, <1>2, <1>3, <1>6 DEF OpInv, LocalInv
    <3>2. QED
      BY <1>2, <1>3, <1>6, <2>1, <3>1, RootAssumption DEF Num, N, Refs, Owned
  <2>6. Arm(t, rec)
    BY <1>2, <1>3, <1>6, <2>1, <2>2, <2>3, <2>4 DEF Arm, Goto, rec
  <2>7. Num(Refs(rec, open[t]), p) >= 1
    <3>1. Refs(rec, open[t])[3] = p /\ 3 \in 1 .. 7
      BY <1>6, <2>1 DEF Refs
    <3>2. Num(Refs(rec, open[t]), p) \in Nat /\ Num(Refs(rec, open[t]), p) > 0
      BY <3>1, NumSlot
    <3>3. QED
      BY <3>2
  <2>8. QED
    BY <1>2, <1>3, <1>6, <2>5, <2>6, <2>7, ArmTaken, DropOne
<1>7. ASSUME th[t].td # None, Goto(t, [th[t] EXCEPT !.td = None]), node' = fs_release_dentry_unlocked(node, th[t].td)
      PROVE  Inv'
  <2> DEFINE p == th[t].td
  <2> DEFINE rec == [th[t] EXCEPT !.td = None]
  <2>1. /\ rec \in Call /\ rec.op = th[t].op /\ rec.pc = th[t].pc /\ rec.flag = th[t].flag
        /\ rec.path = th[t].path /\ rec.par = th[t].par /\ rec.d = th[t].d
        /\ rec.fdir = th[t].fdir /\ rec.tdir = th[t].tdir /\ rec.fd = th[t].fd /\ rec.td = None
        /\ rec.req = th[t].req
    BY <1>1, <1>2 DEF Call
  <2> HIDE DEF rec
  <2>2. OpInv(rec) /\ LocalInv(rec) /\ rec.op \in {th[t].op, "none"}
    BY <1>1, <1>2, <1>3, <1>7, <2>1 DEF OpInv, LocalInv
  <2>3. LocksKept(t) /\ LockInv(lock', t, rec)
    <3>1. LocksKept(t)
      BY <1>1, <1>2, <1>3, <1>7, LockSteps, KeyFacts
    <3>2. QED
      BY <1>1, <1>2, <1>3, <1>7, <2>1, <3>1 DEF LockInv
  <2>4. ViewInv(node', rec)
    BY <1>1, <1>2, <1>3, <1>7, <2>1 DEF ViewInv
  <2>5. \A e \in Dirents : Num(Refs(rec, open[t]), e) = Num(Owned(t), e) - N(e = p)
    <3>1. th[t].op # "readdir" /\ p \in Dirents
      BY <1>1, <1>2, <1>3, <1>7 DEF OpInv, LocalInv
    <3>2. QED
      BY <1>2, <1>3, <1>7, <2>1, <3>1, RootAssumption DEF Num, N, Refs, Owned
  <2>6. Arm(t, rec)
    BY <1>2, <1>3, <1>7, <2>1, <2>2, <2>3, <2>4 DEF Arm, Goto, rec
  <2>7. QED
    BY <1>2, <1>3, <1>7, <2>5, <2>6, ArmTaken, ReleaseOne
<1>8. ASSUME th[t].td = None, Goto(t, Set(t, "leave")), node' = node
      PROVE  Inv'
  <2> DEFINE rec == Set(t, "leave")
  <2>1. /\ rec \in Call /\ rec.op = th[t].op /\ rec.pc = "leave" /\ rec.flag = th[t].flag
        /\ rec.path = th[t].path /\ rec.par = th[t].par /\ rec.d = th[t].d
        /\ rec.fdir = th[t].fdir /\ rec.tdir = th[t].tdir /\ rec.fd = th[t].fd /\ rec.td = th[t].td
        /\ rec.req = th[t].req
    BY <1>1, <1>2, <1>3, <1>8, SetFacts DEF Positions
  <2> HIDE DEF rec
  <2>2. OpInv(rec) /\ LocalInv(rec) /\ rec.op \in {th[t].op, "none"}
    BY <1>1, <1>2, <1>3, <1>8, <2>1 DEF OpInv, LocalInv
  <2>3. LocksKept(t) /\ LockInv(lock', t, rec)
    <3>1. LocksKept(t)
      BY <1>1, <1>2, <1>3, <1>8, LockSteps, KeyFacts
    <3>2. QED
      BY <1>1, <1>2, <1>3, <1>8, <2>1, <3>1 DEF LockInv
  <2>4. ViewInv(node', rec)
    BY <1>1, <1>2, <1>3, <1>8, <2>1 DEF ViewInv
  <2>5. \A e \in Dirents : Num(Refs(rec, open[t]), e) = Num(Owned(t), e)
    BY <1>1, <1>2, <1>3, <1>8, <2>1, RootAssumption DEF Num, N, Refs, Owned, OpInv, LocalInv
  <2>6. Arm(t, rec)
    BY <1>2, <1>3, <1>8, <2>1, <2>2, <2>3, <2>4 DEF Arm, Goto, rec
  <2>7. QED
    BY <1>2, <1>3, <1>8, <2>5, <2>6, CalmStep
<1>9. QED
  BY <1>4, <1>5, <1>6, <1>7, <1>8 DEF RenameUndo, At

(* The two names are looked up. *)
LEMMA StepRenameFind ==
    ASSUME Inv, NEW t \in Threads, RenameFind(t)
    PROVE  Inv'
<1> USE DEF LookupPc, CreatePc, UnlinkPc, FirstPc, TargetPc, BothPc, RenamePc
<1> DEFINE target == (th[t].pc = "first_find") <=> (th[t].flag = "target_first")
           c == IF target THEN node[th[t].tdir].child[th[t].req.toname] ELSE node[th[t].fdir].child[th[t].req.name]
           next == IF th[t].pc = "first_find" THEN "second" ELSE "check"
           to == [th[t] EXCEPT !.td = IF target THEN c ELSE @, !.fd = IF target THEN @ ELSE c, !.pc = next]
<1>1. /\ th[t] \in Call /\ open[t] \in Dirents \cup {None} /\ node \in Nodes /\ lock \in Locks /\ TreeOK(node)
      /\ OpInv(th[t]) /\ LocalInv(th[t]) /\ (th[t].op \in {"open", "create"} => open[t] = None)
      /\ LockInv(lock, t, th[t]) /\ ViewInv(node, th[t]) /\ StableInv(node, th[t], open[t])
  BY Here
<1>2. lock' = lock /\ open' = open /\ site' = site /\ forgot' = forgot /\ th[t].pc \in {"first_find", "second_find"}
  BY DEF RenameFind, At
<1>3. /\ th[t].fdir \in Dirents /\ th[t].tdir \in Dirents /\ th[t].d = None /\ th[t].par = None
      /\ th[t].fd \in Dirents \cup {None} /\ th[t].td \in Dirents \cup {None}
      /\ th[t].req \in Request /\ th[t].op = "rename"
  BY <1>1, <1>2 DEF OpInv, LocalInv, Call
<1>4. /\ target => th[t].td = None
      /\ ~target => th[t].fd = None
      /\ th[t].pc = "first_find" => th[t].td = None /\ th[t].fd = None
  BY <1>1, <1>2 DEF LocalInv, ViewInv
<1>5. c \in Dirents \cup {None} /\ (c # None => Linked(node, c))
  <2>1. th[t].req.name \in Names /\ th[t].req.toname \in Names
    BY <1>3 DEF Request
  <2>2. QED
    BY <1>1, <1>3, <2>1 DEF Nodes, Dentry, Linked
<1>6. /\ next \in {"second", "check"} /\ next \in Positions
      /\ next = "second" <=> th[t].pc = "first_find"
      /\ target <=> ((th[t].pc = "first_find") <=> (th[t].flag = "target_first"))
      /\ c = IF target THEN node[th[t].tdir].child[th[t].req.toname] ELSE node[th[t].fdir].child[th[t].req.name]
      /\ target \in BOOLEAN
  BY <1>2 DEF Positions
<1>7. \/ c # None /\ node' = Take(node, c) /\ Goto(t, to)
      \/ c = None /\ node' = node /\ Goto(t, to)
      \/ target /\ next = "check" /\ th[t].fd = None /\ node' = node /\ Goto(t, Set(t, "check"))
  BY DEF RenameFind
<1>8. target => to = [th[t] EXCEPT !.td = c, !.pc = next]
  BY <1>1 DEF Call
<1>9. ~target => to = [th[t] EXCEPT !.fd = c, !.pc = next]
  BY <1>1 DEF Call
<1> HIDE DEF c, next, target, to
<1>10. ASSUME target, c # None, node' = Take(node, c), Goto(t, [th[t] EXCEPT !.td = c, !.pc = next])
      PROVE  Inv'
  <2>1. \A e \in Dirents : node'[e].child = node[e].child
    BY <1>1, <1>5, <1>10, TakeEffect DEF SameShape
  <2> DEFINE rec == [th[t] EXCEPT !.td = c, !.pc = next]
  <2>2. /\ rec \in Call /\ rec.op = th[t].op /\ rec.pc = next /\ rec.flag = th[t].flag
        /\ rec.path = th[t].path /\ rec.par = th[t].par /\ rec.d = th[t].d
        /\ rec.fdir = th[t].fdir /\ rec.tdir = th[t].tdir /\ rec.fd = th[t].fd /\ rec.td = c /\ rec.req = th[t].req
    BY <1>1, <1>2, <1>3, <1>4, <1>5, <1>6, <1>10 DEF Call
  <2> HIDE DEF rec
  <2>3. OpInv(rec) /\ LocalInv(rec) /\ rec.op \in {th[t].op, "none"}
    BY <1>1, <1>2, <1>3, <1>4, <1>5, <1>6, <1>10, <2>1, <2>2 DEF OpInv, LocalInv
  <2>4. LocksKept(t) /\ LockInv(lock', t, rec)
    <3>1. LocksKept(t)
      BY <1>1, <1>2, <1>3, <1>4, <1>5, <1>6, <1>10, <2>1, LockSteps, KeyFacts
    <3>2. QED
      BY <1>1, <1>2, <1>3, <1>4, <1>5, <1>6, <1>10, <2>1, <2>2, <3>1 DEF LockInv, First
  <2>5. ViewInv(node', rec)
    BY <1>1, <1>2, <1>3, <1>4, <1>5, <1>6, <1>10, <2>1, <2>2 DEF ViewInv
  <2>6. \A e \in Dirents : Num(Refs(rec, open[t]), e) = Num(Owned(t), e) + N(e = c)
    <3>1. /\ rec.op # "readdir" /\ th[t].op # "readdir" /\ rec.pc \notin {"enter", "hop"}
          /\ th[t].pc \notin {"enter", "hop"}
      BY <1>2, <1>3, <1>6, <2>2
    <3>2. QED
      BY <1>3, <1>4, <1>5, <1>10, <2>2, <3>1, RootAssumption DEF Num, N, Refs, Owned
  <2>7. Arm(t, rec)
    BY <1>2, <1>3, <1>4, <1>5, <1>6, <1>10, <2>1, <2>2, <2>3, <2>4, <2>5 DEF Arm, Goto, rec
  <2>8. QED
    BY <1>2, <1>5, <1>10, <2>6, <2>7, ArmTaken, TakeOne
<1>11. ASSUME target, c = None, node' = node, Goto(t, [th[t] EXCEPT !.td = c, !.pc = next])
      PROVE  Inv'
  <2> DEFINE rec == [th[t] EXCEPT !.td = c, !.pc = next]
  <2>1. /\ rec \in Call /\ rec.op = th[t].op /\ rec.pc = next /\ rec.flag = th[t].flag
        /\ rec.path = th[t].path /\ rec.par = th[t].par /\ rec.d = th[t].d
        /\ rec.fdir = th[t].fdir /\ rec.tdir = th[t].tdir /\ rec.fd = th[t].fd /\ rec.td = c /\ rec.req = th[t].req
    BY <1>1, <1>2, <1>3, <1>4, <1>5, <1>6, <1>11 DEF Call
  <2> HIDE DEF rec
  <2>2. OpInv(rec) /\ LocalInv(rec) /\ rec.op \in {th[t].op, "none"}
    BY <1>1, <1>2, <1>3, <1>4, <1>5, <1>6, <1>11, <2>1 DEF OpInv, LocalInv
  <2>3. LocksKept(t) /\ LockInv(lock', t, rec)
    <3>1. LocksKept(t)
      BY <1>1, <1>2, <1>3, <1>4, <1>5, <1>6, <1>11, LockSteps, KeyFacts
    <3>2. QED
      BY <1>1, <1>2, <1>3, <1>4, <1>5, <1>6, <1>11, <2>1, <3>1 DEF LockInv, First
  <2>4. ViewInv(node', rec)
    BY <1>1, <1>2, <1>3, <1>4, <1>5, <1>6, <1>11, <2>1 DEF ViewInv
  <2>5. \A e \in Dirents : Num(Refs(rec, open[t]), e) = Num(Owned(t), e)
    <3>1. /\ rec.op # "readdir" /\ th[t].op # "readdir" /\ rec.pc \notin {"enter", "hop"}
          /\ th[t].pc \notin {"enter", "hop"}
      BY <1>2, <1>3, <1>6, <2>1
    <3>2. QED
      BY <1>3, <1>4, <1>5, <1>11, <2>1, <3>1, RootAssumption DEF Num, N, Refs, Owned
  <2>6. Arm(t, rec)
    BY <1>2, <1>3, <1>4, <1>5, <1>6, <1>11, <2>1, <2>2, <2>3, <2>4 DEF Arm, Goto, rec
  <2>7. QED
    BY <1>2, <1>3, <1>4, <1>5, <1>6, <1>11, <2>5, <2>6, CalmStep
<1>12. ASSUME ~target, c # None, node' = Take(node, c), Goto(t, [th[t] EXCEPT !.fd = c, !.pc = next])
      PROVE  Inv'
  <2>1. \A e \in Dirents : node'[e].child = node[e].child
    BY <1>1, <1>5, <1>12, TakeEffect DEF SameShape
  <2> DEFINE rec == [th[t] EXCEPT !.fd = c, !.pc = next]
  <2>2. /\ rec \in Call /\ rec.op = th[t].op /\ rec.pc = next /\ rec.flag = th[t].flag
        /\ rec.path = th[t].path /\ rec.par = th[t].par /\ rec.d = th[t].d
        /\ rec.fdir = th[t].fdir /\ rec.tdir = th[t].tdir /\ rec.fd = c /\ rec.td = th[t].td /\ rec.req = th[t].req
    BY <1>1, <1>2, <1>3, <1>4, <1>5, <1>6, <1>12 DEF Call
  <2> HIDE DEF rec
  <2>3. OpInv(rec) /\ LocalInv(rec) /\ rec.op \in {th[t].op, "none"}
    BY <1>1, <1>2, <1>3, <1>4, <1>5, <1>6, <1>12, <2>1, <2>2 DEF OpInv, LocalInv
  <2>4. LocksKept(t) /\ LockInv(lock', t, rec)
    <3>1. LocksKept(t)
      BY <1>1, <1>2, <1>3, <1>4, <1>5, <1>6, <1>12, <2>1, LockSteps, KeyFacts
    <3>2. QED
      BY <1>1, <1>2, <1>3, <1>4, <1>5, <1>6, <1>12, <2>1, <2>2, <3>1 DEF LockInv, First
  <2>5. ViewInv(node', rec)
    BY <1>1, <1>2, <1>3, <1>4, <1>5, <1>6, <1>12, <2>1, <2>2 DEF ViewInv
  <2>6. \A e \in Dirents : Num(Refs(rec, open[t]), e) = Num(Owned(t), e) + N(e = c)
    <3>1. /\ rec.op # "readdir" /\ th[t].op # "readdir" /\ rec.pc \notin {"enter", "hop"}
          /\ th[t].pc \notin {"enter", "hop"}
      BY <1>2, <1>3, <1>6, <2>2
    <3>2. QED
      BY <1>3, <1>4, <1>5, <1>12, <2>2, <3>1, RootAssumption DEF Num, N, Refs, Owned
  <2>7. Arm(t, rec)
    BY <1>2, <1>3, <1>4, <1>5, <1>6, <1>12, <2>1, <2>2, <2>3, <2>4, <2>5 DEF Arm, Goto, rec
  <2>8. QED
    BY <1>2, <1>5, <1>12, <2>6, <2>7, ArmTaken, TakeOne
<1>13. ASSUME ~target, c = None, node' = node, Goto(t, [th[t] EXCEPT !.fd = c, !.pc = next])
      PROVE  Inv'
  <2> DEFINE rec == [th[t] EXCEPT !.fd = c, !.pc = next]
  <2>1. /\ rec \in Call /\ rec.op = th[t].op /\ rec.pc = next /\ rec.flag = th[t].flag
        /\ rec.path = th[t].path /\ rec.par = th[t].par /\ rec.d = th[t].d
        /\ rec.fdir = th[t].fdir /\ rec.tdir = th[t].tdir /\ rec.fd = c /\ rec.td = th[t].td /\ rec.req = th[t].req
    BY <1>1, <1>2, <1>3, <1>4, <1>5, <1>6, <1>13 DEF Call
  <2> HIDE DEF rec
  <2>2. OpInv(rec) /\ LocalInv(rec) /\ rec.op \in {th[t].op, "none"}
    BY <1>1, <1>2, <1>3, <1>4, <1>5, <1>6, <1>13, <2>1 DEF OpInv, LocalInv
  <2>3. LocksKept(t) /\ LockInv(lock', t, rec)
    <3>1. LocksKept(t)
      BY <1>1, <1>2, <1>3, <1>4, <1>5, <1>6, <1>13, LockSteps, KeyFacts
    <3>2. QED
      BY <1>1, <1>2, <1>3, <1>4, <1>5, <1>6, <1>13, <2>1, <3>1 DEF LockInv, First
  <2>4. ViewInv(node', rec)
    BY <1>1, <1>2, <1>3, <1>4, <1>5, <1>6, <1>13, <2>1 DEF ViewInv
  <2>5. \A e \in Dirents : Num(Refs(rec, open[t]), e) = Num(Owned(t), e)
    <3>1. /\ rec.op # "readdir" /\ th[t].op # "readdir" /\ rec.pc \notin {"enter", "hop"}
          /\ th[t].pc \notin {"enter", "hop"}
      BY <1>2, <1>3, <1>6, <2>1
    <3>2. QED
      BY <1>3, <1>4, <1>5, <1>13, <2>1, <3>1, RootAssumption DEF Num, N, Refs, Owned
  <2>6. Arm(t, rec)
    BY <1>2, <1>3, <1>4, <1>5, <1>6, <1>13, <2>1, <2>2, <2>3, <2>4 DEF Arm, Goto, rec
  <2>7. QED
    BY <1>2, <1>3, <1>4, <1>5, <1>6, <1>13, <2>5, <2>6, CalmStep
<1>14. ASSUME target, next = "check", th[t].fd = None, node' = node, Goto(t, Set(t, "check"))
      PROVE  Inv'
  <2> DEFINE rec == Set(t, "check")
  <2>1. /\ rec \in Call /\ rec.op = th[t].op /\ rec.pc = "check" /\ rec.flag = th[t].flag
        /\ rec.path = th[t].path /\ rec.par = th[t].par /\ rec.d = th[t].d
        /\ rec.fdir = th[t].fdir /\ rec.tdir = th[t].tdir /\ rec.fd = th[t].fd /\ rec.td = th[t].td
        /\ rec.req = th[t].req
    BY <1>1, <1>2, <1>3, <1>4, <1>5, <1>6, <1>14, SetFacts DEF Positions
  <2> HIDE DEF rec
  <2>2. OpInv(rec) /\ LocalInv(rec) /\ rec.op \in {th[t].op, "none"}
    BY <1>1, <1>2, <1>3, <1>4, <1>5, <1>6, <1>14, <2>1 DEF OpInv, LocalInv
  <2>3. LocksKept(t) /\ LockInv(lock', t, rec)
    <3>1. LocksKept(t)
      BY <1>1, <1>2, <1>3, <1>4, <1>5, <1>6, <1>14, LockSteps, KeyFacts
    <3>2. QED
      BY <1>1, <1>2, <1>3, <1>4, <1>5, <1>6, <1>14, <2>1, <3>1 DEF LockInv
  <2>4. ViewInv(node', rec)
    BY <1>1, <1>2, <1>3, <1>4, <1>5, <1>6, <1>14, <2>1 DEF ViewInv
  <2>5. \A e \in Dirents : Num(Refs(rec, open[t]), e) = Num(Owned(t), e)
    BY <1>1, <1>2, <1>3, <1>4, <1>5, <1>6, <1>14, <2>1, RootAssumption DEF Num, N, Refs, Owned, OpInv, LocalInv
  <2>6. Arm(t, rec)
    BY <1>2, <1>3, <1>4, <1>5, <1>6, <1>14, <2>1, <2>2, <2>3, <2>4 DEF Arm, Goto, rec
  <2>7. QED
    BY <1>2, <1>3, <1>4, <1>5, <1>6, <1>14, <2>5, <2>6, CalmStep
<1>15. QED
  BY <1>7, <1>8, <1>9, <1>10, <1>11, <1>12, <1>13, <1>14

(* Every dentry is its own predecessor. *)
LEMMA SelfPredecessor ==
    ASSUME NEW n, NEW d \in Dirents
    PROVE  fs_is_predecessor(n, d, d)
BY RootAssumption DEF fs_is_predecessor, Reached

(* The source and the target are looked at. *)
LEMMA StepRenameCheck ==
    ASSUME Inv, NEW t \in Threads, RenameCheck(t)
    PROVE  Inv'
<1> USE DEF LookupPc, CreatePc, UnlinkPc, FirstPc, TargetPc, BothPc, RenamePc
<1> DEFINE f == th[t].fd
           g == th[t].td
<1>1. /\ th[t] \in Call /\ open[t] \in Dirents \cup {None} /\ node \in Nodes /\ lock \in Locks /\ TreeOK(node)
      /\ OpInv(th[t]) /\ LocalInv(th[t]) /\ (th[t].op \in {"open", "create"} => open[t] = None)
      /\ LockInv(lock, t, th[t]) /\ ViewInv(node, th[t]) /\ StableInv(node, th[t], open[t])
  BY Here
<1>2. /\ th[t].pc = "check" /\ node' = node /\ open' = open /\ site' = site /\ (forgot => forgot')
  BY DEF RenameCheck, At
<1>3. /\ th[t].fdir \in Dirents /\ th[t].tdir \in Dirents /\ th[t].d = None /\ th[t].par = None
      /\ f \in Dirents \cup {None} /\ g \in Dirents \cup {None}
      /\ th[t].req \in Request /\ th[t].op = "rename"
      /\ th[t].req.name \in Names /\ th[t].req.toname \in Names
  BY <1>1, <1>2 DEF OpInv, LocalInv, Call, Request
<1>4. /\ lock[C(th[t].fdir)].w = t /\ lock[C(th[t].tdir)].w = t
      /\ f = None \/ (f = node[th[t].fdir].child[th[t].req.name] /\ g = node[th[t].tdir].child[th[t].req.toname])
  BY <1>1, <1>2 DEF LockInv, ViewInv
<1>5. f # None => g # th[t].tdir
  BY <1>1, <1>3, <1>4, RootAssumption DEF TreeOK
<1>6. ASSUME lock' = lock, Goto(t, Set(t, "undo"))
      PROVE  Inv'
  <2> DEFINE rec == Set(t, "undo")
  <2>1. /\ rec \in Call /\ rec.op = th[t].op /\ rec.pc = "undo" /\ rec.flag = th[t].flag
        /\ rec.path = th[t].path /\ rec.par = th[t].par /\ rec.d = th[t].d
        /\ rec.fdir = th[t].fdir /\ rec.tdir = th[t].tdir /\ rec.fd = th[t].fd /\ rec.td = th[t].td
        /\ rec.req = th[t].req
    BY <1>1, <1>2, <1>3, <1>6, SetFacts DEF Positions
  <2> HIDE DEF rec
  <2>2. OpInv(rec) /\ LocalInv(rec) /\ rec.op \in {th[t].op, "none"}
    BY <1>1, <1>2, <1>3, <1>6, <2>1 DEF OpInv, LocalInv
  <2>3. LocksKept(t) /\ LockInv(lock', t, rec)
    <3>1. LocksKept(t)
      BY <1>1, <1>2, <1>3, <1>6, LockSteps, KeyFacts
    <3>2. QED
      BY <1>1, <1>2, <1>3, <1>6, <2>1, <3>1 DEF LockInv
  <2>4. ViewInv(node', rec)
    BY <1>1, <1>2, <1>3, <1>6, <2>1 DEF ViewInv
  <2>5. \A e \in Dirents : Num(Refs(rec, open[t]), e) = Num(Owned(t), e)
    BY <1>1, <1>2, <1>3, <1>6, <2>1, RootAssumption DEF Num, N, Refs, Owned, OpInv, LocalInv
  <2>6. Arm(t, rec)
    BY <1>2, <1>3, <1>6, <2>1, <2>2, <2>3, <2>4 DEF Arm, Goto, rec
  <2>7. QED
    BY <1>2, <1>3, <1>6, <2>5, <2>6, CalmStep
<1>7. ASSUME forgot' = (forgot \/ g # None), lock' = lock, Goto(t, [th[t] EXCEPT !.td = None, !.pc = "undo"])
      PROVE  Inv'
  <2> DEFINE rec == [th[t] EXCEPT !.td = None, !.pc = "undo"]
  <2>1. /\ rec \in Call /\ rec.op = th[t].op /\ rec.pc = "undo" /\ rec.flag = th[t].flag
        /\ rec.path = th[t].path /\ rec.par = th[t].par /\ rec.d = th[t].d
        /\ rec.fdir = th[t].fdir /\ rec.tdir = th[t].tdir /\ rec.fd = th[t].fd /\ rec.td = None
        /\ rec.req = th[t].req
    <3>1. "undo" \in Positions
      BY DEF Positions
    <3>2. QED
      BY <1>1, <1>2, <1>3, <1>7, <3>1 DEF Call
  <2> HIDE DEF rec
  <2>2. OpInv(rec) /\ LocalInv(rec) /\ rec.op \in {th[t].op, "none"}
    BY <1>1, <1>2, <1>3, <1>7, <2>1 DEF OpInv, LocalInv
  <2>3. LocksKept(t) /\ LockInv(lock', t, rec)
    <3>1. LocksKept(t)
      BY <1>1, <1>2, <1>3, <1>7, LockSteps, KeyFacts
    <3>2. QED
      BY <1>1, <1>2, <1>3, <1>7, <2>1, <3>1 DEF LockInv
  <2>4. ViewInv(node', rec)
    BY <1>1, <1>2, <1>3, <1>7, <2>1 DEF ViewInv
  <2>5. \A e \in Dirents : /\ Num(Refs(rec, open[t]), e) <= Num(Owned(t), e)
                           /\ ~forgot' => Num(Refs(rec, open[t]), e) = Num(Owned(t), e)
    <3>1. rec.op # "readdir" /\ th[t].op # "readdir" /\ (~forgot' => g = None)
      BY <1>3, <1>7, <2>1
    <3>2. QED
      BY <1>2, <1>3, <2>1, <3>1, RootAssumption DEF Num, N, Refs, Owned
  <2>6. Arm(t, rec)
    BY <1>2, <1>3, <1>7, <2>1, <2>2, <2>3, <2>4 DEF Arm, Goto, rec
  <2>7. QED
    BY <1>2, <1>3, <1>7, <2>5, <2>6, ArmTaken, Calm
<1>8. ASSUME f # None, f # th[t].tdir, g = None, lock' = lock, Goto(t, Set(t, "move"))
      PROVE  Inv'
  <2> DEFINE rec == Set(t, "move")
  <2>1. /\ rec \in Call /\ rec.op = th[t].op /\ rec.pc = "move" /\ rec.flag = th[t].flag
        /\ rec.path = th[t].path /\ rec.par = th[t].par /\ rec.d = th[t].d
        /\ rec.fdir = th[t].fdir /\ rec.tdir = th[t].tdir /\ rec.fd = th[t].fd /\ rec.td = th[t].td
        /\ rec.req = th[t].req
    BY <1>1, <1>2, <1>3, <1>4, <1>8, SetFacts DEF Positions
  <2> HIDE DEF rec
  <2>2. OpInv(rec) /\ LocalInv(rec) /\ rec.op \in {th[t].op, "none"}
    BY <1>1, <1>2, <1>3, <1>4, <1>8, <2>1 DEF OpInv, LocalInv
  <2>3. LocksKept(t) /\ LockInv(lock', t, rec)
    <3>1. LocksKept(t)
      BY <1>1, <1>2, <1>3, <1>4, <1>8, LockSteps, KeyFacts
    <3>2. QED
      BY <1>1, <1>2, <1>3, <1>4, <1>8, <2>1, <3>1 DEF LockInv
  <2>4. ViewInv(node', rec)
    BY <1>1, <1>2, <1>3, <1>4, <1>8, <2>1 DEF ViewInv
  <2>5. \A e \in Dirents : Num(Refs(rec, open[t]), e) = Num(Owned(t), e)
    BY <1>1, <1>2, <1>3, <1>4, <1>8, <2>1, RootAssumption DEF Num, N, Refs, Owned, OpInv, LocalInv
  <2>6. Arm(t, rec)
    BY <1>2, <1>3, <1>4, <1>8, <2>1, <2>2, <2>3, <2>4 DEF Arm, Goto, rec
  <2>7. QED
    BY <1>2, <1>3, <1>4, <1>8, <2>5, <2>6, CalmStep
<1>9. ASSUME f # None, f # th[t].tdir, g = f, lock' = lock, Goto(t, Set(t, "same"))
      PROVE  Inv'
  <2> DEFINE rec == Set(t, "same")
  <2>1. /\ rec \in Call /\ rec.op = th[t].op /\ rec.pc = "same" /\ rec.flag = th[t].flag
        /\ rec.path = th[t].path /\ rec.par = th[t].par /\ rec.d = th[t].d
        /\ rec.fdir = th[t].fdir /\ rec.tdir = th[t].tdir /\ rec.fd = th[t].fd /\ rec.td = th[t].td
        /\ rec.req = th[t].req
    BY <1>1, <1>2, <1>3, <1>4, <1>9, SetFacts DEF Positions
  <2> HIDE DEF rec
  <2>2. OpInv(rec) /\ LocalInv(rec) /\ rec.op \in {th[t].op, "none"}
    BY <1>1, <1>2, <1>3, <1>4, <1>9, <2>1 DEF OpInv, LocalInv
  <2>3. LocksKept(t) /\ LockInv(lock', t, rec)
    <3>1. LocksKept(t)
      BY <1>1, <1>2, <1>3, <1>4, <1>9, LockSteps, KeyFacts
    <3>2. QED
      BY <1>1, <1>2, <1>3, <1>4, <1>9, <2>1, <3>1 DEF LockInv
  <2>4. ViewInv(node', rec)
    BY <1>1, <1>2, <1>3, <1>4, <1>9, <2>1 DEF ViewInv
  <2>5. \A e \in Dirents : Num(Refs(rec, open[t]), e) = Num(Owned(t), e)
    BY <1>1, <1>2, <1>3, <1>4, <1>9, <2>1, RootAssumption DEF Num, N, Refs, Owned, OpInv, LocalInv
  <2>6. Arm(t, rec)
    BY <1>2, <1>3, <1>4, <1>9, <2>1, <2>2, <2>3, <2>4 DEF Arm, Goto, rec
  <2>7. QED
    BY <1>2, <1>3, <1>4, <1>9, <2>5, <2>6, CalmStep
<1>10. ASSUME f # None, f # th[t].tdir, g \notin {None, f}, lock' = lock, Goto(t, Set(t, "replace"))
      PROVE  Inv'
  <2> DEFINE rec == Set(t, "replace")
  <2>1. /\ rec \in Call /\ rec.op = th[t].op /\ rec.pc = "replace" /\ rec.flag = th[t].flag
        /\ rec.path = th[t].path /\ rec.par = th[t].par /\ rec.d = th[t].d
        /\ rec.fdir = th[t].fdir /\ rec.tdir = th[t].tdir /\ rec.fd = th[t].fd /\ rec.td = th[t].td
        /\ rec.req = th[t].req
    BY <1>1, <1>2, <1>3, <1>4, <1>10, SetFacts DEF Positions
  <2> HIDE DEF rec
  <2>2. OpInv(rec) /\ LocalInv(rec) /\ rec.op \in {th[t].op, "none"}
    BY <1>1, <1>2, <1>3, <1>4, <1>10, <2>1 DEF OpInv, LocalInv
  <2>3. LocksKept(t) /\ LockInv(lock', t, rec)
    <3>1. LocksKept(t)
      BY <1>1, <1>2, <1>3, <1>4, <1>10, LockSteps, KeyFacts
    <3>2. QED
      BY <1>1, <1>2, <1>3, <1>4, <1>10, <2>1, <3>1 DEF LockInv
  <2>4. ViewInv(node', rec)
    BY <1>1, <1>2, <1>3, <1>4, <1>10, <2>1 DEF ViewInv
  <2>5. \A e \in Dirents : Num(Refs(rec, open[t]), e) = Num(Owned(t), e)
    BY <1>1, <1>2, <1>3, <1>4, <1>10, <2>1, RootAssumption DEF Num, N, Refs, Owned, OpInv, LocalInv
  <2>6. Arm(t, rec)
    BY <1>2, <1>3, <1>4, <1>10, <2>1, <2>2, <2>3, <2>4 DEF Arm, Goto, rec
  <2>7. QED
    BY <1>2, <1>3, <1>4, <1>10, <2>5, <2>6, CalmStep
<1>11. ASSUME f # None, f # th[t].tdir, g \notin {None, f}, g # th[t].fdir, Read(t, C(g)), Goto(t, Set(t, "target_empty"))
      PROVE  Inv'
  <2>1. C(g) \in Keys
    BY <1>3, <1>11, KeyFacts
  <2> DEFINE rec == Set(t, "target_empty")
  <2>2. /\ rec \in Call /\ rec.op = th[t].op /\ rec.pc = "target_empty" /\ rec.flag = th[t].flag
        /\ rec.path = th[t].path /\ rec.par = th[t].par /\ rec.d = th[t].d
        /\ rec.fdir = th[t].fdir /\ rec.tdir = th[t].tdir /\ rec.fd = th[t].fd /\ rec.td = th[t].td
        /\ rec.req = th[t].req
    BY <1>1, <1>2, <1>3, <1>4, <1>5, <1>11, <2>1, SetFacts DEF Positions
  <2> HIDE DEF rec
  <2>3. OpInv(rec) /\ LocalInv(rec) /\ rec.op \in {th[t].op, "none"}
    BY <1>1, <1>2, <1>3, <1>4, <1>5, <1>11, <2>1, <2>2 DEF OpInv, LocalInv
  <2>4. LocksKept(t) /\ LockInv(lock', t, rec)
    <3>1. LocksKept(t) /\ HeldKept(t)
      BY <1>1, <1>2, <1>3, <1>4, <1>5, <1>11, <2>1, LockSteps, KeyFacts
    <3>2. QED
      BY <1>1, <1>2, <1>3, <1>4, <1>5, <1>11, <2>1, <2>2, <3>1 DEF LockInv, HeldKept
  <2>5. ViewInv(node', rec)
    BY <1>1, <1>2, <1>3, <1>4, <1>5, <1>11, <2>1, <2>2 DEF ViewInv
  <2>6. \A e \in Dirents : Num(Refs(rec, open[t]), e) = Num(Owned(t), e)
    BY <1>1, <1>2, <1>3, <1>4, <1>5, <1>11, <2>1, <2>2, RootAssumption DEF Num, N, Refs, Owned, OpInv, LocalInv
  <2>7. Arm(t, rec)
    BY <1>2, <1>3, <1>4, <1>5, <1>11, <2>1, <2>2, <2>3, <2>4, <2>5 DEF Arm, Goto, rec
  <2>8. QED
    BY <1>2, <1>3, <1>4, <1>5, <1>11, <2>1, <2>6, <2>7, CalmStep
<1>12. CASE f = None \/ fs_is_predecessor(node, f, th[t].tdir) \/ (g # None /\ fs_is_predecessor(node, g, th[t].fdir))
  BY <1>6, <1>12 DEF RenameCheck
<1>13. CASE ~(f = None \/ fs_is_predecessor(node, f, th[t].tdir) \/ (g # None /\ fs_is_predecessor(node, g, th[t].fdir)))
  <2>1. f # None /\ f # th[t].tdir /\ (g # None => g # th[t].fdir)
    BY <1>3, <1>13, SelfPredecessor
  <2>2. \/ forgot' = (forgot \/ g # None) /\ lock' = lock /\ Goto(t, [th[t] EXCEPT !.td = None, !.pc = "undo"])
        \/ lock' = lock /\ Goto(t, Set(t, "undo"))
        \/ g = None /\ lock' = lock /\ Goto(t, Set(t, "move"))
        \/ g = f /\ lock' = lock /\ Goto(t, Set(t, "same"))
        \/ g \notin {None, f} /\ lock' = lock /\ Goto(t, Set(t, "replace"))
        \/ g \notin {None, f} /\ Read(t, C(g)) /\ Goto(t, Set(t, "target_empty"))
    BY <1>13 DEF RenameCheck
  <2>3. QED
    BY <2>1, <2>2, <1>6, <1>7, <1>8, <1>9, <1>10, <1>11
<1>14. QED
  BY <1>12, <1>13

(* A thread that goes on has the locks it passed the gates of for itself. *)
LEMMA Alone ==
    ASSUME NEW t, NEW d \in Dirents, Ready(t), lock[C(d)].w = t
    PROVE  lock[C(d)].w = t /\ lock[C(d)].r = {}
BY KeyFacts DEF Ready

(* The name is looked up, and a dentry allocated. *)
LEMMA StepCreateFind ==
    ASSUME Inv, NEW t \in Threads, CreateFind(t)
    PROVE  Inv'
<1> USE DEF LookupPc, CreatePc, UnlinkPc, FirstPc, TargetPc, BothPc, RenamePc
<1> DEFINE p == th[t].tdir
           c == node[p].child[th[t].req.name]
           new == {e \in Dirents : node[e].k = "free"}
<1>1. /\ th[t] \in Call /\ open[t] \in Dirents \cup {None} /\ node \in Nodes /\ lock \in Locks /\ TreeOK(node)
      /\ OpInv(th[t]) /\ LocalInv(th[t]) /\ (th[t].op \in {"open", "create"} => open[t] = None)
      /\ LockInv(lock, t, th[t]) /\ ViewInv(node, th[t]) /\ StableInv(node, th[t], open[t])
  BY Here
<1>2. th[t].pc = "create" /\ open' = open /\ site' = site /\ forgot' = forgot
  BY DEF CreateFind, At
<1>3. /\ p \in Dirents /\ th[t].req \in Request /\ th[t].op = "create" /\ open[t] = None
      /\ th[t].req.name \in Names /\ th[t].req.dir \in BOOLEAN
      /\ th[t].d = None /\ th[t].par = None /\ th[t].fdir = None /\ th[t].fd = None /\ th[t].td = None
  BY <1>1, <1>2 DEF OpInv, LocalInv, Call, Request
<1>4. c \in Dirents \cup {None} /\ (c # None => Linked(node, c))
  BY <1>1, <1>3 DEF Nodes, Dentry, Linked
<1>5. lock[C(p)].w = t
  BY <1>1, <1>2 DEF LockInv
<1>6. ASSUME Unlock(t, {C(p)}), Goto(t, Set(t, "release_parent")), node' = node
      PROVE  Inv'
  <2> DEFINE rec == Set(t, "release_parent")
  <2>1. /\ rec \in Call /\ rec.op = th[t].op /\ rec.pc = "release_parent" /\ rec.flag = th[t].flag
        /\ rec.path = th[t].path /\ rec.par = th[t].par /\ rec.d = th[t].d
        /\ rec.fdir = th[t].fdir /\ rec.tdir = th[t].tdir /\ rec.fd = th[t].fd /\ rec.td = th[t].td
        /\ rec.req = th[t].req
    BY <1>1, <1>2, <1>3, <1>6, SetFacts DEF Positions
  <2> HIDE DEF rec
  <2>2. OpInv(rec) /\ LocalInv(rec) /\ rec.op \in {th[t].op, "none"}
    BY <1>1, <1>2, <1>3, <1>6, <2>1 DEF OpInv, LocalInv
  <2>3. LocksKept(t) /\ LockInv(lock', t, rec)
    <3>1. LocksKept(t)
      BY <1>1, <1>2, <1>3, <1>6, LockSteps, KeyFacts
    <3>2. QED
      BY <1>1, <1>2, <1>3, <1>6, <2>1, <3>1 DEF LockInv
  <2>4. ViewInv(node', rec)
    BY <1>1, <1>2, <1>3, <1>6, <2>1 DEF ViewInv
  <2>5. \A e \in Dirents : Num(Refs(rec, open[t]), e) = Num(Owned(t), e)
    BY <1>1, <1>2, <1>3, <1>6, <2>1, RootAssumption DEF Num, N, Refs, Owned, OpInv, LocalInv
  <2>6. Arm(t, rec)
    BY <1>2, <1>3, <1>6, <2>1, <2>2, <2>3, <2>4 DEF Arm, Goto, rec
  <2>7. QED
    BY <1>2, <1>3, <1>6, <2>5, <2>6, CalmStep
<1>7. ASSUME c # None, node' = Take(node, c), Unlock(t, {C(p)}), Goto(t, [th[t] EXCEPT !.d = c, !.pc = "exists"])
      PROVE  Inv'
  <2> HIDE DEF c
  <2> DEFINE rec == [th[t] EXCEPT !.d = c, !.pc = "exists"]
  <2>1. /\ rec \in Call /\ rec.op = th[t].op /\ rec.pc = "exists" /\ rec.flag = th[t].flag
        /\ rec.path = th[t].path /\ rec.par = th[t].par /\ rec.d = c
        /\ rec.fdir = th[t].fdir /\ rec.tdir = th[t].tdir /\ rec.fd = th[t].fd /\ rec.td = th[t].td
        /\ rec.req = th[t].req
    <3>1. "exists" \in Positions
      BY DEF Positions
    <3>2. QED
      BY <1>1, <1>2, <1>3, <1>4, <1>7, <3>1 DEF Call
  <2> HIDE DEF rec
  <2>2. OpInv(rec) /\ LocalInv(rec) /\ rec.op \in {th[t].op, "none"}
    BY <1>1, <1>2, <1>3, <1>4, <1>7, <2>1 DEF OpInv, LocalInv
  <2>3. LocksKept(t) /\ LockInv(lock', t, rec)
    <3>1. LocksKept(t)
      BY <1>1, <1>2, <1>3, <1>4, <1>7, LockSteps, KeyFacts
    <3>2. QED
      BY <1>1, <1>2, <1>3, <1>4, <1>7, <2>1, <3>1 DEF LockInv
  <2>4. ViewInv(node', rec)
    BY <1>1, <1>2, <1>3, <1>4, <1>7, <2>1 DEF ViewInv
  <2>5. \A e \in Dirents : Num(Refs(rec, open[t]), e) = Num(Owned(t), e) + N(e = c)
    <3>1. th[t].d = None /\ th[t].par = None
      BY <1>1, <1>2, <1>3, <1>4, <1>7 DEF OpInv, LocalInv
    <3>2. QED
      BY <1>2, <1>3, <1>4, <1>7, <2>1, <3>1, RootAssumption DEF Num, N, Refs, Owned
  <2>6. Arm(t, rec)
    BY <1>2, <1>3, <1>4, <1>7, <2>1, <2>2, <2>3, <2>4 DEF Arm, Goto, rec
  <2>7. QED
    BY <1>2, <1>3, <1>4, <1>7, <2>5, <2>6, ArmTaken, TakeOne
<1>8. ASSUME c = None, NEW d \in new, node' = [node EXCEPT ![d] = fs_allocate_dentry(th[t].req.dir, th[t].req.name)],
             Goto(t, [th[t] EXCEPT !.fd = d, !.pc = "link"]), lock' = lock
      PROVE  Inv'
  <2>1. d \in Dirents /\ node[d].k # "used"
    OBVIOUS
  <2>2. Num(Owned(t), d) = 0 /\ ~Linked(node, d)
    BY <2>1, InUse
  <2> DEFINE m == Allocated(node, d, th[t].req.dir, th[t].req.name)
  <2>3. /\ m \in Nodes /\ TreeOK(m) /\ Fresh(m, d, th[t].req.name)
        /\ \A e \in Dirents : Linked(m, e) <=> Linked(node, e)
        /\ \A e \in Dirents \ {d} : m[e] = node[e]
        /\ \A e \in Dirents : m[e].child = node[e].child
    BY <1>1, <1>3, <2>1, <2>2, AllocEffect
  <2>4. node' = m
    BY <1>8 DEF Allocated
  <2> HIDE DEF m
  <2>5. c = node[p].child[th[t].req.name]
    OBVIOUS
  <2> HIDE DEF c
  <2>6. c = None /\ Goto(t, [th[t] EXCEPT !.fd = d, !.pc = "link"]) /\ lock' = lock
    BY <1>8
  <2> DEFINE rec == [th[t] EXCEPT !.fd = d, !.pc = "link"]
  <2>7. /\ rec \in Call /\ rec.op = th[t].op /\ rec.pc = "link" /\ rec.flag = th[t].flag
        /\ rec.path = th[t].path /\ rec.par = th[t].par /\ rec.d = th[t].d
        /\ rec.fdir = th[t].fdir /\ rec.tdir = th[t].tdir /\ rec.fd = d /\ rec.td = th[t].td /\ rec.req = th[t].req
    <3>1. "link" \in Positions
      BY DEF Positions
    <3>2. QED
      BY <1>1, <1>2, <1>3, <1>5, <2>1, <2>3, <2>4, <2>5, <2>6, <3>1 DEF Call
  <2> HIDE DEF rec
  <2>8. OpInv(rec) /\ LocalInv(rec) /\ rec.op \in {th[t].op, "none"}
    BY <1>1, <1>2, <1>3, <2>7, <2>1, RootAssumption DEF OpInv, LocalInv
  <2>9. LocksKept(t) /\ LockInv(lock', t, rec)
    <3>1. LocksKept(t)
      BY <1>1, <1>2, <1>3, <1>5, <2>1, <2>3, <2>4, <2>5, <2>6, LockSteps, KeyFacts
    <3>2. QED
      BY <1>1, <1>2, <1>3, <1>5, <2>1, <2>3, <2>4, <2>5, <2>6, <2>7, <3>1 DEF LockInv
  <2>10. ViewInv(node', rec)
    BY <1>3, <2>7, <2>3, <2>4, <2>5, <2>6 DEF ViewInv
  <2>11. \A e \in Dirents : Num(Refs(rec, open[t]), e) = Num(Owned(t), e) + N(e = d)
    <3>1. th[t].fd = None /\ th[t].par = None
      BY <1>1, <1>2, <1>3, <1>5, <2>1, <2>3, <2>4, <2>5, <2>6 DEF OpInv, LocalInv
    <3>2. QED
      BY <1>2, <1>3, <1>5, <2>1, <2>3, <2>4, <2>5, <2>6, <2>7, <3>1, RootAssumption DEF Num, N, Refs, Owned
  <2>12. Arm(t, rec)
    BY <1>2, <1>3, <1>5, <2>1, <2>3, <2>4, <2>5, <2>6, <2>7, <2>8, <2>9, <2>10 DEF Arm, Goto, rec
  <2>13. Taken(t, rec, open[t])
    BY <2>12, ArmTaken
  <2>14. TablesKept(t) /\ StatesKept(t)
    BY <2>1, <2>3, <2>4 DEF TablesKept, StatesKept
  <2>15. RefsFound(t, rec, open[t])
    <3>1. \A e \in Dirents \ {d} : Num(Refs(rec, open[t]), e) = Num(Owned(t), e)
      BY <2>11, NumSlot DEF N, Owned
    <3>2. rec.pc = "link" /\ rec.fd = d /\ th[t].pc # "link"
      BY <1>2, <2>7
    <3>3. QED
      BY <3>1, <3>2 DEF RefsFound
  <2>16. Balanced(t, rec, open[t])
    <3> SUFFICES ASSUME NEW e \in Dirents
                 PROVE  LET a == Num(Owned(t), e) + N(Linked(node, e))
                            b == Num(Refs(rec, open[t]), e) + N(Linked(node', e))
                        IN  \/ /\ node[e].k = "used" /\ node'[e].k = "used" /\ node'[e].handles >= 1
                               /\ node'[e].handles = node[e].handles + b - a
                            \/ node[e].k # "used" /\ node'[e].k = "used" /\ b = 1 /\ node'[e].handles = b
                            \/ /\ node[e].k # "used" /\ node'[e].k # "used" /\ b = 0
                               /\ node'[e].child = NoChild /\ node'[e].parent = None
      <4>1. \A e \in Dirents : node'[e].handles \in Int
        BY <2>3, <2>4 DEF Nodes, Dentry
      <4>2. QED
        BY <4>1 DEF Balanced
    <3> DEFINE x == Num(Owned(t), e)
               l == N(Linked(node, e))
               y == Num(Refs(rec, open[t]), e)
    <3>1. /\ x \in Nat /\ l \in Nat /\ node[e].handles \in Int
          /\ node[e].k = "used" => node[e].handles >= 1
          /\ node[e].k # "used" => x = 0 /\ l = 0 /\ node[e].child = NoChild /\ node[e].parent = None
      BY InUse DEF N
    <3>2. N(Linked(node', e)) = l /\ y = x + N(e = d)
      BY <2>11, <2>3, <2>4 DEF N
    <3> HIDE DEF x, y, l
    <3>3. CASE e = d
      <4>1. y + l = 1 /\ node[e].k # "used"
        BY <2>1, <3>1, <3>2, <3>3 DEF N
      <4>2. node'[e].k = "used" /\ node'[e].handles = 1
        BY <2>3, <2>4, <3>3 DEF Fresh
      <4>3. QED
        BY <3>2, <4>1, <4>2 DEF x, y, l
    <3>4. CASE e # d
      <4>1. node'[e] = node[e] /\ y = x
        BY <2>3, <2>4, <3>1, <3>2, <3>4 DEF N
      <4>2. node'[e].handles = node[e].handles + (y + l) - (x + l) /\ (node[e].k # "used" => y + l = 0)
        BY <3>1, <4>1
      <4>3. QED
        BY <3>1, <3>2, <4>1, <4>2 DEF x, y, l
    <3>5. QED
      BY <3>3, <3>4
  <2>17. node' \in Nodes /\ TreeOK(node')
    BY <2>3, <2>4
  <2>18. QED
    BY <2>13, <2>14, <2>15, <2>16, <2>17, Assemble
<1>9. \/ Unlock(t, {C(p)}) /\ Goto(t, Set(t, "release_parent")) /\ node' = node
      \/ c # None /\ node' = Take(node, c) /\ Unlock(t, {C(p)}) /\ Goto(t, [th[t] EXCEPT !.d = c, !.pc = "exists"])
      \/ /\ c = None /\ lock' = lock
         /\ \E d \in new : /\ node' = [node EXCEPT ![d] = fs_allocate_dentry(th[t].req.dir, th[t].req.name)]
                           /\ Goto(t, [th[t] EXCEPT !.fd = d, !.pc = "link"])
  BY DEF CreateFind
<1>10. QED
  BY <1>6, <1>7, <1>8, <1>9

(* The new dentry is put into the directory. *)
LEMMA StepCreateLink ==
    ASSUME Inv, NEW t \in Threads, CreateLink(t), Sane'
    PROVE  Inv'
<1> USE DEF LookupPc, CreatePc, UnlinkPc, FirstPc, TargetPc, BothPc, RenamePc
<1> DEFINE p == th[t].tdir
           d == th[t].fd
           x == th[t].req.name
           label == IF node[p].worm = "appendonly" THEN "again" ELSE "release_parent"
<1>1. /\ th[t] \in Call /\ open[t] \in Dirents \cup {None} /\ node \in Nodes /\ lock \in Locks /\ TreeOK(node)
      /\ OpInv(th[t]) /\ LocalInv(th[t]) /\ (th[t].op \in {"open", "create"} => open[t] = None)
      /\ LockInv(lock, t, th[t]) /\ ViewInv(node, th[t]) /\ StableInv(node, th[t], open[t])
  BY Here
<1>2. /\ th[t].pc = "link" /\ Ready(t) /\ open' = open /\ site' = site /\ forgot' = forgot
      /\ Unlock(t, {C(p)}) /\ Goto(t, Set(t, label)) /\ ~node[p].deleted
      /\ node' = LinkedIn(node, p, x, d)
  BY DEF CreateLink, At, Sane, LinkedIn
<1>3. /\ p \in Dirents /\ d \in Dirents /\ x \in Names /\ th[t].op = "create" /\ open[t] = None
      /\ th[t].d = None /\ th[t].par = None /\ th[t].fdir = None /\ th[t].td = None
  BY <1>1, <1>2 DEF OpInv, LocalInv, Call, Request
<1>4. label \in {"again", "release_parent"} /\ label \in Positions
  BY DEF Positions
<1> HIDE DEF label
<1>5. lock[C(p)].w = t /\ lock[C(p)].r = {}
  <2>1. lock[C(p)].w = t
    BY <1>1, <1>2 DEF LockInv
  <2>2. QED
    BY <1>2, <1>3, <2>1, Alone
<1>6. node[p].child[x] = None /\ Fresh(node, d, x) /\ node[d].k = "used" /\ node[d].handles = 1
  BY <1>1, <1>2 DEF ViewInv, Fresh
<1>7. Owned(t) = <<None, None, None, p, d, None, None>>
  BY <1>2, <1>3 DEF Owned, Refs
<1>8. p # d /\ Num(Owned(t), d) = 1
  <2>1. node[d].handles >= Num(Owned(t), d) + N(Linked(node, d)) /\ N(Linked(node, d)) \in Nat
    BY <1>3, <1>6, InUse
  <2>2. Num(Owned(t), d) = N(p = d) + 1
    BY <1>3, <1>7, RootAssumption DEF Num, N
  <2>3. N(p = d) \in Nat /\ N(p = d) + 1 <= 1
    BY <1>6, <2>1, <2>2 DEF N
  <2>4. p # d
    BY <2>3 DEF N
  <2>5. QED
    BY <2>2, <2>4 DEF N
<1>9. Linked(node, p)
  <2>1. Refs(th[t], open[t])[4] = p /\ 4 \in 1 .. 7
    BY DEF Refs
  <2>2. QED
    BY <1>1, <1>2, <1>3, <1>8, <2>1, RootAssumption DEF StableInv
<1>10. /\ node' \in Nodes /\ TreeOK(node') /\ ~Linked(node, d)
       /\ \A e \in Dirents : Linked(node', e) <=> Linked(node, e) \/ e = d
       /\ \A e \in Dirents \ {p, d} : node'[e] = node[e]
       /\ \A e \in Dirents \ {p} : node'[e].child = node[e].child
       /\ \A e \in Dirents : node'[e].k = node[e].k /\ node'[e].deleted = node[e].deleted
       /\ \A e \in Dirents \ {d} : node'[e].handles = node[e].handles
       /\ node'[d].handles = node[d].handles + 1
  BY <1>1, <1>2, <1>3, <1>6, <1>8, <1>9, LinkEffect
<1> HIDE DEF p, d, x
<1> DEFINE rec == Set(t, label)
<1>11. /\ rec \in Call /\ rec.op = th[t].op /\ rec.pc = label /\ rec.flag = th[t].flag
       /\ rec.path = th[t].path /\ rec.par = th[t].par /\ rec.d = th[t].d
      /\ rec.fdir = th[t].fdir /\ rec.tdir = th[t].tdir /\ rec.fd = th[t].fd /\ rec.td = th[t].td
      /\ rec.req = th[t].req
  BY <1>1, <1>4, SetFacts
<1> HIDE DEF rec
<1>12. OpInv(rec) /\ LocalInv(rec) /\ rec.op \in {th[t].op, "none"}
  BY <1>1, <1>2, <1>3, <1>4, <1>11 DEF OpInv, LocalInv
<1>13. LocksKept(t) /\ LockInv(lock', t, rec)
  <2>1. LocksKept(t)
    BY <1>1, <1>2, <1>3, <1>4, LockSteps, KeyFacts
  <2>2. QED
    BY <1>1, <1>2, <1>3, <1>4, <1>11, <2>1 DEF LockInv
<1>14. ViewInv(node', rec)
  BY <1>1, <1>2, <1>3, <1>4, <1>11 DEF ViewInv
<1>15. \A e \in Dirents : Num(Refs(rec, open[t]), e) = Num(Owned(t), e)
  BY <1>2, <1>3, <1>4, <1>11 DEF Num, Refs, Owned
<1>16. Arm(t, rec)
  BY <1>2, <1>3, <1>4, <1>11, <1>12, <1>13, <1>14 DEF Arm, Goto, rec
<1>17. Taken(t, rec, open[t])
  BY <1>16, ArmTaken
<1>18. TablesKept(t)
  BY <1>5, <1>10 DEF TablesKept
<1>19. StatesKept(t)
  <2>1. Num(Owned(t), d) # 0
    BY <1>8
  <2>2. QED
    BY <1>9, <1>10, <2>1 DEF StatesKept
<1>20. RefsFound(t, rec, open[t])
  <2>1. \A e \in Dirents : Num(Refs(rec, open[t]), e) > 0 => e \in {p, d}
    BY <1>7, <1>15, RootAssumption DEF Num, N
  <2>2. QED
    BY <1>9, <1>10, <2>1 DEF RefsFound
<1>21. Balanced(t, rec, open[t])
  <2> SUFFICES ASSUME NEW e \in Dirents
               PROVE  LET a == Num(Owned(t), e) + N(Linked(node, e))
                          b == Num(Refs(rec, open[t]), e) + N(Linked(node', e))
                      IN  \/ /\ node[e].k = "used" /\ node'[e].k = "used" /\ node'[e].handles >= 1
                             /\ node'[e].handles = node[e].handles + b - a
                          \/ node[e].k # "used" /\ node'[e] = node[e] /\ b = 0
                             /\ node[e].child = NoChild /\ node[e].parent = None
    <3>1. \A e \in Dirents : node'[e].handles \in Int
      BY <1>10 DEF Nodes, Dentry
    <3>2. QED
      BY <3>1 DEF Balanced
  <2> DEFINE u == Num(Owned(t), e)
             v == Num(Refs(rec, open[t]), e)
             l == N(Linked(node, e))
             k == N(Linked(node', e))
  <2>1. /\ u \in Nat /\ l \in Nat /\ node[e].handles \in Int
        /\ node[e].k = "used" => node[e].handles >= 1
        /\ node[e].k # "used" => u = 0 /\ l = 0 /\ ~Linked(node, e) /\ node[e].child = NoChild /\ node[e].parent = None
    BY InUse DEF N
  <2>2. v = u
    BY <1>15
  <2>3. k = IF e = d THEN l + 1 ELSE l
    BY <1>10 DEF N
  <2> HIDE DEF u, v, l, k
  <2>4. CASE e = d
    <3>1. k = l + 1 /\ node[e].k = "used" /\ node'[e].k = "used" /\ node'[e].handles = node[e].handles + 1
      BY <1>6, <1>10, <2>3, <2>4
    <3>2. node'[e].handles >= 1 /\ node'[e].handles = node[e].handles + (v + k) - (u + l)
      BY <2>1, <2>2, <3>1
    <3>3. QED
      BY <3>1, <3>2 DEF u, v, l, k
  <2>5. CASE e # d
    <3>1. k = l /\ node'[e].k = node[e].k /\ node'[e].handles = node[e].handles
      BY <1>10, <2>3, <2>5
    <3>2. node'[e].handles = node[e].handles + (v + k) - (u + l) /\ (node[e].k # "used" => v + k = 0)
      BY <2>1, <2>2, <3>1
    <3>3. node[e].k # "used" => node'[e] = node[e]
      BY <1>9, <1>10, <2>1, <2>5
    <3>4. QED
      BY <2>1, <3>1, <3>2, <3>3 DEF u, v, l, k
  <2>6. QED
    BY <2>4, <2>5
<1>22. QED
  BY <1>10, <1>17, <1>18, <1>19, <1>20, <1>21, Assemble

(* The dentry is taken out of its directory. *)
LEMMA StepUnlinkRemove ==
    ASSUME Inv, NEW t \in Threads, UnlinkRemove(t), Sane'
    PROVE  Inv'
<1> USE DEF LookupPc, CreatePc, UnlinkPc, FirstPc, TargetPc, BothPc, RenamePc
<1> DEFINE p == th[t].par
           d == th[t].d
           m == Unlinked(node, d)
<1>1. /\ th[t] \in Call /\ open[t] \in Dirents \cup {None} /\ node \in Nodes /\ lock \in Locks /\ TreeOK(node)
      /\ OpInv(th[t]) /\ LocalInv(th[t]) /\ (th[t].op \in {"open", "create"} => open[t] = None)
      /\ LockInv(lock, t, th[t]) /\ ViewInv(node, th[t]) /\ StableInv(node, th[t], open[t])
  BY Here
<1>2. /\ th[t].pc = "remove" /\ Ready(t) /\ open' = open /\ site' = site /\ forgot' = forgot
      /\ Unlock(t, {C(p), M(p), Vol}) /\ Goto(t, [th[t] EXCEPT !.par = None, !.pc = "release"])
      /\ node' = fs_release_dentry_unlocked(m, p) /\ Children(node, d) = {}
  BY DEF UnlinkRemove, At, Sane
<1>3. p \in Dirents /\ d \in Dirents /\ th[t].op = "unlink"
  BY <1>1, <1>2 DEF OpInv, LocalInv, Call
<1>4. PICK x \in Names : node[p].child[x] = d
  BY <1>1, <1>2 DEF ViewInv
<1>5. lock[C(p)].w = t /\ lock[C(p)].r = {}
  <2>1. lock[C(p)].w = t
    BY <1>1, <1>2 DEF LockInv
  <2>2. QED
    BY <1>2, <1>3, <2>1, Alone
<1>6. /\ m \in Nodes /\ TreeOK(m) /\ p # d /\ d # Root /\ Linked(node, p) /\ Linked(node, d)
      /\ node[d].k = "used"
      /\ \A e \in Dirents : Linked(m, e) <=> Linked(node, e) /\ e # d
      /\ \A e \in Dirents \ {p, d} : m[e] = node[e]
      /\ \A e \in Dirents \ {p} : m[e].child = node[e].child
      /\ m[p].k = node[p].k /\ m[p].handles = node[p].handles /\ m[p].deleted = node[p].deleted
      /\ m[d].k = "used" /\ m[d].handles = node[d].handles - 1 /\ m[d].deleted
  BY <1>1, <1>2, <1>3, <1>4, UnlinkEffect
<1>7. Num(Owned(t), p) \in Nat /\ Num(Owned(t), p) > 0 /\ Num(Owned(t), d) \in Nat /\ Num(Owned(t), d) > 0
  <2>1. Owned(t)[2] = p /\ Owned(t)[1] = d /\ 1 \in 1 .. 7 /\ 2 \in 1 .. 7
    BY <1>2, <1>3 DEF Owned, Refs
  <2>2. QED
    BY <2>1, NumSlot DEF Owned
<1>8. node[p].k = "used" /\ node[p].handles \in Int /\ node[p].handles >= 2
  <2>1. /\ node[p].k = "used" => node[p].handles >= Num(Owned(t), p) + N(Linked(node, p))
        /\ node[p].k # "used" => Num(Owned(t), p) = 0
        /\ node[p].handles \in Int
    BY <1>3, InUse
  <2>2. N(Linked(node, p)) = 1
    BY <1>6 DEF N
  <2>3. QED
    BY <1>7, <2>1, <2>2
<1> HIDE DEF m
<1>9. /\ node' \in Nodes /\ TreeOK(node') /\ \A e \in Dirents \ {p} : node'[e] = m[e]
      /\ node'[p] = [m[p] EXCEPT !.handles = @ - 1]
      /\ \A e \in Dirents : Linked(node', e) <=> Linked(m, e)
  <2>1. m[p].handles > 1
    BY <1>6, <1>8
  <2>2. m[p].handles <= 1 => ~Linked(m, p)
    BY <1>6, <1>8
  <2>3. QED
    BY <1>2, <1>3, <1>6, <2>1, <2>2, ReleaseEffect DEF Back
<1>10. node'[p].k = "used" /\ node'[p].handles = node[p].handles - 1 /\ node'[p].deleted = node[p].deleted
  BY <1>3, <1>6, <1>8, <1>9 DEF Nodes, Dentry
<1> HIDE DEF p, d
<1> DEFINE rec == [th[t] EXCEPT !.par = None, !.pc = "release"]
<1>11. /\ rec \in Call /\ rec.op = th[t].op /\ rec.pc = "release" /\ rec.flag = th[t].flag
       /\ rec.path = th[t].path /\ rec.par = None /\ rec.d = th[t].d
      /\ rec.fdir = th[t].fdir /\ rec.tdir = th[t].tdir /\ rec.fd = th[t].fd /\ rec.td = th[t].td
      /\ rec.req = th[t].req
  <2>1. "release" \in Positions
    BY DEF Positions
  <2>2. QED
    BY <1>1, <2>1 DEF Call
<1> HIDE DEF rec
<1>12. OpInv(rec) /\ LocalInv(rec) /\ rec.op \in {th[t].op, "none"}
  BY <1>1, <1>2, <1>3, <1>11 DEF OpInv, LocalInv
<1>13. LocksKept(t) /\ LockInv(lock', t, rec)
  <2>1. LocksKept(t)
    BY <1>1, <1>2, <1>3, LockSteps, KeyFacts
  <2>2. QED
    BY <1>1, <1>2, <1>3, <1>11, <2>1 DEF LockInv
<1>14. ViewInv(node', rec)
  BY <1>1, <1>2, <1>3, <1>11 DEF ViewInv
<1>15. \A e \in Dirents : Num(Refs(rec, open[t]), e) = Num(Owned(t), e) - N(e = p)
  <2>1. th[t].op # "readdir" /\ th[t].pc \notin {"enter", "hop"} /\ p = th[t].par /\ None \notin Dirents
    BY <1>2, <1>3, RootAssumption DEF p
  <2>2. QED
    BY <1>11, <2>1 DEF Num, N, Refs, Owned
<1>16. Arm(t, rec)
  BY <1>2, <1>3, <1>11, <1>12, <1>13, <1>14 DEF Arm, Goto, rec
<1>17. Taken(t, rec, open[t])
  BY <1>16, ArmTaken
<1>18. TablesKept(t)
  BY <1>5, <1>6, <1>9 DEF TablesKept
<1>19. StatesKept(t)
  BY <1>3, <1>6, <1>9, <1>10 DEF StatesKept
<1>20. RefsFound(t, rec, open[t])
  <2>1. \A e \in Dirents : Num(Refs(rec, open[t]), e) > 0 => Num(Owned(t), e) > 0
    BY <1>15, NumSlot DEF N, Owned
  <2>2. QED
    BY <1>2, <2>1 DEF RefsFound
<1>21. Balanced(t, rec, open[t])
  <2> SUFFICES ASSUME NEW e \in Dirents
               PROVE  LET a == Num(Owned(t), e) + N(Linked(node, e))
                          b == Num(Refs(rec, open[t]), e) + N(Linked(node', e))
                      IN  \/ /\ node[e].k = "used" /\ node'[e].k = "used"
                             /\ node'[e].handles >= 1 \/ b >= 1
                             /\ node'[e].handles = node[e].handles + b - a
                          \/ /\ node'[e].k # "used" /\ b = 0 /\ (node[e].k = "used" => a >= node[e].handles)
                             /\ node'[e].child = NoChild /\ node'[e].parent = None
    <3>1. \A e \in Dirents : node'[e].handles \in Int
      BY <1>9 DEF Nodes, Dentry
    <3>2. QED
      BY <3>1 DEF Balanced
  <2> DEFINE u == Num(Owned(t), e)
             v == Num(Refs(rec, open[t]), e)
             l == N(Linked(node, e))
             k == N(Linked(node', e))
  <2>1. /\ u \in Nat /\ l \in Nat /\ node[e].handles \in Int
        /\ node[e].k = "used" => node[e].handles >= u + l /\ node[e].handles >= 1
        /\ node[e].k # "used" => u = 0 /\ l = 0 /\ ~Linked(node, e) /\ node[e].child = NoChild /\ node[e].parent = None
    BY InUse DEF N
  <2>2. v \in Nat
    BY NumSlot
  <2>3. v = u - N(e = p) /\ (Linked(node, e) => l = 1) /\ k = IF e = d THEN 0 ELSE l
    BY <1>6, <1>9, <1>15 DEF N
  <2> HIDE DEF u, v, l, k
  <2>4. CASE e = p
    <3>1. v = u - 1 /\ k = l /\ node[e].k = "used" /\ node'[e].k = "used" /\ node'[e].handles = node[e].handles - 1
          /\ node'[e].handles >= 1
      BY <1>6, <1>8, <1>10, <2>3, <2>4 DEF N
    <3>2. node'[e].handles = node[e].handles + (v + k) - (u + l)
      BY <2>1, <2>2, <3>1
    <3>3. QED
      BY <3>1, <3>2 DEF u, v, l, k
  <2>5. CASE e = d
    <3>1. /\ v = u /\ k = 0 /\ l = 1 /\ node[e].k = "used" /\ node'[e].k = "used"
          /\ node'[e].handles = node[e].handles - 1
          /\ u > 0
      BY <1>3, <1>6, <1>7, <1>9, <2>1, <2>3, <2>5 DEF N, u
    <3>2. node'[e].handles = node[e].handles + (v + k) - (u + l) /\ v + k >= 1
      BY <2>1, <2>2, <3>1
    <3>3. QED
      BY <3>1, <3>2 DEF u, v, l, k
  <2>6. CASE e \notin {p, d}
    <3>1. v = u /\ k = l /\ node'[e] = node[e]
      BY <1>6, <1>9, <2>1, <2>3, <2>6 DEF N
    <3>2. node'[e].handles = node[e].handles + (v + k) - (u + l) /\ (node[e].k # "used" => v + k = 0)
      BY <2>1, <2>2, <3>1
    <3>3. QED
      BY <2>1, <3>1, <3>2 DEF u, v, l, k
  <2>7. QED
    BY <2>4, <2>5, <2>6
<1>22. QED
  BY <1>9, <1>17, <1>18, <1>19, <1>20, <1>21, Assemble

(* The source goes to its new place. *)
LEMMA StepRenameMove ==
    ASSUME Inv, NEW t \in Threads, RenameMove(t), Sane'
    PROVE  Inv'
<1> USE DEF LookupPc, CreatePc, UnlinkPc, FirstPc, TargetPc, BothPc, RenamePc
<1> DEFINE p == th[t].fdir
           q == th[t].tdir
           d == th[t].fd
           x == th[t].req.name
           y == th[t].req.toname
<1>1. /\ th[t] \in Call /\ open[t] \in Dirents \cup {None} /\ node \in Nodes /\ lock \in Locks /\ TreeOK(node)
      /\ OpInv(th[t]) /\ LocalInv(th[t]) /\ (th[t].op \in {"open", "create"} => open[t] = None)
      /\ LockInv(lock, t, th[t]) /\ ViewInv(node, th[t]) /\ StableInv(node, th[t], open[t])
  BY Here
<1>2. /\ th[t].pc = "move" /\ Ready(t) /\ open' = open /\ site' = site /\ forgot' = forgot
      /\ lock' = lock /\ Goto(t, Set(t, "leave")) /\ ~node[q].deleted
      /\ node' = Moved(node, p, q, d, y)
  BY DEF RenameMove, At, Sane, Moved
<1>3. /\ p \in Dirents /\ q \in Dirents /\ d \in Dirents /\ th[t].req \in Request /\ th[t].op = "rename"
      /\ x \in Names /\ y \in Names /\ d # q
  BY <1>1, <1>2 DEF OpInv, LocalInv, Call, Request
<1>4. node[p].child[x] = d /\ node[q].child[y] \in {None, d}
  BY <1>1, <1>2 DEF ViewInv
<1>5. lock[C(p)].w = t /\ lock[C(p)].r = {} /\ lock[C(q)].w = t /\ lock[C(q)].r = {}
  <2>1. lock[C(p)].w = t /\ lock[C(q)].w = t
    BY <1>1, <1>2 DEF LockInv
  <2>2. QED
    BY <1>2, <1>3, <2>1, Alone
<1>6. Linked(node, q)
  <2>1. Refs(th[t], open[t])[4] = q /\ 4 \in 1 .. 7
    BY DEF Refs
  <2>2. QED
    BY <1>1, <1>2, <1>3, <2>1, RootAssumption DEF StableInv
<1> HIDE DEF p, q, d, x, y
<1>7. /\ node' \in Nodes /\ TreeOK(node') /\ Linked(node, p) /\ Linked(node, d)
      /\ \A e \in Dirents : Linked(node', e) <=> Linked(node, e)
      /\ \A e \in Dirents \ {p, q, d} : node'[e] = node[e]
      /\ \A e \in Dirents \ {p, q} : node'[e].child = node[e].child
      /\ \A e \in Dirents : node'[e].k = node[e].k /\ node'[e].handles = node[e].handles /\ node'[e].deleted = node[e].deleted
  BY <1>1, <1>2, <1>3, <1>4, <1>6, MoveEffect
<1> DEFINE rec == Set(t, "leave")
<1>8. /\ rec \in Call /\ rec.op = th[t].op /\ rec.pc = "leave" /\ rec.flag = th[t].flag
      /\ rec.path = th[t].path /\ rec.par = th[t].par /\ rec.d = th[t].d
      /\ rec.fdir = th[t].fdir /\ rec.tdir = th[t].tdir /\ rec.fd = th[t].fd /\ rec.td = th[t].td
      /\ rec.req = th[t].req
  BY <1>1, <1>2, <1>3, SetFacts DEF Positions
<1> HIDE DEF rec
<1>9. OpInv(rec) /\ LocalInv(rec) /\ rec.op \in {th[t].op, "none"}
  BY <1>1, <1>2, <1>3, <1>8 DEF OpInv, LocalInv
<1>10. LocksKept(t) /\ LockInv(lock', t, rec)
  <2>1. LocksKept(t)
    BY <1>1, <1>2, <1>3, LockSteps, KeyFacts
  <2>2. QED
    BY <1>1, <1>2, <1>3, <1>8, <2>1 DEF LockInv
<1>11. ViewInv(node', rec)
  BY <1>1, <1>2, <1>3, <1>8 DEF ViewInv
<1>12. \A e \in Dirents : Num(Refs(rec, open[t]), e) = Num(Owned(t), e)
  BY <1>1, <1>2, <1>3, <1>8, RootAssumption DEF Num, N, Refs, Owned, OpInv, LocalInv
<1>13. Arm(t, rec)
  BY <1>2, <1>3, <1>8, <1>9, <1>10, <1>11 DEF Arm, Goto, rec
<1>14. Taken(t, rec, open[t])
  BY <1>13, ArmTaken
<1>15. TablesKept(t)
  BY <1>5, <1>7 DEF TablesKept
<1>16. StatesKept(t)
  BY <1>6, <1>7 DEF StatesKept
<1>17. RefsFound(t, rec, open[t])
  BY <1>2, <1>12 DEF RefsFound
<1>18. Balanced(t, rec, open[t])
  <2> SUFFICES ASSUME NEW e \in Dirents
               PROVE  LET a == Num(Owned(t), e) + N(Linked(node, e))
                          b == Num(Refs(rec, open[t]), e) + N(Linked(node', e))
                      IN  \/ /\ node[e].k = "used" /\ node'[e].k = "used"
                             /\ node'[e].handles >= 1 \/ b >= 1
                             /\ node'[e].handles = node[e].handles + b - a
                          \/ /\ node'[e].k # "used" /\ b = 0 /\ (node[e].k = "used" => a >= node[e].handles)
                             /\ node'[e].child = NoChild /\ node'[e].parent = None
    <3>1. \A e \in Dirents : node'[e].handles \in Int
      BY <1>7 DEF Nodes, Dentry
    <3>2. QED
      BY <3>1 DEF Balanced
  <2> DEFINE u == Num(Owned(t), e)
             v == Num(Refs(rec, open[t]), e)
             l == N(Linked(node, e))
             k == N(Linked(node', e))
  <2>1. /\ u \in Nat /\ l \in Nat /\ node[e].handles \in Int
        /\ node[e].k = "used" => node[e].handles >= u + l /\ node[e].handles >= 1
        /\ node[e].k # "used" => u = 0 /\ l = 0 /\ ~Linked(node, e) /\ node[e].child = NoChild /\ node[e].parent = None
    BY InUse DEF N
  <2>2. v \in Nat
    BY NumSlot
  <2>3. v = u /\ k = l
    BY <1>7, <1>12 DEF N
  <2> HIDE DEF u, v, l, k
  <2>4. node'[e].handles = node[e].handles + (v + k) - (u + l) /\ (node[e].k # "used" => v + k = 0)
    BY <1>7, <2>1, <2>2, <2>3
  <2>5. node[e].k # "used" => node'[e] = node[e]
    BY <1>6, <1>7, <2>1
  <2>6. node'[e].k = node[e].k /\ node'[e].handles = node[e].handles
    BY <1>7
  <2>7. QED
    BY <2>1, <2>4, <2>5, <2>6 DEF u, v, l, k
<1>19. QED
  BY <1>7, <1>14, <1>15, <1>16, <1>17, <1>18, Assemble

(* What is in the place of the source goes. *)
LEMMA StepRenameTarget ==
    ASSUME Inv, NEW t \in Threads, RenameTarget(t), Sane'
    PROVE  Inv'
<1> USE DEF LookupPc, CreatePc, UnlinkPc, FirstPc, TargetPc, BothPc, RenamePc
<1> DEFINE g == th[t].td
           q == th[t].tdir
           y == th[t].req.toname
           move == [th[t] EXCEPT !.td = None, !.pc = "move"]
<1>1. /\ th[t] \in Call /\ open[t] \in Dirents \cup {None} /\ node \in Nodes /\ lock \in Locks /\ TreeOK(node)
      /\ OpInv(th[t]) /\ LocalInv(th[t]) /\ (th[t].op \in {"open", "create"} => open[t] = None)
      /\ LockInv(lock, t, th[t]) /\ ViewInv(node, th[t]) /\ StableInv(node, th[t], open[t])
  BY Here
<1>2. th[t].pc \in TargetPc /\ Ready(t) /\ open' = open /\ site' = site /\ forgot' = forgot
  BY DEF RenameTarget, At
<1>3. /\ th[t].fdir \in Dirents /\ q \in Dirents /\ g \in Dirents /\ th[t].fd \in Dirents /\ th[t].fd # q
      /\ th[t].req \in Request /\ th[t].op = "rename" /\ th[t].d = None /\ th[t].par = None
      /\ y \in Names /\ th[t].req.name \in Names
  BY <1>1, <1>2 DEF OpInv, LocalInv, Call, Request
<1>4. node[th[t].fdir].child[th[t].req.name] = th[t].fd /\ node[q].child[y] = g
  BY <1>1, <1>2, <1>3, RootAssumption DEF ViewInv
<1>5. lock[C(th[t].fdir)].w = t /\ lock[C(q)].w = t
  BY <1>1, <1>2 DEF LockInv
<1>6. ASSUME NEW label \in {"undo", "replace"}, th[t].pc = "target_empty", Unlock(t, {C(g)}), node' = node, Goto(t, Set(t, label))
      PROVE  Inv'
  <2>1. g \notin {th[t].fdir, q} /\ g # th[t].fd /\ C(g) # C(th[t].fdir) /\ C(g) # C(q)
    BY <1>1, <1>6, KeyFacts DEF LocalInv
  <2> DEFINE rec == Set(t, label)
  <2>2. /\ rec \in Call /\ rec.op = th[t].op /\ rec.pc = label /\ rec.flag = th[t].flag
        /\ rec.path = th[t].path /\ rec.par = th[t].par /\ rec.d = th[t].d
        /\ rec.fdir = th[t].fdir /\ rec.tdir = th[t].tdir /\ rec.fd = th[t].fd /\ rec.td = th[t].td
        /\ rec.req = th[t].req
    <3>1. label \in Positions
      BY <1>6 DEF Positions
    <3>2. QED
      BY <1>1, <3>1, SetFacts
  <2> HIDE DEF rec
  <2>3. OpInv(rec) /\ LocalInv(rec) /\ rec.op \in {th[t].op, "none"}
    BY <1>1, <1>2, <1>3, <1>4, <1>5, <1>6, <2>1, <2>2 DEF OpInv, LocalInv
  <2>4. LocksKept(t) /\ LockInv(lock', t, rec)
    <3>1. LocksKept(t) /\ lock'[C(q)] = lock[C(q)] /\ lock'[C(th[t].fdir)] = lock[C(th[t].fdir)]
      BY <1>1, <1>2, <1>3, <1>4, <1>5, <1>6, <2>1, LockSteps, KeyFacts
    <3>2. QED
      BY <1>1, <1>2, <1>3, <1>4, <1>5, <1>6, <2>1, <2>2, <3>1 DEF LockInv, LocalInv
  <2>5. ViewInv(node', rec)
    BY <1>1, <1>2, <1>3, <1>4, <1>5, <1>6, <2>1, <2>2 DEF ViewInv
  <2>6. \A e \in Dirents : Num(Refs(rec, open[t]), e) = Num(Owned(t), e)
    BY <1>1, <1>2, <1>3, <1>4, <1>5, <1>6, <2>1, <2>2, RootAssumption DEF Num, N, Refs, Owned, OpInv, LocalInv
  <2>7. Arm(t, rec)
    BY <1>2, <1>3, <1>4, <1>5, <1>6, <2>1, <2>2, <2>3, <2>4, <2>5 DEF Arm, Goto, rec
  <2>8. QED
    BY <1>2, <1>3, <1>4, <1>5, <1>6, <2>1, <2>6, <2>7, CalmStep
<1>7. ASSUME th[t].pc = "same", node' = fs_release_dentry_unlocked(node, g), lock' = lock, Goto(t, move)
      PROVE  Inv'
  <2>1. th[t].fd = g
    BY <1>1, <1>7 DEF LocalInv
  <2>2. Num(Owned(t), g) > 0
    <3>1. Owned(t)[6] = g /\ 6 \in 1 .. 7
      BY DEF Owned, Refs
    <3>2. QED
      BY <3>1, NumSlot DEF Owned
  <2>3. \A e \in Dirents : node'[e].child = node[e].child
    BY <1>3, <1>7, <2>2, ReleaseTables
  <2> DEFINE rec == move
  <2>4. /\ rec \in Call /\ rec.op = th[t].op /\ rec.pc = "move" /\ rec.flag = th[t].flag
        /\ rec.path = th[t].path /\ rec.par = th[t].par /\ rec.d = th[t].d
        /\ rec.fdir = th[t].fdir /\ rec.tdir = th[t].tdir /\ rec.fd = th[t].fd /\ rec.td = None
        /\ rec.req = th[t].req
    <3>1. "move" \in Positions
      BY DEF Positions
    <3>2. QED
      BY <1>1, <3>1 DEF Call
  <2> HIDE DEF rec
  <2>5. OpInv(rec) /\ LocalInv(rec) /\ rec.op \in {th[t].op, "none"}
    BY <1>1, <1>2, <1>3, <1>4, <1>5, <1>7, <2>1, <2>3, <2>4 DEF OpInv, LocalInv
  <2>6. LocksKept(t) /\ LockInv(lock', t, rec)
    <3>1. LocksKept(t)
      BY <1>1, <1>2, <1>3, <1>4, <1>5, <1>7, <2>1, <2>3, LockSteps, KeyFacts
    <3>2. QED
      BY <1>1, <1>2, <1>3, <1>4, <1>5, <1>7, <2>1, <2>3, <2>4, <3>1 DEF LockInv
  <2>7. ViewInv(node', rec)
    BY <1>1, <1>2, <1>3, <1>4, <1>5, <1>7, <2>1, <2>3, <2>4 DEF ViewInv
  <2>8. \A e \in Dirents : Num(Refs(rec, open[t]), e) = Num(Owned(t), e) - N(e = g)
    <3>1. /\ th[t].op # "readdir" /\ rec.op # "readdir" /\ th[t].pc \notin {"enter", "hop"}
          /\ rec.pc \notin {"enter", "hop"}
      BY <1>2, <1>3, <2>4
    <3>2. QED
      BY <1>3, <2>4, <3>1, RootAssumption DEF Num, N, Refs, Owned
  <2>9. Arm(t, rec)
    BY <1>2, <1>3, <1>4, <1>5, <1>7, <2>1, <2>3, <2>4, <2>5, <2>6, <2>7 DEF Arm, Goto, rec
  <2>10. QED
    BY <1>2, <1>3, <1>7, <2>8, <2>9, ArmTaken, ReleaseOne
<1>8. ASSUME th[t].pc = "replace", node' = fs_release_dentry_unlocked(Unlinked(node, g), g), Children(node, g) = {},
             lock' = lock, Goto(t, move)
      PROVE  Inv'
  <2> DEFINE m == Unlinked(node, g)
  <2>1. g # th[t].fd
    BY <1>1, <1>8 DEF LocalInv
  <2>2. /\ m \in Nodes /\ TreeOK(m) /\ q # g /\ Linked(node, q) /\ Linked(node, g) /\ node[g].k = "used"
        /\ node[g].child = NoChild
        /\ \A e \in Dirents : Linked(m, e) <=> Linked(node, e) /\ e # g
        /\ \A e \in Dirents \ {q, g} : m[e] = node[e]
        /\ \A e \in Dirents \ {q} : m[e].child = node[e].child
        /\ m[q].child[y] = None /\ \A x \in Names \ {y} : m[q].child[x] = node[q].child[x]
        /\ m[q].k = node[q].k /\ m[q].handles = node[q].handles /\ m[q].deleted = node[q].deleted
        /\ m[g].k = "used" /\ m[g].handles = node[g].handles - 1 /\ m[g].deleted
    <3> HIDE DEF q, g, y
    <3>1. QED
      BY <1>1, <1>3, <1>4, <1>8, UnlinkEffect
  <2>3. th[t].fdir # g
    BY <1>3, <1>4, <1>8, RootAssumption DEF Children
  <2>4. Num(Owned(t), g) \in Nat /\ Num(Owned(t), g) > 0
    <3>1. Owned(t)[6] = g /\ 6 \in 1 .. 7
      BY DEF Owned, Refs
    <3>2. QED
      BY <3>1, NumSlot DEF Owned
  <2>5. lock[C(q)].w = t /\ lock[C(q)].r = {}
    BY <1>2, <1>3, <1>5, Alone
  <2> HIDE DEF m
  <2>6. /\ node' \in Nodes /\ TreeOK(node') /\ \A e \in Dirents \ {g} : node'[e] = m[e]
        /\ node'[g] = Back(m, g)
        /\ \A e \in Dirents : Linked(node', e) <=> Linked(m, e)
    <3>1. node' = fs_release_dentry_unlocked(m, g)
      BY <1>8 DEF m
    <3>2. QED
      BY <1>3, <2>2, <3>1, ReleaseEffect
  <2>7. /\ m[g].handles > 1 => /\ node'[g].k = "used" /\ node'[g].handles = node[g].handles - 2
                               /\ node'[g].deleted /\ node'[g].child = NoChild
        /\ ~(m[g].handles > 1) => node'[g].k = "gone" /\ node'[g].child = NoChild /\ node'[g].parent = None
    <3>1. m[g] \in Dentry /\ node[g].handles \in Int
      BY <1>1, <1>3, <2>2 DEF Nodes, Dentry
    <3>2. CASE m[g].handles > 1
      <4>1. node'[g] = [m[g] EXCEPT !.handles = @ - 1]
        BY <2>6, <3>2 DEF Back
      <4>2. /\ node'[g].k = m[g].k /\ node'[g].handles = m[g].handles - 1
            /\ node'[g].deleted = m[g].deleted /\ node'[g].child = m[g].child
        BY <3>1, <4>1 DEF Dentry
      <4>3. m[g].child = NoChild
        BY <1>3, <2>2
      <4>4. QED
        BY <2>2, <3>1, <3>2, <4>2, <4>3
    <3>3. CASE ~(m[g].handles > 1)
      BY <2>6, <3>3, GoneFacts DEF Back
    <3>4. QED
      BY <3>2, <3>3
  <2>8. node'[q].child[y] = None /\ node'[th[t].fdir].child[th[t].req.name] = th[t].fd
    <3>1. node'[q].child[y] = None
      BY <1>3, <2>2, <2>6
    <3>2. ~(th[t].fdir = q /\ th[t].req.name = y)
      BY <1>4, <2>1
    <3>3. m[th[t].fdir].child[th[t].req.name] = th[t].fd
      <4>1. CASE th[t].fdir = q
        BY <1>3, <1>4, <2>2, <3>2, <4>1
      <4>2. CASE th[t].fdir # q
        BY <1>3, <1>4, <2>2, <4>2
      <4>3. QED
        BY <4>1, <4>2
    <3>4. QED
      BY <1>3, <2>3, <2>6, <3>1, <3>3
  <2> DEFINE rec == move
  <2>9. /\ rec \in Call /\ rec.op = th[t].op /\ rec.pc = "move" /\ rec.flag = th[t].flag
        /\ rec.path = th[t].path /\ rec.par = th[t].par /\ rec.d = th[t].d
        /\ rec.fdir = th[t].fdir /\ rec.tdir = th[t].tdir /\ rec.fd = th[t].fd /\ rec.td = None
        /\ rec.req = th[t].req
    <3>1. "move" \in Positions
      BY DEF Positions
    <3>2. QED
      BY <1>1, <3>1 DEF Call
  <2> HIDE DEF rec
  <2>10. OpInv(rec) /\ LocalInv(rec) /\ rec.op \in {th[t].op, "none"}
    BY <1>1, <1>2, <1>3, <1>5, <1>8, <2>9 DEF OpInv, LocalInv
  <2>11. LocksKept(t) /\ LockInv(lock', t, rec)
    <3>1. LocksKept(t)
      BY <1>1, <1>2, <1>3, <1>5, <1>8, LockSteps, KeyFacts
    <3>2. QED
      BY <1>1, <1>2, <1>3, <1>5, <1>8, <2>9, <3>1 DEF LockInv
  <2>12. ViewInv(node', rec)
    BY <2>9, <2>8 DEF ViewInv
  <2>13. \A e \in Dirents : Num(Refs(rec, open[t]), e) = Num(Owned(t), e) - N(e = g)
    <3>1. /\ th[t].op # "readdir" /\ rec.op # "readdir" /\ th[t].pc \notin {"enter", "hop"}
          /\ rec.pc \notin {"enter", "hop"}
      BY <1>2, <1>3, <2>9
    <3>2. QED
      BY <1>3, <2>9, <3>1, RootAssumption DEF Num, N, Refs, Owned
  <2>14. Arm(t, rec)
    BY <1>2, <1>3, <1>5, <1>8, <2>9, <2>10, <2>11, <2>12 DEF Arm, Goto, rec
  <2>15. Taken(t, rec, open[t])
    BY <2>14, ArmTaken
  <2> HIDE DEF g, q, y
  <2>16. TablesKept(t)
    <3>1. node'[g].child = node[g].child
      BY <2>2, <2>7
    <3>2. QED
      BY <2>2, <2>5, <2>6, <3>1 DEF TablesKept
  <2>17. StatesKept(t)
    BY <1>3, <2>2, <2>6, <2>7 DEF StatesKept
  <2>18. RefsFound(t, rec, open[t])
    <3>1. \A e \in Dirents : Num(Refs(rec, open[t]), e) > 0 => Num(Owned(t), e) > 0
      BY <2>13, NumSlot DEF N, Owned
    <3>2. QED
      BY <1>2, <3>1 DEF RefsFound
  <2>19. Balanced(t, rec, open[t])
    <3> SUFFICES ASSUME NEW e \in Dirents
                 PROVE  LET a == Num(Owned(t), e) + N(Linked(node, e))
                            b == Num(Refs(rec, open[t]), e) + N(Linked(node', e))
                        IN  \/ /\ node[e].k = "used" /\ node'[e].k = "used"
                               /\ node'[e].handles >= 1 \/ b >= 1
                               /\ node'[e].handles = node[e].handles + b - a
                            \/ /\ node'[e].k # "used" /\ b = 0 /\ (node[e].k = "used" => a >= node[e].handles)
                               /\ node'[e].child = NoChild /\ node'[e].parent = None
      <4>1. \A e \in Dirents : node'[e].handles \in Int
        BY <2>6 DEF Nodes, Dentry
      <4>2. QED
        BY <4>1 DEF Balanced
    <3> DEFINE u == Num(Owned(t), e)
               v == Num(Refs(rec, open[t]), e)
               l == N(Linked(node, e))
               k == N(Linked(node', e))
    <3>1. /\ u \in Nat /\ l \in Nat /\ node[e].handles \in Int
          /\ node[e].k = "used" => node[e].handles >= u + l /\ node[e].handles >= 1
          /\ node[e].k # "used" => u = 0 /\ l = 0 /\ ~Linked(node, e) /\ node[e].child = NoChild /\ node[e].parent = None
      BY InUse DEF N
    <3>2. v \in Nat
      BY NumSlot
    <3>3. v = u - N(e = g) /\ (Linked(node, e) => l = 1) /\ k = IF e = g THEN 0 ELSE l
      BY <2>13, <2>2, <2>6 DEF N
    <3> HIDE DEF u, v, l, k
    <3>4. CASE e = g /\ m[g].handles > 1
      <4>1. v = u - 1 /\ k = 0 /\ l = 1 /\ node[e].k = "used" /\ node'[e].k = "used"
            /\ node'[e].handles = node[e].handles - 2 /\ m[e].handles = node[e].handles - 1 /\ m[e].handles > 1
        BY <1>3, <2>2, <2>7, <3>3, <3>4 DEF N
      <4>2. node'[e].handles = node[e].handles + (v + k) - (u + l) /\ node'[e].handles >= 1
        BY <3>1, <3>2, <4>1
      <4>3. QED
        BY <4>1, <4>2 DEF u, v, l, k
    <3>5. CASE e = g /\ ~(m[g].handles > 1)
      <4>1. v = u - 1 /\ k = 0 /\ l = 1 /\ node[e].k = "used" /\ node'[e].k = "gone"
            /\ node'[e].child = NoChild /\ node'[e].parent = None /\ ~(node[e].handles - 1 > 1)
        BY <1>3, <2>2, <2>7, <3>3, <3>5 DEF N
      <4>2. v + k = 0 /\ u + l >= node[e].handles
        BY <3>1, <3>2, <4>1
      <4>3. QED
        BY <4>1, <4>2 DEF u, v, l, k
    <3>6. CASE e = q
      <4>1. v = u /\ k = l /\ node'[e].k = node[e].k /\ node'[e].handles = node[e].handles
        BY <2>2, <2>6, <3>1, <3>3, <3>6 DEF N
      <4>2. node'[e].handles = node[e].handles + (v + k) - (u + l) /\ node[e].k = "used"
        BY <2>2, <3>1, <3>2, <3>6, <4>1
      <4>3. QED
        BY <3>1, <4>1, <4>2 DEF u, v, l, k
    <3>7. CASE e \notin {g, q}
      <4>1. v = u /\ k = l /\ node'[e] = node[e]
        BY <2>2, <2>6, <3>1, <3>3, <3>7 DEF N
      <4>2. node'[e].handles = node[e].handles + (v + k) - (u + l) /\ (node[e].k # "used" => v + k = 0)
        BY <3>1, <3>2, <4>1
      <4>3. QED
        BY <3>1, <4>1, <4>2 DEF u, v, l, k
    <3>8. QED
      BY <3>4, <3>5, <3>6, <3>7
  <2>20. QED
    BY <2>6, <2>15, <2>16, <2>17, <2>18, <2>19, Assemble
<1>9. QED
  <2>1. th[t].pc = "replace" /\ node' = fs_release_dentry_unlocked(Unlinked(node, g), g) => Children(node, g) = {}
    BY DEF RenameTarget, At, Sane
  <2>2. QED
    BY <1>6, <1>7, <1>8, <2>1 DEF RenameTarget, At, Sane

---------------------------------------------------------------------------
(* The theorems                                                            *)

(* The defects are never forgotten. *)
LEMMA SaneStays ==
    ASSUME NEW t \in Threads, Begin(t) \/ Step(t), Sane'
    PROVE  Sane
<1>1. Begin(t) \/ Volume(t) \/ Synced(t) \/ Close(t) \/ Readdir(t) \/ Opened(t)
      => stray' = stray /\ orphan' = orphan
  BY DEF Begin, Volume, Synced, Close, Readdir, Opened
<1>2. LookupRoot(t) \/ LookupEnter(t) \/ LookupHop(t) \/ LookupFind(t) \/ LookupDrop(t) \/ LookupMiss(t)
      => stray' = stray /\ orphan' = orphan
  BY DEF LookupRoot, LookupEnter, LookupHop, LookupFind, LookupDrop, LookupMiss
<1>3. CreateEnter(t) \/ CreateFind(t) \/ CreateExists(t) \/ CreateAgain(t) \/ CreateSetxattr(t) \/ CreateEnd(t)
      => stray' = stray /\ orphan' = orphan
  BY DEF CreateEnter, CreateFind, CreateExists, CreateAgain, CreateSetxattr, CreateEnd
<1>4. UnlinkCheck(t) \/ UnlinkParent(t) \/ UnlinkEnd(t)
      => stray' = stray /\ orphan' = orphan
  BY DEF UnlinkCheck, UnlinkParent, UnlinkEnd
<1>5. RenameBegin(t) \/ RenameNoDir(t) \/ RenameLocks(t) \/ RenameFind(t) \/ RenameCheck(t) \/ RenameUndo(t) \/ RenameLeave(t)
      => stray' = stray /\ orphan' = orphan
  BY DEF RenameBegin, RenameNoDir, RenameLocks, RenameFind, RenameCheck, RenameUndo, RenameLeave
<1>6. CreateLink(t) \/ UnlinkRemove(t) \/ RenameTarget(t) \/ RenameMove(t) => stray' = stray /\ (orphan => orphan')
  <2>1. CreateLink(t) => stray' = stray /\ (orphan => orphan')
    BY DEF CreateLink
  <2>2. UnlinkRemove(t) => stray' = stray /\ (orphan => orphan')
    BY DEF UnlinkRemove
  <2>3. RenameTarget(t) => stray' = stray /\ (orphan => orphan')
    <3>1. RenameTarget(t) => \/ stray' = stray /\ orphan' = orphan
                             \/ stray' = stray /\ orphan' = (orphan \/ Children(node, th[t].td) # {})
      BY Zenon DEF RenameTarget
    <3>2. QED
      BY <3>1, Zenon
  <2>4. RenameMove(t) => stray' = stray /\ (orphan => orphan')
    BY DEF RenameMove
  <2>5. QED
    BY <2>1, <2>2, <2>3, <2>4
<1>7. UnlinkRefused(t) \/ RenameWorm(t) => stray \subseteq stray' /\ orphan' = orphan
  BY DEF UnlinkRefused, RenameWorm
<1>8. stray \subseteq stray' /\ (orphan => orphan')
  BY <1>1, <1>2, <1>3, <1>4, <1>5, <1>6, <1>7 DEF Step
<1>9. QED
  BY <1>8 DEF Sane

(* Inductive says Inv of the states without the two defects. *)
LEMMA InductiveIs == Inductive <=> (Sane => Inv)
BY DEF Inductive, Inv, Local

(* The invariant holds at the start: each dentry of the tree has one handle *)
(* and no thread has any.                                                  *)
LEMMA InitInv == Init => Inv
<1> SUFFICES ASSUME Init PROVE Inv
  OBVIOUS
<1>1. /\ site \in Sites /\ node = site.tree /\ lock = [k \in Keys |-> Unheld] /\ th = [t \in Threads |-> Nothing]
      /\ open = [t \in Threads |-> None] /\ ~forgot
  BY DEF Init
<1>2. WellFormed(site)
  BY <1>1, SitesAssumption
<1>3. /\ node \in [Dirents -> Dentry] /\ TreeOK(node)
      /\ \A d \in Dirents : \/ node[d] = Blank
                            \/ node[d].k = "used" /\ node[d].handles = 1 /\ Linked(node, d)
  BY <1>1, <1>2 DEF WellFormed
<1>4. TypeOK
  BY <1>1, <1>3, NothingFacts DEF TypeOK, Unheld
<1>5. \A t \in Threads : \A i \in 1 .. 7 : Owned(t)[i] = None
  <2> SUFFICES ASSUME NEW t \in Threads, NEW i \in 1 .. 7 PROVE Owned(t)[i] = None
    OBVIOUS
  <2>1. Owned(t) = <<None, None, None, None, None, None, None>>
    BY <1>1 DEF Owned, Refs, Nothing
  <2>2. i = 1 \/ i = 2 \/ i = 3 \/ i = 4 \/ i = 5 \/ i = 6 \/ i = 7
    OBVIOUS
  <2>3. QED
    BY <2>1, <2>2
<1>6. ASSUME NEW d \in Dirents PROVE Count(d) = N(Linked(node, d))
  <2>1. Slots(Threads, d) = {}
    BY <1>5, RootAssumption DEF Slots
  <2>2. Cardinality(Slots(Threads, d)) = 0
    BY <2>1, FS_EmptySet
  <2>3. QED
    BY <2>2 DEF Count, N
<1>7. BalanceInv
  <2> SUFFICES ASSUME NEW d \in Dirents
               PROVE  IF node[d].k = "used"
                      THEN node[d].handles >= 1 /\ node[d].handles >= Count(d) /\ node[d].handles = Count(d)
                      ELSE Count(d) = 0 /\ node[d].child = NoChild /\ node[d].parent = None
    BY DEF BalanceInv
  <2>1. CASE node[d] = Blank
    <3>1. node[d].k = "free" /\ node[d].child = NoChild /\ node[d].parent = None
      BY <2>1 DEF Blank
    <3>2. ~Linked(node, d)
      BY <1>3, <3>1, RootAssumption DEF TreeOK, Linked
    <3>3. QED
      BY <1>6, <3>1, <3>2 DEF N
  <2>2. CASE node[d].k = "used" /\ node[d].handles = 1 /\ Linked(node, d)
    <3>1. Count(d) = 1
      BY <1>6, <2>2 DEF N
    <3>2. QED
      BY <2>2, <3>1
  <2>3. QED
    BY <1>3, <2>1, <2>2
<1>8. ASSUME NEW t \in Threads PROVE Local(t)
  <2>1. th[t] = Nothing /\ open[t] = None
    BY <1>1
  <2>2. Nothing.pc = "idle" /\ Nothing.op = "none"
    BY DEF Nothing
  <2>3. LockInv(lock, t, th[t]) /\ ViewInv(node, th[t])
    BY <2>1, <2>2 DEF LockInv, ViewInv, UnlinkPc, FirstPc, BothPc, TargetPc
  <2>4. StableInv(node, th[t], open[t])
    BY <1>5 DEF StableInv, Owned
  <2>5. QED
    BY <2>1, <2>2, <2>3, <2>4, NothingFacts DEF Local
<1>9. QED
  BY <1>3, <1>4, <1>7, <1>8 DEF Inv

(* Every step keeps the invariant, as long as there is no defect. *)
LEMMA NextInv ==
    ASSUME Inv, [Next]_vars, Sane'
    PROVE  Inv'
<1>1. CASE UNCHANGED vars
  BY <1>1 DEF vars, Inv, TypeOK, BalanceInv, Count, Slots, Owned, Local
<1>2. ASSUME NEW t \in Threads, Begin(t) \/ Step(t)
      PROVE  Inv'
  BY <1>2, StepBegin, StepVolume, StepSynced, StepClose, StepReaddir, StepLookupRoot, StepLookupEnter,
     StepLookupHop,
     StepLookupFind, StepLookupDrop, StepLookupMiss, StepOpened, StepCreateEnter, StepCreateFind, StepCreateExists,
     StepCreateLink, StepCreateAgain, StepCreateSetxattr, StepCreateEnd, StepUnlinkCheck, StepUnlinkRefused,
     StepUnlinkParent, StepUnlinkRemove, StepUnlinkEnd, StepRenameBegin, StepRenameNoDir, StepRenameWorm,
     StepRenameLocks, StepRenameFind, StepRenameCheck, StepRenameTarget, StepRenameMove, StepRenameUndo, StepRenameLeave
  DEF Step
<1>3. QED
  BY <1>1, <1>2 DEF Next

(* The inductive invariant. *)
THEOREM InductiveHolds == Spec => []Inductive
<1>1. Init => Inductive
  BY InitInv, InductiveIs
<1>2. Inductive /\ [Next]_vars => Inductive'
  <2> SUFFICES ASSUME Inductive, [Next]_vars, Sane' PROVE Inv'
    BY DEF Inductive, Inv, Local
  <2>1. Sane
    <3>1. CASE UNCHANGED vars
      BY <3>1 DEF vars, Sane
    <3>2. QED
      BY <3>1, SaneStays DEF Next
  <2>2. QED
    BY <2>1, InductiveIs, NextInv
<1>3. QED
  BY <1>1, <1>2, PTL DEF Spec

(* A dentry that a table, an open file or a call in progress refers to is  *)
(* not freed, and has a handle for each reference (numhandles), for any     *)
(* tree, any calls and any number of threads, until one of the two defects. *)
THEOREM HandlesSuffice == Spec => []HandlesKept
<1>1. Inductive => HandlesKept
  <2> SUFFICES ASSUME Inv, NEW d \in Dirents, Count(d) > 0
               PROVE  node[d].k # "gone" /\ node[d].handles >= Count(d)
    BY InductiveIs DEF HandlesKept
  <2>1. node[d].k = "used"
    BY DEF Inv, BalanceInv
  <2>2. QED
    BY <2>1 DEF Inv, BalanceInv
<1>2. QED
  BY <1>1, InductiveHolds, PTL

(* When no call is in progress a dentry in use has as many handles as there *)
(* are open files and tables that refer to it, at least one: no handle is   *)
(* leaked, unless a rename has forgotten the handle of its target.          *)
THEOREM NoHandleLeaks == Spec => []NothingLeaks
<1>1. Inductive => NothingLeaks
  <2> SUFFICES ASSUME Inv, ~forgot, NEW d \in Dirents, node[d].k = "used"
               PROVE  Count(d) > 0 /\ node[d].handles = Count(d)
    BY InductiveIs DEF NothingLeaks
  <2>1. node[d].handles \in Int /\ node[d].handles >= 1 /\ node[d].handles = Count(d)
    BY DEF Inv, TypeOK, BalanceInv, Dentry
  <2>2. QED
    BY <2>1
<1>2. QED
  BY <1>1, InductiveHolds, PTL
=============================================================================
