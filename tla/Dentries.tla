------------------------------ MODULE Dentries ------------------------------
(***************************************************************************)
(* The name tree: dentries with their handle counts, and the calls of      *)
(* ltfs_fsops.c that look names up, create, remove and move them, from     *)
(* several threads, lock by lock.                                          *)
(*                                                                         *)
(* A step of a thread is the code from one lock request to the next.  A    *)
(* MultiReaderSingleWriter is [w, r]: the thread that has passed its gate  *)
(* to write, and the readers; the writer goes on when the last reader is   *)
(* gone, and nobody passes the gate meanwhile.                             *)
(*                                                                         *)
(*   node    the dentries; "free" before fs_allocate_dentry, "gone" after  *)
(*           _fs_dispose_dentry_contents                                   *)
(*   lock    contents_lock and meta_lock of each dentry, vol->lock and     *)
(*           rename_lock                                                   *)
(*   th      the call of each thread and its local variables; a variable   *)
(*           is None when the code does not use it any more                *)
(*   open    the dentry each thread has open                               *)
(*   site    the tree to start with and the calls made                     *)
(*   calls   how many calls were made                                      *)
(*   stray   dentries whose meta_lock was released by a thread without it  *)
(*   orphan  an entry was left in, or put into, a removed directory        *)
(*   forgot  a call has returned without giving back one of its handles    *)
(***************************************************************************)
EXTENDS Integers, FiniteSets, Sequences, TLC

CONSTANTS Threads, Dirents, Names, None, Root,
          Sites     \* [tree, requests, calls]

ASSUME RootAssumption == Root \in Dirents /\ None \notin Dirents

ASSUME ThreadsAssumption == IsFiniteSet(Threads) /\ None \notin Threads

VARIABLES node, lock, th, open, site, calls, stray, orphan, forgot

vars == <<node, lock, th, open, site, calls, stray, orphan, forgot>>

-----------------------------------------------------------------------------
(* Dentries                                                                *)

NoChild == [n \in Names |-> None]

Blank == [k |-> "free", dir |-> FALSE, parent |-> None, name |-> None, handles |-> 0, child |-> NoChild,
          worm |-> "no", deleted |-> FALSE]

\* fs_allocate_dentry without a parent, as ltfs_fsops_create calls it
fs_allocate_dentry_NoHandle(isdir, name) == [Blank EXCEPT !.k = "used", !.dir = isdir, !.name = name]
fs_allocate_dentry(isdir, name) == [Blank EXCEPT !.k = "used", !.dir = isdir, !.name = name, !.handles = 1]

Children(n, d) == {n[d].child[x] : x \in Names} \ {None}

\* what is reached from a dentry, itself included, by going on from f to next(f):
\* no set with d and without e is closed
Reached(d, next(_)) ==
    {d} \cup {e \in Dirents \ {d} :
                \A S \in SUBSET (Dirents \ {d, e}) : \E f \in S \cup {d} : ~(next(f) \subseteq S \cup {d})}

\* Frees a dentry without handles; an entry goes with its directory unless
\* somebody has it open.
_fs_dispose_dentry_contents(n, d) ==
    LET dead == Reached(d, LAMBDA e : {c \in Children(n, e) : n[c].handles = 1})
        kids == UNION {Children(n, e) : e \in dead}
    IN  [e \in Dirents |->
            IF e \in dead THEN [Blank EXCEPT !.k = "gone"]
            ELSE [n[e] EXCEPT !.parent = IF e \in kids THEN None ELSE @,
                              !.child = [x \in Names |-> IF @[x] \in dead THEN None ELSE @[x]]]]

fs_release_dentry_unlocked(n, d) ==
    IF n[d].handles > 1 THEN [n EXCEPT ![d].handles = @ - 1] ELSE _fs_dispose_dentry_contents(n, d)

Take(n, d) == [n EXCEPT ![d].handles = @ + 1]
Drop(n, d) == [n EXCEPT ![d].handles = @ - 1]

\* d1 is d2 or above it; None when there is no d1
fs_is_predecessor(n, d1, d2) == d2 # None /\ d1 \in Reached(d2, LAMBDA e : {n[e].parent} \ {None})

\* out of the table of its directory, with the handle that the table had
UnlinkedKept(n, d) ==
    LET p == n[d].parent
    IN  [n EXCEPT ![p].child[n[d].name] = None, ![d].parent = None, ![d].deleted = TRUE]
Unlinked(n, d) ==
    LET p == n[d].parent
    IN  [n EXCEPT ![p].child[n[d].name] = None, ![d].parent = None, ![d].deleted = TRUE, ![d].handles = @ - 1]

Worm(n, d) == n[d].worm # "no"

-----------------------------------------------------------------------------
(* The trees and calls to start with                                       *)

Dentry == [k : {"free", "used", "gone"}, dir : BOOLEAN, parent : Dirents \cup {None}, name : Names \cup {None},
           handles : Int, child : [Names -> Dirents \cup {None}],
           worm : {"no", "immutable", "appendonly"}, deleted : BOOLEAN]

Ops == {"open", "close", "readdir", "sync", "create", "unlink", "rename"}

Request == [op : Ops,
            path : Seq(Names), name : Names, to : Seq(Names), toname : Names, dir : BOOLEAN]

\* The root, or in the table of a directory.
Linked(n, d) == d = Root \/ \E p \in Dirents, x \in Names : n[p].child[x] = d

\* A table names dentries that know their directory and their name, and that
\* are in use; a directory with entries is itself in the tree.
TreeOK(n) ==
    /\ n[Root].k = "used"
    /\ \A p \in Dirents, x \in Names :
        LET c == n[p].child[x]
        IN  c # None => /\ c \notin {p, Root} /\ n[c].k = "used"
                        /\ n[c].parent = p /\ n[c].name = x
                        /\ Linked(n, p)

\* As ltfs_mount leaves the tree: one handle for each dentry.  The root cannot
\* be removed (ltfs_fsops_unlink).
WellFormed(s) ==
    /\ s.tree \in [Dirents -> Dentry]
    /\ TreeOK(s.tree)
    /\ \A d \in Dirents : \/ s.tree[d] = Blank
                          \/ /\ s.tree[d].k = "used" /\ ~s.tree[d].deleted
                             /\ s.tree[d].handles = 1 /\ Linked(s.tree, d)
    /\ s.requests \subseteq Request
    /\ \A q \in s.requests : q.op = "unlink" => q.path # << >>

ASSUME SitesAssumption == \A s \in Sites : WellFormed(s)

-----------------------------------------------------------------------------
(* Locks                                                                   *)

C(d) == <<"contents", d>>
M(d) == <<"meta", d>>
Vol == <<"vol", None>>
RenameLock == <<"rename", None>>
Keys == {C(d) : d \in Dirents} \cup {M(d) : d \in Dirents} \cup {Vol, RenameLock}

Unheld == [w |-> None, r |-> {}]

\* The thread has the locks it passed the gates of.
Ready(t) == \A k \in Keys : lock[k].w = t => lock[k].r = {}

Passes(k) == lock[k].w = None
Idle(k) == lock[k] = Unheld        \* taken and given back in one step
Write(t, k) == Passes(k) /\ lock' = [lock EXCEPT ![k].w = t]
Read(t, k) == Passes(k) /\ lock' = [lock EXCEPT ![k].r = @ \cup {t}]

\* the locks without those of a set that the thread has
Without(l, t, ks) ==
    [k \in Keys |-> IF k \notin ks THEN l[k]
                    ELSE [w |-> IF l[k].w = t THEN None ELSE l[k].w, r |-> l[k].r \ {t}]]
Unlock(t, ks) == lock' = Without(lock, t, ks)

-----------------------------------------------------------------------------
(* Calls                                                                   *)

Nothing == [op |-> "none", pc |-> "idle", flag |-> "none", path |-> << >>, par |-> None, d |-> None,
            fdir |-> None, tdir |-> None, fd |-> None, td |-> None, req |-> None]

At(t, label) == th[t].pc = label /\ Ready(t)

Goto(t, rec) == th' = [th EXCEPT ![t] = rec]
Set(t, label) == [th[t] EXCEPT !.pc = label]

Lookup(rec, path, flag) == [rec EXCEPT !.pc = "root", !.path = path, !.flag = flag]

Init ==
    /\ site \in Sites
    /\ node = site.tree
    /\ lock = [k \in Keys |-> Unheld]
    /\ th = [t \in Threads |-> Nothing]
    /\ open = [t \in Threads |-> None]
    /\ calls = 0 /\ stray = {} /\ orphan = FALSE /\ forgot = FALSE

\* A thread makes a call; close, and reading a directory, need an open handle.
Begin(t) ==
    /\ th[t].pc = "idle" /\ calls < site.calls
    /\ \E q \in site.requests :
        /\ q.op \in {"close", "readdir"} => open[t] # None
        /\ q.op \in {"open", "create"} => open[t] = None
        /\ q.op = "readdir" => node[open[t]].dir
        /\ Goto(t, [Nothing EXCEPT !.op = q.op, !.req = q, !.pc = IF q.op = "close" THEN "close" ELSE "vol",
                                   !.d = IF q.op \in {"close", "readdir"} THEN open[t] ELSE None])
        /\ open' = IF q.op = "close" THEN [open EXCEPT ![t] = None] ELSE open
    /\ calls' = calls + 1
    /\ UNCHANGED <<node, lock, site, stray, orphan, forgot>>

\* The volume lock: for writing to write an index, else for reading.
Volume(t) ==
    /\ At(t, "vol")
    /\ LET q == th[t].req IN
        CASE q.op = "sync" -> Write(t, Vol) /\ Goto(t, Set(t, "synced"))
          [] q.op = "rename" -> Read(t, Vol) /\ Goto(t, Set(t, "rename"))
          [] q.op = "readdir" -> Read(t, Vol) /\ Goto(t, Set(t, "list"))
          [] q.op = "create" -> Read(t, Vol) /\ Goto(t, Lookup(th[t], q.path, "dentry_w"))
          [] q.op = "unlink" -> Read(t, Vol) /\ Goto(t, Lookup(th[t], q.path, "parent_w"))
          [] q.op = "open" -> Read(t, Vol) /\ Goto(t, Lookup(th[t], q.path, "none"))
    /\ UNCHANGED <<node, open, site, calls, stray, orphan, forgot>>

Synced(t) ==
    /\ At(t, "synced")
    /\ Unlock(t, {Vol}) /\ Goto(t, Nothing)
    /\ UNCHANGED <<node, open, site, calls, stray, orphan, forgot>>

\* ltfs_fsraw_close
Close(t) ==
    /\ At(t, "close") /\ Idle(M(th[t].d))
    /\ node' = fs_release_dentry_unlocked(node, th[t].d)
    /\ Goto(t, Nothing)
    /\ UNCHANGED <<lock, open, site, calls, stray, orphan, forgot>>

\* ltfs_fsops_readdir
Readdir(t) ==
    LET d == th[t].d IN
    /\ \/ At(t, "list") /\ Read(t, C(d)) /\ Goto(t, Set(t, "listed"))
       \/ At(t, "listed") /\ Unlock(t, {C(d)}) /\ Goto(t, Set(t, "atime"))
       \/ At(t, "atime") /\ Idle(M(d)) /\ Unlock(t, {Vol}) /\ Goto(t, Nothing)
    /\ UNCHANGED <<node, open, site, calls, stray, orphan, forgot>>

-----------------------------------------------------------------------------
(* fs_path_lookup                                                          *)

\* Where the call goes on with the dentry found.
Found(t, rec) ==
    CASE rec.op = "create" /\ rec.flag = "dentry_w" -> [rec EXCEPT !.pc = "dentry"]
      [] rec.op = "create" /\ rec.flag # "dentry_w" -> [rec EXCEPT !.pc = "setxattr"]
      [] rec.op = "unlink" -> [rec EXCEPT !.pc = "unlink"]
      [] rec.op = "open" -> [rec EXCEPT !.pc = "opened"]
      [] rec.op = "rename" /\ rec.fdir = None ->
            Lookup([rec EXCEPT !.fdir = rec.d, !.d = None], rec.req.to, "none")
      [] rec.op = "rename" /\ rec.fdir # None -> [rec EXCEPT !.tdir = rec.d, !.d = None, !.pc = "worm"]

LookupRoot(t) ==
    /\ At(t, "root") /\ Idle(M(Root))
    /\ node' = Take(node, Root)
    /\ LET rec == [th[t] EXCEPT !.d = Root, !.pc = "enter"]
       IN  Goto(t, IF rec.path = << >> THEN Found(t, rec) ELSE rec)
    /\ UNCHANGED <<lock, open, site, calls, stray, orphan, forgot>>

\* contents_lock of the next directory on the way
LookupEnter(t) ==
    LET d == th[t].d IN
    /\ At(t, "enter")
    /\ IF Len(th[t].path) = 1 /\ th[t].flag = "parent_w" THEN Write(t, C(d)) ELSE Read(t, C(d))
    /\ Goto(t, Set(t, "hop"))
    /\ UNCHANGED <<node, open, site, calls, stray, orphan, forgot>>

\* and the one before is left
LookupHop(t) ==
    /\ At(t, "hop")
    /\ Unlock(t, {C(th[t].par)} \cap Keys)
    /\ Goto(t, [th[t] EXCEPT !.par = th[t].d, !.d = None, !.pc = "find"])
    /\ UNCHANGED <<node, open, site, calls, stray, orphan, forgot>>

\* fs_directory_lookup
LookupFind(t) ==
    LET p == th[t].par
        c == node[p].child[Head(th[t].path)]
    IN  /\ At(t, "find")
        /\ \/ c = None /\ Unlock(t, {C(p)}) /\ Goto(t, Set(t, "miss")) /\ UNCHANGED node
           \/ /\ c # None /\ Idle(M(c))
              /\ node' = Take(node, c)
              /\ Goto(t, [th[t] EXCEPT !.d = c, !.pc = "drop"])
              /\ UNCHANGED lock
        /\ UNCHANGED <<open, site, calls, stray, orphan, forgot>>

\* The handle of the directory is given back, on the last name only if the
\* caller does not want the directory.
LookupDrop(t) ==
    LET p == th[t].par
        rest == Tail(th[t].path)
        keep == rest = << >> /\ th[t].flag = "parent_w"
        rec == [th[t] EXCEPT !.path = rest, !.pc = "enter"]
    IN  /\ At(t, "drop")
        /\ keep \/ Idle(M(p))
        /\ node' = IF keep THEN node ELSE Drop(node, p)
        /\ IF rest # << >> THEN Goto(t, rec) /\ UNCHANGED lock
           ELSE IF keep THEN Goto(t, Found(t, rec)) /\ UNCHANGED lock
           ELSE Unlock(t, {C(p)}) /\ Goto(t, Found(t, [rec EXCEPT !.par = None]))
        /\ UNCHANGED <<open, site, calls, stray, orphan, forgot>>

\* No such name: the directory is released and the call fails.
LookupMiss(t) ==
    LET p == th[t].par
        rec == [th[t] EXCEPT !.par = None]
    IN  /\ At(t, "miss") /\ Idle(M(p))
        /\ node' = fs_release_dentry_unlocked(node, p)
        /\ CASE rec.op = "rename" /\ rec.fdir # None -> Goto(t, [rec EXCEPT !.pc = "release_fdir"]) /\ UNCHANGED lock
             [] rec.op = "create" /\ rec.fd # None -> Goto(t, [rec EXCEPT !.pc = "setxattr_failed"]) /\ UNCHANGED lock
             [] OTHER -> Unlock(t, {Vol, RenameLock}) /\ Goto(t, Nothing)
        /\ UNCHANGED <<open, site, calls, stray, orphan, forgot>>

\* ltfs_fsraw_open
Opened(t) ==
    /\ At(t, "opened")
    /\ open' = [open EXCEPT ![t] = th[t].d]
    /\ Unlock(t, {Vol}) /\ Goto(t, Nothing)
    /\ UNCHANGED <<node, site, calls, stray, orphan, forgot>>

-----------------------------------------------------------------------------
(* ltfs_fsops_create: tdir is the directory, fd the new dentry             *)

CreateEnter(t) ==
    /\ At(t, "dentry")
    /\ Write(t, C(th[t].d))
    /\ Goto(t, [th[t] EXCEPT !.tdir = th[t].d, !.d = None, !.pc = "create"])
    /\ UNCHANGED <<node, open, site, calls, stray, orphan, forgot>>

\* The name must be new.  A directory that is append-only takes new names.
CreateFind(t) ==
    LET q == th[t].req
        p == th[t].tdir
        c == node[p].child[q.name]
        new == {d \in Dirents : node[d].k = "free"}
        immutable == node[p].worm = "immutable"
    IN  /\ At(t, "create")
        /\ \/ /\ immutable \/ (c = None /\ new = {})
              /\ Unlock(t, {C(p)}) /\ Goto(t, Set(t, "release_parent")) /\ UNCHANGED node
           \/ /\ ~immutable /\ c # None /\ Idle(M(c))
              /\ node' = Take(node, c)
              /\ Unlock(t, {C(p)}) /\ Goto(t, [th[t] EXCEPT !.d = c, !.pc = "exists"])
           \/ /\ ~immutable /\ c = None /\ new # {}
              /\ LET d == CHOOSE e \in new : TRUE
                 IN  /\ node' = [node EXCEPT ![d] = fs_allocate_dentry(q.dir, q.name)]
                     /\ Goto(t, [th[t] EXCEPT !.fd = d, !.pc = "link"])
              /\ UNCHANGED lock
        /\ UNCHANGED <<open, site, calls, stray, orphan, forgot>>

CreateExists(t) ==
    /\ At(t, "exists") /\ Idle(M(th[t].d))
    /\ node' = fs_release_dentry_unlocked(node, th[t].d)
    /\ Goto(t, [th[t] EXCEPT !.d = None, !.pc = "release_parent"])
    /\ UNCHANGED <<lock, open, site, calls, stray, orphan, forgot>>

\* Both meta_locks are taken; nobody else knows the new dentry.
CreateLink(t) ==
    LET p == th[t].tdir
        d == th[t].fd
    IN  /\ At(t, "link") /\ Idle(M(p))
        /\ node' = [node EXCEPT ![d].parent = p, ![d].handles = @ + 1, ![p].child[th[t].req.name] = d]
        /\ Unlock(t, {C(p)})
        /\ orphan' = (orphan \/ node[p].deleted)
        /\ Goto(t, Set(t, IF node[p].worm = "appendonly" THEN "again" ELSE "release_parent"))
        /\ UNCHANGED <<open, site, calls, stray, forgot>>

\* In an append-only directory ltfs_fsops_setxattr is called for the new path.
\* It asks for the volume lock, which the thread holds for reading already.
CreateAgain(t) ==
    /\ At(t, "again") /\ Passes(Vol)
    /\ Goto(t, Lookup(th[t], Append(th[t].req.path, th[t].req.name), "none"))
    /\ UNCHANGED <<node, lock, open, site, calls, stray, orphan, forgot>>

\* The attribute is set on whatever has the name now; without one the new
\* file stays and the call fails.
CreateSetxattr(t) ==
    /\ \/ /\ At(t, "setxattr") /\ Idle(M(th[t].d))
          /\ node' = [node EXCEPT ![th[t].d].worm = IF @ = "no" THEN "appendonly" ELSE @]
          /\ Goto(t, Set(t, "setxattr_done"))
       \/ /\ At(t, "setxattr_done") /\ Idle(M(th[t].d))
          /\ node' = fs_release_dentry_unlocked(node, th[t].d)
          /\ Goto(t, [th[t] EXCEPT !.d = None, !.pc = "release_parent"])
       \/ /\ At(t, "setxattr_failed") /\ Idle(M(th[t].fd))
          /\ node' = fs_release_dentry_unlocked(node, th[t].fd)
          /\ Goto(t, [th[t] EXCEPT !.fd = None, !.pc = "release_parent"])
    /\ UNCHANGED <<lock, open, site, calls, stray, orphan, forgot>>

CreateEnd(t) ==
    LET p == th[t].tdir IN
    /\ At(t, "release_parent") /\ Idle(M(p))
    /\ node' = fs_release_dentry_unlocked(node, p)
    /\ open' = [open EXCEPT ![t] = th[t].fd]
    /\ Unlock(t, {Vol}) /\ Goto(t, Nothing)
    /\ UNCHANGED <<site, calls, stray, orphan, forgot>>

-----------------------------------------------------------------------------
(* ltfs_fsops_unlink: par and its contents_lock, d from the lookup         *)

\* A directory is looked into before it is removed.
UnlinkCheck(t) ==
    LET p == th[t].par
        d == th[t].d
        worm == Worm(node, p) \/ Worm(node, d)
    IN  /\ \/ /\ At(t, "unlink")
              /\ \/ worm /\ Goto(t, Set(t, "refused")) /\ UNCHANGED lock
                 \/ ~worm /\ ~node[d].dir /\ Goto(t, Set(t, "parent_meta")) /\ UNCHANGED lock
                 \/ ~worm /\ node[d].dir /\ Read(t, C(d)) /\ Goto(t, Set(t, "empty"))
           \/ /\ At(t, "empty")
              /\ Unlock(t, {C(d)})
              /\ Goto(t, Set(t, IF Children(node, d) # {} THEN "refused" ELSE "parent_meta"))
        /\ UNCHANGED <<node, open, site, calls, stray, orphan, forgot>>

\* The way out of a refusal releases the parent with the unlocked variant,
\* and with it a meta_lock that the thread does not hold.
UnlinkRefused(t) ==
    LET p == th[t].par IN
    /\ At(t, "refused")
    /\ node' = fs_release_dentry_unlocked(node, p)
    /\ lock' = [Without(lock, t, {C(p), Vol}) EXCEPT ![M(p)].w = None]
    /\ stray' = stray \cup {p}
    /\ Goto(t, [th[t] EXCEPT !.par = None, !.pc = "release"])
    /\ UNCHANGED <<open, site, calls, orphan, forgot>>

UnlinkParent(t) ==
    /\ At(t, "parent_meta")
    /\ Write(t, M(th[t].par)) /\ Goto(t, Set(t, "remove"))
    /\ UNCHANGED <<node, open, site, calls, stray, orphan, forgot>>

UnlinkRemove(t) ==
    LET p == th[t].par
        d == th[t].d
    IN  /\ At(t, "remove") /\ Idle(M(d))
        /\ node' = fs_release_dentry_unlocked(Unlinked(node, d), p)
        /\ orphan' = (orphan \/ Children(node, d) # {})
        /\ Unlock(t, {C(p), M(p), Vol})
        /\ Goto(t, [th[t] EXCEPT !.par = None, !.pc = "release"])
        /\ UNCHANGED <<open, site, calls, stray, forgot>>

UnlinkEnd(t) ==
    /\ At(t, "release") /\ Idle(M(th[t].d))
    /\ node' = fs_release_dentry_unlocked(node, th[t].d)
    /\ Goto(t, Nothing)
    /\ UNCHANGED <<lock, open, site, calls, stray, orphan, forgot>>

-----------------------------------------------------------------------------
(* ltfs_fsops_rename: fdir and tdir the directories, fd and td the dentries *)

RenameBegin(t) ==
    /\ At(t, "rename")
    /\ Write(t, RenameLock) /\ Goto(t, Lookup(th[t], th[t].req.path, "none"))
    /\ UNCHANGED <<node, open, site, calls, stray, orphan, forgot>>

\* There is no target directory.
RenameNoDir(t) ==
    LET f == th[t].fdir IN
    /\ At(t, "release_fdir") /\ Idle(M(f))
    /\ node' = fs_release_dentry_unlocked(node, f)
    /\ Unlock(t, {RenameLock, Vol}) /\ Goto(t, Nothing)
    /\ UNCHANGED <<open, site, calls, stray, orphan, forgot>>

\* Protected directories.  The meta_lock of the source is taken for the way
\* out, that of the target is not.
RenameWorm(t) ==
    LET f == th[t].fdir
        g == th[t].tdir
        m == fs_release_dentry_unlocked(node, f)
    IN  /\ At(t, "worm") /\ (Worm(node, f) \/ Worm(node, g)) /\ Idle(M(f))
        /\ node' = fs_release_dentry_unlocked(m, g)
        /\ stray' = IF f = g THEN stray ELSE stray \cup {g}
        /\ lock' = LET l == Without(lock, t, {RenameLock, Vol})
                   IN  IF f = g THEN l ELSE [l EXCEPT ![M(g)].w = None]
        /\ Goto(t, Nothing)
        /\ UNCHANGED <<open, site, calls, orphan, forgot>>

\* The directory above the other is locked first, the source if neither is.
First(rec) == IF rec.flag = "target_first" THEN rec.tdir ELSE rec.fdir
Second(rec) == IF rec.flag = "target_first" THEN rec.fdir ELSE rec.tdir

TargetAboveNever(n, rec) == FALSE
TargetAbove(n, rec) == fs_is_predecessor(n, rec.tdir, rec.fdir)

RenameLocks(t) ==
    LET rec == th[t]
        a == First(rec)
        b == Second(rec)
        order == [rec EXCEPT !.flag = IF TargetAbove(node, rec) THEN "target_first" ELSE "source_first"]
    IN  /\ \/ /\ At(t, "worm") /\ ~Worm(node, rec.fdir) /\ ~Worm(node, rec.tdir)
              /\ Write(t, C(First(order))) /\ Goto(t, [order EXCEPT !.pc = "first_meta"])
           \/ At(t, "first_meta") /\ Write(t, M(a)) /\ Goto(t, Set(t, "first_find"))
           \/ At(t, "second") /\ a # b /\ Write(t, C(b)) /\ Goto(t, Set(t, "second_meta"))
           \/ At(t, "second") /\ a = b /\ Goto(t, Set(t, "second_find")) /\ UNCHANGED lock
           \/ At(t, "second_meta") /\ Write(t, M(b)) /\ Goto(t, Set(t, "second_find"))
        /\ UNCHANGED <<node, open, site, calls, stray, orphan, forgot>>

\* The two names are looked up as soon as their directory is locked.
RenameFind(t) ==
    LET rec == th[t]
        target == (rec.pc = "first_find") <=> (rec.flag = "target_first")
        c == IF target THEN node[rec.tdir].child[rec.req.toname] ELSE node[rec.fdir].child[rec.req.name]
        next == IF rec.pc = "first_find" THEN "second" ELSE "check"
        to == [rec EXCEPT !.td = IF target THEN c ELSE @, !.fd = IF target THEN @ ELSE c, !.pc = next]
    IN  /\ At(t, "first_find") \/ At(t, "second_find")
        /\ \/ c # None /\ ~(target /\ next = "check" /\ rec.fd = None) /\ Idle(M(c)) /\ node' = Take(node, c) /\ Goto(t, to)
           \/ c = None /\ UNCHANGED node /\ Goto(t, to)
           \/ /\ target /\ next = "check" /\ rec.fd = None /\ c # None
              /\ UNCHANGED node /\ Goto(t, Set(t, "check"))
        /\ UNCHANGED <<lock, open, site, calls, stray, orphan, forgot>>

\* Nothing to move, a directory into itself, over a directory it is in, or
\* something protected: the dentries are released again.  (A protected source
\* is released alone; the handle of the target is forgotten.)
RenameCheck(t) ==
    LET rec == th[t]
        f == rec.fd
        g == rec.td
        bad == \/ f = None
               \/ fs_is_predecessor(node, f, rec.tdir)
               \/ g # None /\ fs_is_predecessor(node, g, rec.fdir)
        worm == f # None /\ Worm(node, f)
        kept == g # None /\ Worm(node, g)
    IN  /\ At(t, "check")
        /\ forgot' = (forgot \/ (~bad /\ worm /\ g # None))
        /\ \/ bad /\ Goto(t, Set(t, "undo")) /\ UNCHANGED lock
           \/ ~bad /\ worm /\ Goto(t, [rec EXCEPT !.td = None, !.pc = "undo"]) /\ UNCHANGED lock
           \/ ~bad /\ ~worm /\ kept /\ Goto(t, Set(t, "undo")) /\ UNCHANGED lock
           \/ /\ ~bad /\ ~worm /\ ~kept
              /\ \/ g = None /\ Goto(t, Set(t, "move")) /\ UNCHANGED lock
                 \/ g = f /\ Goto(t, Set(t, "same")) /\ UNCHANGED lock
                 \/ g \notin {None, f} /\ ~node[g].dir /\ Goto(t, Set(t, "replace")) /\ UNCHANGED lock
                 \/ g \notin {None, f} /\ node[g].dir /\ Read(t, C(g)) /\ Goto(t, Set(t, "target_empty"))
        /\ UNCHANGED <<node, open, site, calls, stray, orphan>>

RenameTarget(t) ==
    LET g == th[t].td IN
    /\ \/ /\ At(t, "target_empty")
          /\ Unlock(t, {C(g)})
          /\ Goto(t, Set(t, IF Children(node, g) # {} THEN "undo" ELSE "replace"))
          /\ UNCHANGED <<node, orphan>>
       \/ /\ At(t, "replace") /\ Idle(M(g))
          /\ node' = fs_release_dentry_unlocked(Unlinked(node, g), g)
          /\ orphan' = (orphan \/ Children(node, g) # {})
          /\ Goto(t, [th[t] EXCEPT !.td = None, !.pc = "move"])
          /\ UNCHANGED lock
       \/ /\ At(t, "same") /\ Idle(M(g))
          /\ node' = fs_release_dentry_unlocked(node, g)
          /\ Goto(t, [th[t] EXCEPT !.td = None, !.pc = "move"])
          /\ UNCHANGED <<lock, orphan>>
    /\ UNCHANGED <<open, site, calls, stray, forgot>>

RenameMove(t) ==
    LET rec == th[t]
        f == rec.fd
        m == [node EXCEPT ![rec.fdir].child[node[f].name] = None]
    IN  /\ At(t, "move") /\ Idle(M(f))
        /\ node' = [m EXCEPT ![f].parent = rec.tdir, ![f].name = rec.req.toname, ![rec.tdir].child[rec.req.toname] = f]
        /\ orphan' = (orphan \/ node[rec.tdir].deleted)
        /\ Goto(t, Set(t, "leave"))
        /\ UNCHANGED <<lock, open, site, calls, stray, forgot>>

\* One that is also a directory the thread has locked is only counted down.
RenameUndo(t) ==
    LET rec == th[t]
        Back(d, dir) == IF d = dir THEN node' = Drop(node, d)
                        ELSE Idle(M(d)) /\ node' = fs_release_dentry_unlocked(node, d)
    IN  /\ At(t, "undo")
        /\ \/ rec.fd # None /\ Back(rec.fd, rec.tdir) /\ Goto(t, [rec EXCEPT !.fd = None])
           \/ rec.fd = None /\ rec.td # None /\ Back(rec.td, rec.fdir) /\ Goto(t, [rec EXCEPT !.td = None])
           \/ rec.fd = None /\ rec.td = None /\ Goto(t, Set(t, "leave")) /\ UNCHANGED node
        /\ UNCHANGED <<lock, open, site, calls, stray, orphan, forgot>>

\* out_unlock and out_release
RenameLeave(t) ==
    LET rec == th[t]
        f == rec.fdir
        g == rec.tdir
    IN  /\ At(t, "leave")
        /\ node' = fs_release_dentry_unlocked(fs_release_dentry_unlocked(node, f), g)
        /\ Unlock(t, {C(f), C(g), M(f), M(g), RenameLock, Vol})
        /\ Goto(t, IF rec.fd = None THEN Nothing ELSE [rec EXCEPT !.fdir = None, !.tdir = None, !.d = rec.fd, !.fd = None, !.pc = "release"])
        /\ UNCHANGED <<open, site, calls, stray, orphan, forgot>>

-----------------------------------------------------------------------------
Step(t) ==
    \/ Volume(t) \/ Synced(t) \/ Close(t) \/ Readdir(t)
    \/ LookupRoot(t) \/ LookupEnter(t) \/ LookupHop(t) \/ LookupFind(t) \/ LookupDrop(t) \/ LookupMiss(t)
    \/ Opened(t)
    \/ CreateEnter(t) \/ CreateFind(t) \/ CreateExists(t) \/ CreateLink(t) \/ CreateAgain(t) \/ CreateSetxattr(t) \/ CreateEnd(t)
    \/ UnlinkCheck(t) \/ UnlinkRefused(t) \/ UnlinkParent(t) \/ UnlinkRemove(t) \/ UnlinkEnd(t)
    \/ RenameBegin(t) \/ RenameNoDir(t) \/ RenameWorm(t) \/ RenameLocks(t) \/ RenameFind(t) \/ RenameCheck(t)
    \/ RenameTarget(t) \/ RenameMove(t) \/ RenameUndo(t) \/ RenameLeave(t)

Next == \E t \in Threads : Begin(t) \/ Step(t)

Spec == Init /\ [][Next]_vars

\* A thread inside a call goes on.
FairSpec == Spec /\ \A t \in Threads : WF_vars(Step(t))

-----------------------------------------------------------------------------
(* Properties                                                              *)

\* The local variables of a call that own a handle.  A directory on the way
\* of a lookup is given up before its contents_lock is.
Refs(rec, opened) ==
    <<IF rec.op = "readdir" THEN None ELSE rec.d, IF rec.pc \in {"enter", "hop"} THEN None ELSE rec.par,
      rec.fdir, rec.tdir, rec.fd, rec.td, opened>>
Owned(t) == Refs(th[t], open[t])

Slots(T, d) == {p \in T \X (1 .. 7) : Owned(p[1])[p[2]] = d}

Count(d) == Cardinality(Slots(Threads, d)) + (IF Linked(node, d) THEN 1 ELSE 0)

\* Two defects end what can be said: a refused call has released a meta_lock
\* that it did not hold, and with it the exclusion of others; a directory was
\* removed while another call was about to put an entry into it.
Sane == stray = {} /\ ~orphan

\* numhandles is never too low: a dentry that a table, an open file or a call in
\* progress refers to is not freed, whatever is removed and moved meanwhile
\* (fs_release_dentry_unlocked frees at the last handle).
HandlesKept == Sane => \A d \in Dirents : LET c == Count(d) IN c > 0 => node[d].k # "gone" /\ node[d].handles >= c

\* And not too high: when no call is in progress every dentry is in the tree
\* or open, with as many handles, or it has been freed; a removed file that was
\* open goes with its last close (ltfs_fsraw_close).  A rename of a protected
\* source that finds its target has forgotten the handle of the target.
NothingLeaks ==
    Sane /\ ~forgot /\ (\A t \in Threads : th[t].pc = "idle") =>
        \A d \in Dirents : node[d].k = "used" => Count(d) > 0 /\ node[d].handles = Count(d)

\* ltfs_fsops_create waits for vol->lock, which it holds for reading, behind a
\* writer that waits for its readers.
NestedRead == \E t \in Threads : th[t].pc = "again" /\ ~Passes(Vol)

\* Every call returns: the order in which contents_lock and meta_lock of the
\* directories are taken (ltfs_fsops_rename, fs_path_lookup) lets no threads
\* wait for each other, but for the nested request of ltfs_fsops_create.
CallsReturn == \A t \in Threads : th[t].pc # "idle" ~> (th[t].pc = "idle" \/ stray # {} \/ NestedRead)

-----------------------------------------------------------------------------
(* The inductive invariant from which DentriesProofs derives HandlesKept    *)
(* and NothingLeaks, as long as Sane.                                       *)

LookupPc == {"root", "enter", "hop", "find", "drop", "miss"}
CreatePc == {"create", "exists", "link", "again", "setxattr", "setxattr_done", "setxattr_failed", "release_parent"}
UnlinkPc == {"unlink", "empty", "parent_meta", "remove", "refused"}
FirstPc == {"first_meta", "first_find", "second"}
TargetPc == {"target_empty", "replace", "same"}
BothPc == {"second_meta", "second_find", "check", "move"} \cup TargetPc
RenamePc == {"worm", "undo", "leave"} \cup FirstPc \cup BothPc

Positions == {"idle", "vol", "synced", "close", "list", "listed", "atime", "opened", "dentry", "rename",
              "release_fdir", "release"} \cup LookupPc \cup CreatePc \cup UnlinkPc \cup RenamePc

Flags == {"none", "dentry_w", "parent_w", "target_first", "source_first"}

Call == [op : Ops \cup {"none"}, pc : Positions, flag : Flags, path : Seq(Names),
         par : Dirents \cup {None}, d : Dirents \cup {None}, fdir : Dirents \cup {None}, tdir : Dirents \cup {None},
         fd : Dirents \cup {None}, td : Dirents \cup {None}, req : Request \cup {None}]

TypeOK ==
    /\ node \in [Dirents -> Dentry]
    /\ lock \in [Keys -> [w : Threads \cup {None}, r : SUBSET Threads]]
    /\ th \in [Threads -> Call]
    /\ open \in [Threads -> Dirents \cup {None}]
    /\ site \in Sites

\* the last name of a path, whose directory is locked for the caller
Last(rec) == Len(rec.path) = 1 /\ rec.flag = "parent_w"

\* Which call is where, and the local variables that are set there.
OpInv(rec) ==
    /\ rec.pc = "idle" <=> rec.op = "none"
    /\ rec.pc # "idle" => rec.req \in Request /\ rec.req.op = rec.op
                          /\ (rec.op = "unlink" => rec.req.path # << >>)
    /\ rec.pc = "close" <=> rec.op = "close"
    /\ rec.pc \in {"list", "listed", "atime"} => rec.op = "readdir"
    /\ rec.pc = "synced" => rec.op = "sync"
    /\ rec.pc = "opened" => rec.op = "open"
    /\ rec.pc \in CreatePc \cup {"dentry"} => rec.op = "create"
    /\ rec.pc \in UnlinkPc => rec.op = "unlink"
    /\ rec.pc \in RenamePc \cup {"rename", "release_fdir"} => rec.op = "rename"
    /\ rec.pc = "release" => rec.op \in {"unlink", "rename"}
    /\ rec.pc \in LookupPc =>
        /\ rec.op \in {"open", "create", "unlink", "rename"}
        /\ rec.flag = "parent_w" <=> rec.op = "unlink"
        /\ rec.flag = "dentry_w" => rec.op = "create" /\ rec.tdir = None /\ rec.fd = None
        /\ rec.op = "create" /\ rec.flag # "dentry_w" => rec.tdir # None /\ rec.fd # None
    /\ rec.pc \in {"enter", "hop", "find", "drop"} \/ (rec.pc = "root" /\ rec.op = "unlink") => rec.path # << >>

LocalInv(rec) ==
    /\ rec.d # None <=> \/ rec.pc \in {"close", "list", "listed", "atime", "enter", "hop", "drop", "opened", "dentry",
                                       "exists", "setxattr", "setxattr_done", "release"} \cup UnlinkPc
                        \/ rec.pc = "vol" /\ rec.op = "readdir"
    /\ rec.pc \in {"find", "drop", "miss"} \cup UnlinkPc => rec.par # None
    /\ rec.par # None => rec.pc \in {"enter", "hop", "find", "drop", "miss"} \cup UnlinkPc
    /\ rec.pc \in RenamePc \cup {"release_fdir"} => rec.fdir # None
    /\ rec.fdir # None => rec.op = "rename" /\ rec.pc \in LookupPc \cup RenamePc \cup {"release_fdir"}
    /\ rec.pc \in CreatePc \cup RenamePc => rec.tdir # None
    /\ rec.tdir # None => rec.pc \in CreatePc \cup RenamePc \/ (rec.pc \in LookupPc /\ rec.op = "create")
    /\ rec.pc \in {"link", "again", "setxattr", "setxattr_done", "setxattr_failed", "move"} \cup TargetPc => rec.fd # None
    /\ rec.fd # None => \/ rec.pc \in CreatePc \ {"create", "exists"}
                        \/ rec.pc \in {"second", "undo", "leave"} \cup BothPc
                        \/ rec.pc \in LookupPc /\ rec.op = "create"
    /\ rec.pc \in TargetPc => rec.td # None
    /\ rec.td # None => rec.pc \in {"second", "undo", "second_meta", "second_find", "check"} \cup TargetPc
    /\ rec.pc = "same" => rec.td = rec.fd
    /\ rec.pc \in {"enter", "hop", "drop", "empty"} => rec.par # rec.d
    /\ rec.pc = "target_empty" => rec.td \notin {rec.fdir, rec.tdir}
    /\ rec.pc \in {"target_empty", "replace"} => rec.td # rec.fd
    /\ rec.pc \in {"move"} \cup TargetPc => rec.fd # rec.tdir

\* The contents_locks that a call holds, for writing or for reading.
LockInv(l, t, rec) ==
    LET W(d) == l[C(d)].w = t
        R(d) == t \in l[C(d)].r
    IN  /\ rec.pc \in {"create", "link"} => W(rec.tdir)
        /\ rec.pc = "hop" => IF Last(rec) THEN W(rec.d) ELSE R(rec.d)
        /\ rec.pc \in {"find", "drop"} => IF Last(rec) THEN W(rec.par) ELSE R(rec.par)
        /\ rec.pc \in UnlinkPc => W(rec.par)
        /\ rec.pc \in FirstPc => W(First(rec))
        /\ rec.pc \in BothPc => W(rec.fdir) /\ W(rec.tdir)

\* A dentry that has been allocated and is not in a table yet.
Fresh(n, d, name) ==
    /\ n[d].k = "used" /\ n[d].name = name /\ n[d].parent = None /\ ~n[d].deleted
    /\ n[d].handles = 1 /\ n[d].child = NoChild /\ d # Root

\* What a call has found in a directory stays true while it holds the lock.
ViewInv(n, rec) ==
    LET Source == n[rec.fdir].child[rec.req.name]
        Target == n[rec.tdir].child[rec.req.toname]
    IN  /\ rec.pc = "drop" => n[rec.par].child[Head(rec.path)] = rec.d
        /\ rec.pc \in UnlinkPc => \E x \in Names : n[rec.par].child[x] = rec.d
        /\ rec.pc = "link" => n[rec.tdir].child[rec.req.name] = None /\ Fresh(n, rec.fd, rec.req.name)
        /\ rec.pc \in {"second", "second_meta", "second_find"} =>
            IF rec.flag = "target_first" THEN rec.td = Target /\ rec.fd = None ELSE rec.fd = Source /\ rec.td = None
        /\ rec.pc \in {"check"} \cup TargetPc => rec.fd = None \/ (rec.fd = Source /\ rec.td = Target)
        /\ rec.pc = "move" => rec.fd = Source /\ Target \in {None, rec.fd}

\* A dentry that a thread has a handle of is in use; it is in the tree, or it
\* has been removed, or it is about to be put into the tree.
StableInv(n, rec, opened) ==
    \A i \in 1 .. 7 :
        LET d == Refs(rec, opened)[i]
        IN  d # None => /\ n[d].k = "used"
                        /\ n[d].deleted \/ Linked(n, d) \/ (rec.pc = "link" /\ d = rec.fd)

\* numhandles, as long as no handle was forgotten, is the number of references.
BalanceInv ==
    \A d \in Dirents :
        IF node[d].k = "used"
        THEN node[d].handles >= 1 /\ node[d].handles >= Count(d) /\ (~forgot => node[d].handles = Count(d))
        ELSE Count(d) = 0 /\ node[d].child = NoChild /\ node[d].parent = None

Inductive ==
    Sane =>
        /\ TypeOK /\ TreeOK(node) /\ BalanceInv
        /\ \A t \in Threads :
            /\ OpInv(th[t]) /\ LocalInv(th[t])
            /\ th[t].op \in {"open", "create"} => open[t] = None
            /\ LockInv(lock, t, th[t]) /\ ViewInv(node, th[t]) /\ StableInv(node, th[t], open[t])
=============================================================================
