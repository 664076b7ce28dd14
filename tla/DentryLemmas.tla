---------------------------- MODULE DentryLemmas ----------------------------
(***************************************************************************)
(* What the proofs about Dentries rest on: locks, the counting of          *)
(* references, the tree under the operations on dentries, and how the      *)
(* inductive invariant follows after a step from what the step does to the *)
(* tree and to the call that takes it.                                     *)
(***************************************************************************)
EXTENDS Dentries, FiniteSetTheorems, TLAPS

---------------------------------------------------------------------------
(* Locks                                                                   *)

(* The locks of different dentries, and of different kinds, are different. *)
LEMMA KeyFacts ==
    /\ \A d \in Dirents : C(d) \in Keys /\ M(d) \in Keys
    /\ Vol \in Keys /\ RenameLock \in Keys
    /\ \A d, e : C(d) = C(e) => d = e
    /\ \A d, e : C(d) # M(e)
    /\ \A d : C(d) # Vol /\ C(d) # RenameLock
BY DEF Keys, C, M, Vol, RenameLock

---------------------------------------------------------------------------
(* Counting                                                                *)

N(b) == IF b THEN 1 ELSE 0

\* how often a dentry is among the seven references of a call
Num(s, d) == N(s[1] = d) + N(s[2] = d) + N(s[3] = d) + N(s[4] = d) + N(s[5] = d) + N(s[6] = d) + N(s[7] = d)

\* the references of several threads to a dentry; F gives those of each thread
SlotsOf(F, T, d) == {p \in T \X (1 .. 7) : F[p[1]][p[2]] = d}

(* One more slot counts if it is not there yet. *)
LEMMA AddSlot ==
    ASSUME NEW S, IsFiniteSet(S), NEW x, x \notin S, NEW b \in BOOLEAN
    PROVE  LET U == S \cup (IF b THEN {x} ELSE {})
           IN  IsFiniteSet(U) /\ Cardinality(U) = Cardinality(S) + N(b)
<1>1. Cardinality(S) \in Nat
  BY FS_CardinalityType
<1>2. CASE b
  <2>1. IsFiniteSet(S \cup {x}) /\ Cardinality(S \cup {x}) = Cardinality(S) + 1
    BY FS_AddElement
  <2>2. QED
    BY <1>2, <2>1 DEF N
<1>3. CASE ~b
  <2>1. S \cup {} = S
    OBVIOUS
  <2>2. QED
    BY <1>1, <1>3, <2>1 DEF N
<1>4. QED
  BY <1>2, <1>3

(* There are finitely many references. *)
LEMMA SlotsFinite ==
    ASSUME NEW F, NEW T, IsFiniteSet(T), NEW d
    PROVE  IsFiniteSet(SlotsOf(F, T, d))
<1>1. IsFiniteSet(1 .. 7)
  <2>1. 1 \in Int /\ 7 \in Int
    OBVIOUS
  <2>2. QED
    BY <2>1, FS_Interval, Zenon
<1>2. IsFiniteSet(T \X (1 .. 7))
  BY <1>1, FS_Product
<1>3. SlotsOf(F, T, d) \subseteq T \X (1 .. 7)
  BY DEF SlotsOf
<1>4. QED
  BY <1>2, <1>3, FS_Subset

(* The references to a dentry are those of one thread and those of the     *)
(* others.                                                                 *)
LEMMA CountSplit ==
    ASSUME NEW F, NEW t \in Threads, NEW d
    PROVE  LET r == Cardinality(SlotsOf(F, Threads \ {t}, d))
           IN  r \in Nat /\ Cardinality(SlotsOf(F, Threads, d)) = r + Num(F[t], d)
<1> DEFINE s == F[t]
           Q(k) == IF s[k] = d THEN {<<t, k>>} ELSE {}
           R0 == SlotsOf(F, Threads \ {t}, d)
           R1 == R0 \cup Q(1)
           R2 == R1 \cup Q(2)
           R3 == R2 \cup Q(3)
           R4 == R3 \cup Q(4)
           R5 == R4 \cup Q(5)
           R6 == R5 \cup Q(6)
           R7 == R6 \cup Q(7)
<1>1. IsFiniteSet(R0)
  BY ThreadsAssumption, FS_RemoveElement, SlotsFinite
<1>2. \A k \in 1 .. 7 : <<t, k>> \notin R0
  BY DEF SlotsOf
<1>3. /\ <<t, 1>> \notin R0 /\ <<t, 2>> \notin R1 /\ <<t, 3>> \notin R2 /\ <<t, 4>> \notin R3
      /\ <<t, 5>> \notin R4 /\ <<t, 6>> \notin R5 /\ <<t, 7>> \notin R6
  BY <1>2
<1>4. R7 = SlotsOf(F, Threads, d)
  BY DEF SlotsOf
<1> HIDE DEF R0, s
<1>5. IsFiniteSet(R1) /\ Cardinality(R1) = Cardinality(R0) + N(s[1] = d)
  BY <1>1, <1>3, AddSlot
<1> HIDE DEF R1
<1>6. IsFiniteSet(R2) /\ Cardinality(R2) = Cardinality(R1) + N(s[2] = d)
  BY <1>5, <1>3, AddSlot
<1> HIDE DEF R2
<1>7. IsFiniteSet(R3) /\ Cardinality(R3) = Cardinality(R2) + N(s[3] = d)
  BY <1>6, <1>3, AddSlot
<1> HIDE DEF R3
<1>8. IsFiniteSet(R4) /\ Cardinality(R4) = Cardinality(R3) + N(s[4] = d)
  BY <1>7, <1>3, AddSlot
<1> HIDE DEF R4
<1>9. IsFiniteSet(R5) /\ Cardinality(R5) = Cardinality(R4) + N(s[5] = d)
  BY <1>8, <1>3, AddSlot
<1> HIDE DEF R5
<1>10. IsFiniteSet(R6) /\ Cardinality(R6) = Cardinality(R5) + N(s[6] = d)
  BY <1>9, <1>3, AddSlot
<1> HIDE DEF R6
<1>11. IsFiniteSet(R7) /\ Cardinality(R7) = Cardinality(R6) + N(s[7] = d)
  BY <1>10, <1>3, AddSlot
<1>12. Cardinality(R0) \in Nat
  BY <1>1, FS_CardinalityType
<1>13. Cardinality(R7) = Cardinality(R0) + Num(F[t], d)
  BY <1>5, <1>6, <1>7, <1>8, <1>9, <1>10, <1>11, <1>12 DEF Num, s, N
<1>14. QED
  BY <1>4, <1>12, <1>13 DEF R0

---------------------------------------------------------------------------
(* Dentries                                                                *)

Nodes == [Dirents -> Dentry]

\* equal but for the handles and the protection
SameShape(a, b) ==
    /\ a.k = b.k /\ a.dir = b.dir /\ a.parent = b.parent /\ a.name = b.name
    /\ a.child = b.child /\ a.deleted = b.deleted

\* what _fs_dispose_dentry_contents leaves of a dentry
Gone == [Blank EXCEPT !.k = "gone"]

(* What is left of a freed dentry. *)
LEMMA GoneFacts ==
    Gone \in Dentry /\ Gone.k = "gone" /\ Gone.parent = None /\ Gone.child = NoChild
<1>1. NoChild \in [Names -> Dirents \cup {None}]
  BY DEF NoChild
<1>2. Blank \in Dentry /\ Blank.parent = None /\ Blank.child = NoChild
  BY <1>1 DEF Blank, Dentry
<1>3. QED
  BY <1>2 DEF Gone, Dentry

(* Handles and protection do not matter to the tree. *)
LEMMA ShapeTree ==
    ASSUME NEW n \in Nodes, NEW m \in Nodes, \A e \in Dirents : SameShape(n[e], m[e])
    PROVE  /\ \A e \in Dirents : Linked(n, e) <=> Linked(m, e)
           /\ TreeOK(n) => TreeOK(m)
<1>1. \A e \in Dirents : Linked(n, e) <=> Linked(m, e)
  BY RootAssumption DEF Nodes, Dentry, SameShape, Linked
<1>2. TreeOK(n) => TreeOK(m)
  BY <1>1, RootAssumption DEF TreeOK, SameShape, Nodes, Dentry
<1>3. QED
  BY <1>1, <1>2

(* A handle more, a handle less. *)
LEMMA TakeEffect ==
    ASSUME NEW n \in Nodes, NEW d \in Dirents
    PROVE  /\ Take(n, d) \in Nodes /\ Drop(n, d) \in Nodes
           /\ \A e \in Dirents : SameShape(n[e], Take(n, d)[e]) /\ SameShape(n[e], Drop(n, d)[e])
           /\ \A e \in Dirents \ {d} : Take(n, d)[e] = n[e] /\ Drop(n, d)[e] = n[e]
           /\ Take(n, d)[d].handles = n[d].handles + 1 /\ Drop(n, d)[d].handles = n[d].handles - 1
BY DEF Nodes, Dentry, Take, Drop, SameShape

(* A removed dentry has no entries. *)
LEMMA UnlinkedEmpty ==
    ASSUME NEW n \in Nodes, TreeOK(n), NEW d \in Dirents, ~Linked(n, d)
    PROVE  /\ Children(n, d) = {}
           /\ n[d].child = NoChild
           /\ \A e \in Dirents, x \in Names : n[e].child[x] # d
<1>1. \A x \in Names : n[d].child[x] = None
  BY DEF TreeOK
<1>2. \A e \in Dirents, x \in Names : n[e].child[x] # d
  BY RootAssumption DEF TreeOK, Linked, Nodes, Dentry
<1>3. QED
  BY <1>1, <1>2 DEF Children, NoChild, Nodes, Dentry

(* Nothing else goes with a dentry that has been removed. *)
LEMMA DisposeEffect ==
    ASSUME NEW n \in Nodes, TreeOK(n), NEW d \in Dirents, ~Linked(n, d)
    PROVE  _fs_dispose_dentry_contents(n, d) = [n EXCEPT ![d] = Gone]
<1> DEFINE next(e) == {c \in Children(n, e) : n[c].handles = 1}
           dead == Reached(d, LAMBDA e : {c \in Children(n, e) : n[c].handles = 1})
           kids == UNION {Children(n, e) : e \in dead}
<1>1. next(d) = {}
  BY UnlinkedEmpty
<1>2. dead = {d}
  <2>1. ASSUME NEW e \in Dirents \ {d} PROVE e \notin dead
    <3>1. {} \in SUBSET (Dirents \ {d, e}) /\ ~(\E f \in {} \cup {d} : ~(next(f) \subseteq {} \cup {d}))
      BY <1>1
    <3>2. QED
      BY <3>1 DEF Reached
  <2>2. QED
    BY <2>1 DEF Reached
<1>3. kids = {}
  <2>1. Children(n, d) = {}
    BY UnlinkedEmpty
  <2>2. kids = UNION {Children(n, d)}
    BY <1>2
  <2>3. QED
    BY <2>1, <2>2
<1> HIDE DEF dead, kids
<1>4. ASSUME NEW e \in Dirents \ {d}
      PROVE  [n[e] EXCEPT !.parent = IF e \in kids THEN None ELSE @,
                          !.child = [x \in Names |-> IF @[x] \in dead THEN None ELSE @[x]]] = n[e]
  <2>1. [x \in Names |-> IF n[e].child[x] \in dead THEN None ELSE n[e].child[x]] = n[e].child
    BY <1>2, UnlinkedEmpty DEF Nodes, Dentry
  <2>2. QED
    BY <1>3, <2>1 DEF Nodes, Dentry
<1>5. _fs_dispose_dentry_contents(n, d) =
        [e \in Dirents |->
            IF e \in dead THEN [Blank EXCEPT !.k = "gone"]
            ELSE [n[e] EXCEPT !.parent = IF e \in kids THEN None ELSE @,
                              !.child = [x \in Names |-> IF @[x] \in dead THEN None ELSE @[x]]]]
  BY DEF _fs_dispose_dentry_contents, dead, kids
<1>6. QED
  BY <1>2, <1>4, <1>5 DEF Gone, Nodes

\* what giving back a handle leaves of a dentry
Back(n, d) == IF n[d].handles > 1 THEN [n[d] EXCEPT !.handles = @ - 1] ELSE Gone

(* The last handle of a dentry that is not in the tree frees it, and only  *)
(* it.                                                                     *)
LEMMA ReleaseEffect ==
    ASSUME NEW n \in Nodes, TreeOK(n), NEW d \in Dirents, n[d].handles <= 1 => ~Linked(n, d)
    PROVE  LET m == fs_release_dentry_unlocked(n, d)
           IN  /\ m \in Nodes
               /\ TreeOK(m)
               /\ \A e \in Dirents \ {d} : m[e] = n[e]
               /\ m[d] = Back(n, d)
               /\ \A e \in Dirents : Linked(m, e) <=> Linked(n, e)
<1> DEFINE m == fs_release_dentry_unlocked(n, d)
<1>1. CASE n[d].handles > 1
  <2>1. m = [n EXCEPT ![d].handles = @ - 1]
    BY <1>1 DEF fs_release_dentry_unlocked
  <2>2. m \in Nodes /\ \A e \in Dirents : SameShape(n[e], m[e])
    BY <2>1 DEF Nodes, Dentry, SameShape
  <2>3. TreeOK(m) /\ \A e \in Dirents : Linked(m, e) <=> Linked(n, e)
    BY <2>2, ShapeTree
  <2>4. QED
    BY <1>1, <2>1, <2>2, <2>3 DEF Nodes, Back
<1>2. CASE ~(n[d].handles > 1)
  <2>1. ~Linked(n, d)
    BY <1>2 DEF Nodes, Dentry
  <2>2. m = [n EXCEPT ![d] = Gone]
    BY <1>2, <2>1, DisposeEffect DEF fs_release_dentry_unlocked
  <2>3. Gone \in Dentry /\ Gone.parent = None /\ Gone.child = NoChild
    BY GoneFacts
  <2>4. m \in Nodes
    BY <2>2, <2>3 DEF Nodes
  <2>5. \A e \in Dirents, x \in Names : n[e].child[x] # d
    BY <2>1, UnlinkedEmpty
  <2>6. ASSUME NEW e \in Dirents PROVE Linked(m, e) <=> Linked(n, e)
    <3>1. \A p \in Dirents, x \in Names : m[p].child[x] = n[p].child[x]
      BY <2>1, <2>2, <2>3, UnlinkedEmpty DEF Nodes
    <3>2. QED
      BY <3>1 DEF Linked
  <2>7. TreeOK(m)
    BY <2>1, <2>2, <2>3, <2>5, <2>6, RootAssumption DEF TreeOK, Nodes, Dentry, NoChild, Linked
  <2>8. QED
    BY <1>2, <2>2, <2>4, <2>6, <2>7 DEF Nodes, Back
<1>3. QED
  BY <1>1, <1>2

---------------------------------------------------------------------------
(* A step of one thread                                                    *)

Locks == [Keys -> [w : Threads \cup {None}, r : SUBSET Threads]]

\* the part of Inductive about one thread
Local(t) ==
    /\ OpInv(th[t]) /\ LocalInv(th[t])
    /\ th[t].op \in {"open", "create"} => open[t] = None
    /\ LockInv(lock, t, th[t]) /\ ViewInv(node, th[t]) /\ StableInv(node, th[t], open[t])

\* Inductive, while Sane
Inv == TypeOK /\ TreeOK(node) /\ BalanceInv /\ \A t \in Threads : Local(t)

\* the contents_locks of others
LocksKept(t) ==
    /\ lock' \in Locks
    /\ \A u \in Threads \ {t}, d \in Dirents : /\ lock[C(d)].w = u => lock'[C(d)].w = u
                                               /\ u \in lock[C(d)].r => u \in lock'[C(d)].r

\* A table changes only under its lock.
TablesKept(t) ==
    \A p \in Dirents : node'[p].child = node[p].child \/ (lock[C(p)].w = t /\ lock[C(p)].r = {})

\* What a dentry that stays in use keeps.
StatesKept(t) ==
    \A d \in Dirents : node[d].k = "used" /\ node'[d].k = "used" =>
        /\ node[d].deleted => node'[d].deleted
        /\ Linked(node, d) => Linked(node', d) \/ node'[d].deleted
        /\ ~Linked(node, d) /\ ~node[d].deleted /\ Num(Owned(t), d) = 0 => node'[d] = node[d]

\* The handles follow the references of the call and of the tables: they are a
\* before and b after the step.
Balanced(t, rec, o) ==
    \A d \in Dirents :
        LET a == Num(Owned(t), d) + N(Linked(node, d))
            b == Num(Refs(rec, o), d) + N(Linked(node', d))
        IN  \/ /\ node[d].k = "used" /\ node'[d].k = "used"
               /\ node'[d].handles >= 1 \/ b >= 1
               /\ node'[d].handles >= node[d].handles + b - a
               /\ ~forgot' => node'[d].handles = node[d].handles + b - a
            \/ /\ node[d].k # "used" /\ node'[d].k = "used" /\ b >= 1 /\ node'[d].handles = b
            \/ /\ node'[d].k # "used" /\ b = 0 /\ (node[d].k = "used" => a >= node[d].handles)
               /\ node'[d].child = NoChild /\ node'[d].parent = None

\* The references of the call are old ones, or to dentries in the tree.
RefsFound(t, rec, o) ==
    \A d \in Dirents : Num(Refs(rec, o), d) > 0 =>
        \/ Num(Owned(t), d) > 0 /\ th[t].pc # "link"
        \/ Linked(node', d)
        \/ rec.pc = "link" /\ d = rec.fd

(* A dentry counts if it is one of the references. *)
LEMMA NumSlot ==
    ASSUME NEW rec, NEW o, NEW d
    PROVE  LET s == Refs(rec, o)
           IN  Num(s, d) \in Nat /\ (Num(s, d) > 0 <=> \E i \in 1 .. 7 : s[i] = d)
<1> DEFINE s == Refs(rec, o)
<1>1. /\ N(s[1] = d) \in Nat /\ N(s[2] = d) \in Nat /\ N(s[3] = d) \in Nat /\ N(s[4] = d) \in Nat
      /\ N(s[5] = d) \in Nat /\ N(s[6] = d) \in Nat /\ N(s[7] = d) \in Nat
  BY DEF N
<1>2. (\E i \in 1 .. 7 : s[i] = d) <=>
        \/ s[1] = d \/ s[2] = d \/ s[3] = d \/ s[4] = d \/ s[5] = d \/ s[6] = d \/ s[7] = d
  <2>1. \A i \in 1 .. 7 : i = 1 \/ i = 2 \/ i = 3 \/ i = 4 \/ i = 5 \/ i = 6 \/ i = 7
    OBVIOUS
  <2>2. 1 \in 1 .. 7 /\ 2 \in 1 .. 7 /\ 3 \in 1 .. 7 /\ 4 \in 1 .. 7 /\ 5 \in 1 .. 7 /\ 6 \in 1 .. 7 /\ 7 \in 1 .. 7
    OBVIOUS
  <2> HIDE DEF s
  <2>3. QED
    BY <2>1, <2>2
<1> HIDE DEF s
<1>3. Num(s, d) \in Nat /\ (Num(s, d) > 0 <=> \E i \in 1 .. 7 : s[i] = d)
  BY <1>1, <1>2 DEF Num, N
<1>4. QED
  BY <1>3 DEF s

\* Count, from the calls, the open files and the tree
CountIn(h, p, n, d) == Cardinality(SlotsOf([u \in Threads |-> Refs(h[u], p[u])], Threads, d)) + N(Linked(n, d))

(* The same number, before and after a step. *)
LEMMA CountIs ==
    ASSUME NEW d
    PROVE  Count(d) = CountIn(th, open, node, d) /\ Count(d)' = CountIn(th', open', node', d)
<1> DEFINE F == [u \in Threads |-> Refs(th[u], open[u])]
           G == [u \in Threads |-> Refs(th'[u], open'[u])]
<1>1. \A u \in Threads : F[u] = Owned(u) /\ G[u] = Owned(u)'
  BY DEF Owned
<1>2. Slots(Threads, d) = SlotsOf(F, Threads, d) /\ Slots(Threads, d)' = SlotsOf(G, Threads, d)
  <2> HIDE DEF F, G
  <2>1. QED
    BY <1>1 DEF Slots, SlotsOf
<1>3. QED
  BY <1>2 DEF Count, CountIn, N

\* What a step adds to the references, and what the other threads have.
Counted(t, h, p, h2, p2, n, m, d) ==
    \E r \in Nat : /\ CountIn(h, p, n, d) = r + Num(Refs(h[t], p[t]), d) + N(Linked(n, d))
                   /\ CountIn(h2, p2, m, d) = r + Num(Refs(h2[t], p2[t]), d) + N(Linked(m, d))
                   /\ \A u \in Threads \ {t} : Num(Refs(h[u], p[u]), d) > 0 => r > 0

(* The references of the others are the same before and after a step. *)
LEMMA Counting ==
    ASSUME NEW t \in Threads, NEW h, NEW p, NEW h2, NEW p2, NEW n, NEW m, NEW d,
           \A u \in Threads \ {t} : h2[u] = h[u] /\ p2[u] = p[u]
    PROVE  Counted(t, h, p, h2, p2, n, m, d)
<1> DEFINE F == [u \in Threads |-> Refs(h[u], p[u])]
           G == [u \in Threads |-> Refs(h2[u], p2[u])]
           r == Cardinality(SlotsOf(F, Threads \ {t}, d))
<1>1. F[t] = Refs(h[t], p[t]) /\ G[t] = Refs(h2[t], p2[t])
  OBVIOUS
<1>2. SlotsOf(F, Threads \ {t}, d) = SlotsOf(G, Threads \ {t}, d)
  <2>1. \A u \in Threads \ {t} : F[u] = G[u]
    OBVIOUS
  <2> HIDE DEF F, G
  <2>2. QED
    BY <2>1 DEF SlotsOf
<1>3. ASSUME NEW u \in Threads \ {t}, Num(Refs(h[u], p[u]), d) > 0 PROVE r > 0
  <2>1. PICK i \in 1 .. 7 : Refs(h[u], p[u])[i] = d
    BY <1>3, NumSlot
  <2>2. <<u, i>> \in SlotsOf(F, Threads \ {t}, d)
    BY <2>1 DEF SlotsOf
  <2>3. IsFiniteSet(SlotsOf(F, Threads \ {t}, d))
    BY ThreadsAssumption, FS_RemoveElement, SlotsFinite
  <2>4. r # 0
    BY <2>2, <2>3, FS_EmptySet
  <2>5. QED
    BY <2>3, <2>4, FS_CardinalityType
<1>4. /\ CountIn(h, p, n, d) = Cardinality(SlotsOf(F, Threads, d)) + N(Linked(n, d))
      /\ CountIn(h2, p2, m, d) = Cardinality(SlotsOf(G, Threads, d)) + N(Linked(m, d))
  BY DEF CountIn
<1> HIDE DEF F, G
<1>5. r \in Nat /\ Cardinality(SlotsOf(F, Threads, d)) = r + Num(F[t], d)
  BY CountSplit
<1>6. Cardinality(SlotsOf(G, Threads, d)) = r + Num(G[t], d)
  BY <1>2, CountSplit
<1> HIDE DEF r
<1>7. QED
  BY <1>1, <1>3, <1>4, <1>5, <1>6 DEF Counted

(* What a call has locked, in terms of the locks only. *)
LEMMA LocksStay ==
    ASSUME NEW l, NEW m, NEW u, NEW rec \in Call, LocalInv(rec), LockInv(l, u, rec),
           \A d \in Dirents : (l[C(d)].w = u => m[C(d)].w = u) /\ (u \in l[C(d)].r => u \in m[C(d)].r)
    PROVE  LockInv(m, u, rec)
<1>1. /\ rec.pc \in CreatePc \cup RenamePc => rec.tdir \in Dirents
      /\ rec.pc \in RenamePc => rec.fdir \in Dirents
      /\ rec.pc = "hop" => rec.d \in Dirents
      /\ rec.pc \in {"find", "drop"} \cup UnlinkPc => rec.par \in Dirents
  BY DEF LocalInv, Call
<1>2. FirstPc \subseteq RenamePc /\ BothPc \subseteq RenamePc /\ {"create", "link"} \subseteq CreatePc
  BY DEF FirstPc, RenamePc, BothPc, CreatePc
<1>3. rec.pc \in FirstPc => First(rec) \in Dirents
  BY <1>1, <1>2 DEF First
<1>4. QED
  BY <1>1, <1>2, <1>3 DEF LockInv

(* A reference is a dentry or None. *)
LEMMA RefsType ==
    ASSUME NEW rec \in Call, NEW o \in Dirents \cup {None}, NEW i \in 1 .. 7
    PROVE  Refs(rec, o)[i] \in Dirents \cup {None}
<1>1. i = 1 \/ i = 2 \/ i = 3 \/ i = 4 \/ i = 5 \/ i = 6 \/ i = 7
  OBVIOUS
<1>2. QED
  BY <1>1 DEF Refs, Call

\* What a step does but for the tree.
Taken(t, rec, o) ==
    /\ rec \in Call /\ o \in Dirents \cup {None}
    /\ th' = [th EXCEPT ![t] = rec] /\ open' = [open EXCEPT ![t] = o] /\ site' = site /\ (forgot => forgot')
    /\ OpInv(rec) /\ LocalInv(rec) /\ (rec.op \in {"open", "create"} => o = None)
    /\ LocksKept(t) /\ LockInv(lock', t, rec) /\ ViewInv(node', rec)

(* The invariant after a step, from what the step does to the tree and to  *)
(* the call that takes it.                                                 *)
LEMMA Assemble ==
    ASSUME Inv, NEW t \in Threads, NEW rec, NEW o, Taken(t, rec, o),
           node' \in Nodes, TreeOK(node'), TablesKept(t), StatesKept(t), Balanced(t, rec, o), RefsFound(t, rec, o)
    PROVE  Inv'
<1> rec \in Call /\ o \in Dirents \cup {None}
  BY DEF Taken
<1> /\ th' = [th EXCEPT ![t] = rec] /\ open' = [open EXCEPT ![t] = o] /\ site' = site /\ (forgot => forgot')
    /\ OpInv(rec) /\ LocalInv(rec) /\ (rec.op \in {"open", "create"} => o = None)
    /\ LocksKept(t) /\ LockInv(lock', t, rec) /\ ViewInv(node', rec)
  BY DEF Taken
<1>1. th'[t] = rec /\ open'[t] = o /\ \A u \in Threads \ {t} : th'[u] = th[u] /\ open'[u] = open[u]
  BY DEF Inv, TypeOK
<1>2. TypeOK'
  BY DEF Inv, TypeOK, LocksKept, Locks, Nodes
<1>3. \A d \in Dirents : Num(Owned(t), d) \in Nat /\ Num(Refs(rec, o), d) \in Nat
  BY NumSlot DEF Owned
<1>4. \A d \in Dirents : node[d].handles \in Int /\ node'[d].handles \in Int
  BY DEF Inv, TypeOK, Nodes, Dentry
<1>5. \A d \in Dirents : \E r \in Nat :
        /\ Count(d) = r + Num(Owned(t), d) + N(Linked(node, d))
        /\ Count(d)' = r + Num(Refs(rec, o), d) + N(Linked(node', d))
        /\ \A u \in Threads \ {t} : Num(Owned(u), d) > 0 => r > 0
  <2> SUFFICES ASSUME NEW d \in Dirents
               PROVE  \E r \in Nat : /\ Count(d) = r + Num(Owned(t), d) + N(Linked(node, d))
                                     /\ Count(d)' = r + Num(Refs(rec, o), d) + N(Linked(node', d))
                                     /\ \A u \in Threads \ {t} : Num(Owned(u), d) > 0 => r > 0
    OBVIOUS
  <2>1. PICK r \in Nat :
            /\ CountIn(th, open, node, d) = r + Num(Refs(th[t], open[t]), d) + N(Linked(node, d))
            /\ CountIn(th', open', node', d) = r + Num(Refs(th'[t], open'[t]), d) + N(Linked(node', d))
            /\ \A u \in Threads \ {t} : Num(Refs(th[u], open[u]), d) > 0 => r > 0
    <3>1. Counted(t, th, open, th', open', node, node', d)
      BY <1>1, Counting
    <3>2. QED
      BY <3>1 DEF Counted
  <2>2. Count(d) = CountIn(th, open, node, d) /\ Count(d)' = CountIn(th', open', node', d)
    BY CountIs
  <2>3. QED
    BY <1>1, <2>1, <2>2 DEF Owned
<1>6. BalanceInv'
  <2> SUFFICES ASSUME NEW d \in Dirents
               PROVE  IF node'[d].k = "used"
                      THEN /\ node'[d].handles >= 1 /\ node'[d].handles >= Count(d)'
                           /\ ~forgot' => node'[d].handles = Count(d)'
                      ELSE Count(d)' = 0 /\ node'[d].child = NoChild /\ node'[d].parent = None
    BY DEF BalanceInv
  <2> DEFINE a == Num(Owned(t), d) + N(Linked(node, d))
             b == Num(Refs(rec, o), d) + N(Linked(node', d))
  <2>1. a \in Nat /\ b \in Nat
    BY <1>3 DEF N
  <2>2. PICK r \in Nat : Count(d) = r + a /\ Count(d)' = r + b
    <3>1. PICK r \in Nat : /\ Count(d) = r + Num(Owned(t), d) + N(Linked(node, d))
                           /\ Count(d)' = r + Num(Refs(rec, o), d) + N(Linked(node', d))
      BY <1>5
    <3>2. N(Linked(node, d)) \in Nat /\ N(Linked(node', d)) \in Nat
      BY DEF N
    <3>3. QED
      BY <1>3, <3>1, <3>2
  <2>3. IF node[d].k = "used"
        THEN node[d].handles >= r + a /\ (~forgot => node[d].handles = r + a)
        ELSE r + a = 0
    BY <2>2 DEF Inv, BalanceInv
  <2>4. \/ /\ node[d].k = "used" /\ node'[d].k = "used"
           /\ node'[d].handles >= 1 \/ b >= 1
           /\ node'[d].handles >= node[d].handles + b - a
           /\ ~forgot' => node'[d].handles = node[d].handles + b - a
        \/ /\ node[d].k # "used" /\ node'[d].k = "used" /\ b >= 1 /\ node'[d].handles = b
        \/ /\ node'[d].k # "used" /\ b = 0 /\ (node[d].k = "used" => a >= node[d].handles)
           /\ node'[d].child = NoChild /\ node'[d].parent = None
    BY DEF Balanced
  <2> HIDE DEF a, b
  <2>5. CASE node[d].k = "used" /\ node'[d].k = "used"
    <3>1. node'[d].handles >= 1 /\ node'[d].handles >= Count(d)'
      BY <1>4, <2>1, <2>2, <2>3, <2>4, <2>5
    <3>2. ASSUME ~forgot' PROVE node'[d].handles = Count(d)'
      <4>1. node[d].handles = r + a
        BY <2>3, <2>5, <3>2
      <4>2. node'[d].handles = node[d].handles + b - a
        BY <2>4, <2>5, <3>2
      <4>3. QED
        BY <1>4, <2>1, <2>2, <4>1, <4>2
    <3>3. QED
      BY <2>5, <3>1, <3>2
  <2>6. CASE node[d].k # "used" /\ node'[d].k = "used"
    <3>1. r = 0 /\ b >= 1 /\ node'[d].handles = b
      BY <2>1, <2>2, <2>3, <2>4, <2>6
    <3>2. QED
      BY <2>1, <2>2, <2>6, <3>1
  <2>7. CASE node'[d].k # "used"
    <3>1. r = 0 /\ b = 0
      BY <1>4, <2>1, <2>2, <2>3, <2>4, <2>7
    <3>2. QED
      BY <2>2, <2>4, <2>7, <3>1
  <2>8. QED
    BY <2>5, <2>6, <2>7
<1>7. ASSUME NEW u \in Threads \ {t}, NEW d \in Dirents, Num(Owned(u), d) > 0 PROVE node'[d].k = "used"
  <2> DEFINE a == Num(Owned(t), d) + N(Linked(node, d))
  <2>1. a \in Nat
    BY <1>3 DEF N
  <2>2. PICK r \in Nat : Count(d) = r + a /\ r > 0
    <3>1. PICK r \in Nat : Count(d) = r + Num(Owned(t), d) + N(Linked(node, d)) /\ r > 0
      BY <1>5, <1>7
    <3>2. N(Linked(node, d)) \in Nat
      BY DEF N
    <3>3. QED
      BY <1>3, <3>1, <3>2
  <2>3. node[d].k = "used" /\ node[d].handles >= Count(d)
    BY <2>1, <2>2 DEF Inv, BalanceInv
  <2>4. node'[d].k # "used" => a >= node[d].handles
    BY <2>3 DEF Balanced
  <2> HIDE DEF a
  <2>5. QED
    BY <1>4, <2>1, <2>2, <2>3, <2>4
<1>8. ASSUME NEW u \in Threads \ {t} PROVE Local(u)'
  <2>1. Local(u) /\ th[u] \in Call /\ open[u] \in Dirents \cup {None}
    BY DEF Inv, TypeOK
  <2>2. LockInv(lock', u, th[u])
    <3>1. \A d \in Dirents : /\ lock[C(d)].w = u => lock'[C(d)].w = u
                             /\ u \in lock[C(d)].r => u \in lock'[C(d)].r
      BY DEF LocksKept
    <3>2. LocalInv(th[u]) /\ LockInv(lock, u, th[u])
      BY <2>1 DEF Local
    <3>3. QED
      BY <2>1, <3>1, <3>2, LocksStay
  <2>3. ViewInv(node', th[u])
    <3>1. \A p \in Dirents : lock[C(p)].w = u \/ u \in lock[C(p)].r => node'[p].child = node[p].child
      BY DEF TablesKept
    <3>2. th[u].pc = "link" => node'[th[u].fd] = node[th[u].fd]
      <4> SUFFICES ASSUME th[u].pc = "link" PROVE node'[th[u].fd] = node[th[u].fd]
        OBVIOUS
      <4> DEFINE d == th[u].fd
      <4>1. d \in Dirents /\ Num(Owned(u), d) > 0
        <5>1. d \in Dirents
          BY <2>1 DEF Local, LocalInv, CreatePc, Call
        <5>2. 5 \in 1 .. 7 /\ Owned(u)[5] = d
          BY DEF Owned, Refs
        <5>3. QED
          BY <5>1, <5>2, NumSlot DEF Owned
      <4>2. Fresh(node, d, th[u].req.name)
        BY <2>1 DEF Local, ViewInv
      <4> HIDE DEF d
      <4>3. ~Linked(node, d) /\ ~node[d].deleted
        BY <4>1, <4>2, RootAssumption DEF Fresh, Linked, Inv, TreeOK
      <4>4. node'[d].k = "used" /\ node[d].k = "used" /\ node[d].handles = 1
        BY <1>7, <4>1, <4>2 DEF Fresh
      <4>5. Num(Owned(t), d) = 0
        <5>1. PICK r \in Nat : Count(d) = r + Num(Owned(t), d) + N(Linked(node, d)) /\ r > 0
          BY <1>5, <4>1
        <5>2. N(Linked(node, d)) \in Nat
          BY DEF N
        <5>3. 1 >= Count(d)
          BY <4>1, <4>4 DEF Inv, BalanceInv
        <5>4. QED
          BY <1>3, <4>1, <5>1, <5>2, <5>3
      <4>6. node'[d] = node[d]
        BY <4>1, <4>3, <4>4, <4>5 DEF StatesKept
      <4>7. QED
        BY <4>6 DEF d
    <3>3. LocalInv(th[u]) /\ LockInv(lock, u, th[u]) /\ ViewInv(node, th[u])
      BY <2>1 DEF Local
    <3>4. /\ th[u].par \in Dirents \cup {None} /\ th[u].d \in Dirents \cup {None}
          /\ th[u].fdir \in Dirents \cup {None} /\ th[u].tdir \in Dirents \cup {None}
      BY <2>1 DEF Call
    <3>5. QED
      BY <3>1, <3>2, <3>3, <3>4
      DEF LockInv, LocalInv, ViewInv, Fresh, First, FirstPc, BothPc, UnlinkPc, RenamePc, CreatePc, TargetPc
  <2>4. StableInv(node', th[u], open[u])
    <3> SUFFICES ASSUME NEW i \in 1 .. 7, Refs(th[u], open[u])[i] # None
                 PROVE  LET d == Refs(th[u], open[u])[i]
                        IN  /\ node'[d].k = "used"
                            /\ node'[d].deleted \/ Linked(node', d) \/ (th[u].pc = "link" /\ d = th[u].fd)
      BY DEF StableInv
    <3> DEFINE d == Refs(th[u], open[u])[i]
    <3>1. d \in Dirents
      BY <2>1, RefsType
    <3>2. Num(Owned(u), d) > 0
      BY NumSlot DEF Owned
    <3>3. node'[d].k = "used"
      BY <1>7, <3>1, <3>2
    <3>4. node[d].k = "used" /\ (node[d].deleted \/ Linked(node, d) \/ (th[u].pc = "link" /\ d = th[u].fd))
      BY <2>1, <3>1, RootAssumption DEF Local, StableInv
    <3> HIDE DEF d
    <3>5. QED
      BY <3>1, <3>3, <3>4 DEF StatesKept, d
  <2>5. QED
    BY <1>1, <2>1, <2>2, <2>3, <2>4 DEF Local
<1>9. Local(t)'
  <2>1. StableInv(node', rec, o)
    <3> SUFFICES ASSUME NEW i \in 1 .. 7, Refs(rec, o)[i] # None
                 PROVE  LET d == Refs(rec, o)[i]
                        IN  /\ node'[d].k = "used"
                            /\ node'[d].deleted \/ Linked(node', d) \/ (rec.pc = "link" /\ d = rec.fd)
      BY DEF StableInv
    <3> DEFINE d == Refs(rec, o)[i]
    <3>1. d \in Dirents
      BY RefsType
    <3>2. Num(Refs(rec, o), d) > 0
      BY NumSlot
    <3> HIDE DEF d
    <3>3. node'[d].k = "used"
      <4>1. N(Linked(node', d)) \in Nat
        BY DEF N
      <4>2. Num(Refs(rec, o), d) + N(Linked(node', d)) # 0
        BY <1>3, <3>1, <3>2, <4>1
      <4>3. QED
        BY <3>1, <4>2 DEF Balanced
    <3>4. CASE Num(Owned(t), d) > 0 /\ th[t].pc # "link"
      <4>1. PICK j \in 1 .. 7 : Owned(t)[j] = d
        BY <3>4, NumSlot DEF Owned
      <4>2. node[d].k = "used" /\ (node[d].deleted \/ Linked(node, d))
        BY <3>1, <3>4, <4>1, RootAssumption DEF Inv, Local, StableInv, Owned
      <4>3. QED
        BY <3>1, <3>3, <4>2 DEF StatesKept, d
    <3>5. QED
      BY <3>1, <3>2, <3>3, <3>4 DEF RefsFound, d
  <2>2. QED
    BY <1>1, <2>1 DEF Local
<1>10. QED
  BY <1>2, <1>6, <1>8, <1>9 DEF Inv

---------------------------------------------------------------------------
(* Steps that leave the tables alone                                       *)

\* A dentry gives back k handles.
GivesBack(n, m, d, k) ==
    IF k = 0 THEN m[d] = n[d]
    ELSE \/ SameShape(n[d], m[d]) /\ m[d].handles = n[d].handles - k /\ m[d].handles >= 1
         \/ m[d] = Gone /\ ~Linked(n, d) /\ n[d].handles <= k

(* A dentry that a call refers to is in use. *)
LEMMA InUse ==
    ASSUME Inv, NEW t \in Threads, NEW d \in Dirents
    PROVE  /\ Num(Owned(t), d) \in Nat /\ node[d].handles \in Int
           /\ N(Linked(node, d)) \in Nat
           /\ node[d].k = "used" => node[d].handles >= Num(Owned(t), d) + N(Linked(node, d)) /\ node[d].handles >= 1
           /\ node[d].k # "used" => Num(Owned(t), d) = 0 /\ ~Linked(node, d)
                                    /\ node[d].child = NoChild /\ node[d].parent = None
<1>1. Num(Owned(t), d) \in Nat /\ N(Linked(node, d)) \in Nat
  BY NumSlot DEF Owned, N
<1>2. node[d].handles \in Int
  BY DEF Inv, TypeOK, Dentry
<1>3. PICK r \in Nat : Count(d) = r + Num(Owned(t), d) + N(Linked(node, d))
  <2>1. Counted(t, th, open, th, open, node, node, d)
    BY Counting
  <2>2. PICK r \in Nat : CountIn(th, open, node, d) = r + Num(Refs(th[t], open[t]), d) + N(Linked(node, d))
    BY <2>1 DEF Counted
  <2>3. QED
    BY <2>2, CountIs DEF Owned
<1>4. node[d].k = "used" => node[d].handles >= Count(d) /\ node[d].handles >= 1
  BY DEF Inv, BalanceInv
<1>5. node[d].k # "used" => Count(d) = 0 /\ node[d].child = NoChild /\ node[d].parent = None
  BY DEF Inv, BalanceInv
<1>6. node[d].k # "used" => Num(Owned(t), d) = 0 /\ N(Linked(node, d)) = 0
  BY <1>1, <1>3, <1>5
<1>7. QED
  BY <1>1, <1>2, <1>3, <1>4, <1>5, <1>6 DEF N

(* A step that gives back, or forgets, references. *)
LEMMA Releasing ==
    ASSUME Inv, NEW t \in Threads, NEW rec, NEW o, Taken(t, rec, o), th[t].pc # "link",
           node' \in Nodes, TreeOK(node'), \A d \in Dirents : Linked(node', d) <=> Linked(node, d),
           \A d \in Dirents : \E k \in Nat :
               /\ GivesBack(node, node', d, k)
               /\ Num(Refs(rec, o), d) <= Num(Owned(t), d) - k
               /\ ~forgot' => Num(Refs(rec, o), d) = Num(Owned(t), d) - k
               /\ k > 0 => Num(Refs(rec, o), d) = Num(Owned(t), d) - k
    PROVE  Inv'
<1> SUFFICES ASSUME NEW d \in Dirents
             PROVE  /\ node'[d].child = node[d].child
                    /\ node[d].k = "used" /\ node'[d].k = "used" =>
                        /\ node[d].deleted => node'[d].deleted
                        /\ Num(Owned(t), d) = 0 => node'[d] = node[d]
                    /\ LET a == Num(Owned(t), d) + N(Linked(node, d))
                           b == Num(Refs(rec, o), d) + N(Linked(node', d))
                       IN  \/ /\ node[d].k = "used" /\ node'[d].k = "used"
                              /\ node'[d].handles >= 1 \/ b >= 1
                              /\ node'[d].handles >= node[d].handles + b - a
                              /\ ~forgot' => node'[d].handles = node[d].handles + b - a
                           \/ /\ node'[d].k # "used" /\ b = 0 /\ (node[d].k = "used" => a >= node[d].handles)
                              /\ node'[d].child = NoChild /\ node'[d].parent = None
                    /\ Num(Refs(rec, o), d) > 0 => Num(Owned(t), d) > 0
  <2>1. TablesKept(t) /\ StatesKept(t)
    BY DEF TablesKept, StatesKept
  <2>2. Balanced(t, rec, o)
    BY DEF Balanced
  <2>3. RefsFound(t, rec, o)
    BY DEF RefsFound
  <2>4. QED
    BY <2>1, <2>2, <2>3, Assemble
<1> DEFINE x == Num(Owned(t), d)
           y == Num(Refs(rec, o), d)
           l == N(Linked(node, d))
<1>1. PICK k \in Nat : /\ GivesBack(node, node', d, k) /\ y <= x - k
                       /\ ~forgot' => y = x - k
                       /\ k > 0 => y = x - k
  OBVIOUS
<1>2. /\ x \in Nat /\ l \in Nat /\ node[d].handles \in Int
      /\ node[d].k = "used" => node[d].handles >= x + l /\ node[d].handles >= 1
      /\ node[d].k # "used" => x = 0 /\ l = 0 /\ node[d].child = NoChild /\ node[d].parent = None
  BY InUse DEF N
<1>3. y \in Nat /\ N(Linked(node', d)) = l /\ (~Linked(node, d) => l = 0)
  BY NumSlot DEF N
<1> HIDE DEF x, y, l
<1>4. CASE k = 0
  <2>1. node'[d] = node[d] /\ y <= x /\ (~forgot' => y = x)
    BY <1>1, <1>2, <1>3, <1>4 DEF GivesBack
  <2>2. node'[d].handles >= node[d].handles + (y + l) - (x + l)
    BY <1>2, <1>3, <2>1
  <2>3. ASSUME ~forgot' PROVE node'[d].handles = node[d].handles + (y + l) - (x + l)
    BY <1>2, <1>3, <2>1, <2>3
  <2>4. node[d].k # "used" => y + l = 0
    BY <1>2, <1>3, <2>1
  <2>5. y > 0 => x > 0
    BY <1>2, <1>3, <2>1
  <2>6. QED
    BY <1>2, <1>3, <2>1, <2>2, <2>3, <2>4, <2>5 DEF x, y, l
<1>5. CASE k > 0
  <2>1. y = x - k /\ x > 0 /\ node[d].k = "used"
    BY <1>1, <1>2, <1>3, <1>5
  <2>2. CASE SameShape(node[d], node'[d]) /\ node'[d].handles = node[d].handles - k /\ node'[d].handles >= 1
    <3>1. node'[d].handles = node[d].handles + (y + l) - (x + l)
      BY <1>2, <1>3, <2>1, <2>2
    <3>2. node'[d].handles >= node[d].handles + (y + l) - (x + l)
      BY <1>2, <1>3, <2>1, <2>2
    <3>3. QED
      BY <1>2, <1>3, <2>1, <2>2, <3>1, <3>2 DEF x, y, l, SameShape
  <2>3. CASE node'[d] = Gone /\ ~Linked(node, d) /\ node[d].handles <= k
    <3>1. y = 0 /\ l = 0 /\ x >= node[d].handles
      BY <1>2, <1>3, <2>1, <2>3
    <3>2. node[d].child = NoChild
      BY <2>3, UnlinkedEmpty DEF Inv, TypeOK, Nodes
    <3>3. node'[d].k # "used" /\ node'[d].child = NoChild /\ node'[d].parent = None
      BY <2>3, GoneFacts
    <3>4. y + l = 0 /\ x + l >= node[d].handles /\ ~(y > 0)
      BY <1>2, <1>3, <3>1
    <3>5. QED
      BY <1>3, <3>2, <3>3, <3>4 DEF x, y, l
  <2>4. QED
    BY <1>1, <1>5, <2>2, <2>3 DEF GivesBack
<1>6. QED
  BY <1>4, <1>5

(* A step that leaves the dentries alone. *)
LEMMA Calm ==
    ASSUME Inv, NEW t \in Threads, NEW rec, NEW o, Taken(t, rec, o), th[t].pc # "link", node' = node,
           \A d \in Dirents : /\ Num(Refs(rec, o), d) <= Num(Owned(t), d)
                              /\ ~forgot' => Num(Refs(rec, o), d) = Num(Owned(t), d)
    PROVE  Inv'
<1>1. node' \in Nodes /\ TreeOK(node')
  BY DEF Inv, TypeOK, Nodes
<1>2. ASSUME NEW d \in Dirents
      PROVE  /\ GivesBack(node, node', d, 0)
             /\ Num(Refs(rec, o), d) <= Num(Owned(t), d) - 0
             /\ ~forgot' => Num(Refs(rec, o), d) = Num(Owned(t), d) - 0
             /\ ~(0 > 0)
  BY NumSlot DEF GivesBack, Owned
<1>3. QED
  BY <1>1, <1>2, Releasing

(* A step that gives back one handle, and frees the dentry with the last. *)
LEMMA ReleaseOne ==
    ASSUME Inv, NEW t \in Threads, NEW rec, NEW o, Taken(t, rec, o), th[t].pc # "link",
           NEW p \in Dirents, node' = fs_release_dentry_unlocked(node, p),
           \A d \in Dirents : Num(Refs(rec, o), d) = Num(Owned(t), d) - N(d = p)
    PROVE  Inv'
<1>1. node \in Nodes /\ TreeOK(node)
  BY DEF Inv, TypeOK, Nodes
<1>2. Num(Owned(t), p) >= 1
  <2>1. Num(Refs(rec, o), p) \in Nat /\ Num(Owned(t), p) \in Nat
    BY NumSlot DEF Owned
  <2>2. QED
    BY <2>1 DEF N
<1>3. node[p].handles \in Int /\ node[p].handles >= 1 + N(Linked(node, p)) /\ N(Linked(node, p)) \in Nat
  BY <1>2, InUse
<1>4. node[p].handles <= 1 => ~Linked(node, p)
  BY <1>3 DEF N
<1>5. /\ node' \in Nodes /\ TreeOK(node') /\ \A d \in Dirents : Linked(node', d) <=> Linked(node, d)
      /\ \A d \in Dirents \ {p} : node'[d] = node[d]
      /\ node'[p] = Back(node, p)
  BY <1>1, <1>4, ReleaseEffect
<1>6. \A d \in Dirents : GivesBack(node, node', d, N(d = p)) /\ N(d = p) \in Nat
  <2>1. \A d \in Dirents \ {p} : GivesBack(node, node', d, N(d = p)) /\ N(d = p) \in Nat
    BY <1>5 DEF GivesBack, N
  <2>2. GivesBack(node, node', p, 1)
    <3>1. CASE node[p].handles > 1
      BY <1>1, <1>3, <1>5, <3>1 DEF GivesBack, Back, SameShape, Nodes, Dentry
    <3>2. CASE ~(node[p].handles > 1)
      BY <1>3, <1>4, <1>5, <3>2 DEF GivesBack, Back
    <3>3. QED
      BY <3>1, <3>2
  <2>3. QED
    BY <2>1, <2>2 DEF N
<1>7. ASSUME NEW d \in Dirents
      PROVE  \E k \in Nat : /\ GivesBack(node, node', d, k)
                            /\ Num(Refs(rec, o), d) <= Num(Owned(t), d) - k
                            /\ ~forgot' => Num(Refs(rec, o), d) = Num(Owned(t), d) - k
                            /\ k > 0 => Num(Refs(rec, o), d) = Num(Owned(t), d) - k
  <2> N(d = p) \in Nat
    BY DEF N
  <2> WITNESS N(d = p) \in Nat
  <2>1. Num(Refs(rec, o), d) \in Nat
    BY NumSlot
  <2>2. QED
    BY <1>6, <2>1
<1>8. QED
  BY <1>5, <1>7, Releasing

(* A step that takes a handle of a dentry in the tree. *)
LEMMA TakeOne ==
    ASSUME Inv, NEW t \in Threads, NEW rec, NEW o, Taken(t, rec, o), th[t].pc # "link",
           NEW c \in Dirents, Linked(node, c), node' = Take(node, c),
           \A d \in Dirents : Num(Refs(rec, o), d) = Num(Owned(t), d) + N(d = c)
    PROVE  Inv'
<1>1. node \in Nodes /\ TreeOK(node)
  BY DEF Inv, TypeOK, Nodes
<1>2. /\ node' \in Nodes /\ \A d \in Dirents : SameShape(node[d], node'[d])
      /\ \A d \in Dirents \ {c} : node'[d] = node[d]
      /\ node'[c].handles = node[c].handles + 1
  BY <1>1, TakeEffect
<1>3. TreeOK(node') /\ \A d \in Dirents : Linked(node', d) <=> Linked(node, d)
  BY <1>1, <1>2, ShapeTree
<1>4. TablesKept(t) /\ StatesKept(t)
  BY <1>2, <1>3 DEF TablesKept, StatesKept, SameShape
<1>5. RefsFound(t, rec, o)
  <2>1. \A d \in Dirents \ {c} : Num(Refs(rec, o), d) = Num(Owned(t), d)
    BY NumSlot DEF N, Owned
  <2>2. QED
    BY <1>3, <2>1 DEF RefsFound
<1>6. Balanced(t, rec, o)
  <2> SUFFICES ASSUME NEW d \in Dirents
               PROVE  LET a == Num(Owned(t), d) + N(Linked(node, d))
                          b == Num(Refs(rec, o), d) + N(Linked(node', d))
                      IN  \/ /\ node[d].k = "used" /\ node'[d].k = "used"
                             /\ node'[d].handles >= 1
                             /\ node'[d].handles = node[d].handles + b - a
                          \/ /\ node[d].k # "used" /\ node'[d] = node[d] /\ b = 0
                             /\ node[d].child = NoChild /\ node[d].parent = None
    <3>1. \A d \in Dirents : node'[d].handles \in Int
      BY <1>2 DEF Nodes, Dentry
    <3>2. QED
      BY <3>1 DEF Balanced
  <2> DEFINE x == Num(Owned(t), d)
             y == Num(Refs(rec, o), d)
             l == N(Linked(node, d))
  <2>1. /\ x \in Nat /\ l \in Nat /\ node[d].handles \in Int
        /\ node[d].k = "used" => node[d].handles >= 1
        /\ node[d].k # "used" => x = 0 /\ l = 0 /\ ~Linked(node, d) /\ node[d].child = NoChild /\ node[d].parent = None
    BY InUse DEF N
  <2>2. N(Linked(node', d)) = l /\ y = x + N(d = c)
    BY <1>3 DEF N
  <2> HIDE DEF x, y, l
  <2>3. CASE d = c
    <3>1. node[d].k = "used" /\ node'[d].k = "used"
      BY <1>2, <2>1, <2>3 DEF SameShape
    <3>2. y = x + 1
      BY <2>2, <2>3 DEF N
    <3>3. node'[d].handles >= 1 /\ node'[d].handles = node[d].handles + (y + l) - (x + l)
      BY <1>2, <2>1, <2>3, <3>1, <3>2
    <3>4. QED
      BY <2>2, <3>1, <3>3 DEF x, y, l
  <2>4. CASE d # c
    <3>1. node'[d] = node[d] /\ y = x
      BY <1>2, <2>1, <2>2, <2>4 DEF N
    <3>2. node'[d].handles = node[d].handles + (y + l) - (x + l) /\ (node[d].k # "used" => y + l = 0)
      BY <2>1, <3>1
    <3>3. QED
      BY <2>1, <2>2, <3>1, <3>2 DEF x, y, l
  <2>5. QED
    BY <2>3, <2>4
<1>7. QED
  BY <1>2, <1>3, <1>4, <1>5, <1>6, Assemble

(* A step that counts a handle down, of a dentry that has others. *)
LEMMA DropOne ==
    ASSUME Inv, NEW t \in Threads, NEW rec, NEW o, Taken(t, rec, o), th[t].pc # "link",
           NEW p \in Dirents, node' = Drop(node, p), Num(Refs(rec, o), p) >= 1 \/ Linked(node, p),
           \A d \in Dirents : Num(Refs(rec, o), d) = Num(Owned(t), d) - N(d = p)
    PROVE  Inv'
<1>1. node \in Nodes /\ TreeOK(node)
  BY DEF Inv, TypeOK, Nodes
<1>2. /\ node' \in Nodes /\ \A d \in Dirents : SameShape(node[d], node'[d])
      /\ \A d \in Dirents \ {p} : node'[d] = node[d]
      /\ node'[p].handles = node[p].handles - 1
  BY <1>1, TakeEffect
<1>3. TreeOK(node') /\ \A d \in Dirents : Linked(node', d) <=> Linked(node, d)
  BY <1>1, <1>2, ShapeTree
<1>4. node[p].handles \in Int /\ node[p].handles >= 2
  <2>1. Num(Refs(rec, o), p) \in Nat /\ Num(Owned(t), p) = Num(Refs(rec, o), p) + 1
    <3>1. Num(Refs(rec, o), p) \in Nat /\ Num(Owned(t), p) \in Nat
      BY NumSlot DEF Owned
    <3>2. QED
      BY <3>1 DEF N
  <2>2. node[p].handles \in Int /\ node[p].handles >= Num(Owned(t), p) + N(Linked(node, p))
    BY <2>1, InUse
  <2>3. QED
    BY <2>1, <2>2 DEF N
<1>5. ASSUME NEW d \in Dirents
      PROVE  \E k \in Nat : /\ GivesBack(node, node', d, k)
                            /\ Num(Refs(rec, o), d) <= Num(Owned(t), d) - k
                            /\ ~forgot' => Num(Refs(rec, o), d) = Num(Owned(t), d) - k
                            /\ k > 0 => Num(Refs(rec, o), d) = Num(Owned(t), d) - k
  <2> N(d = p) \in Nat
    BY DEF N
  <2> WITNESS N(d = p) \in Nat
  <2>1. Num(Refs(rec, o), d) \in Nat
    BY NumSlot
  <2>2. GivesBack(node, node', d, N(d = p))
    BY <1>2, <1>4 DEF GivesBack, N
  <2>3. QED
    BY <2>1, <2>2
<1>6. QED
  BY <1>2, <1>3, <1>5, Releasing

(* A step that gives back two handles, maybe of the same dentry. *)
LEMMA ReleaseTwo ==
    ASSUME Inv, NEW t \in Threads, NEW rec, NEW o, Taken(t, rec, o), th[t].pc # "link",
           NEW p \in Dirents, NEW q \in Dirents,
           node' = fs_release_dentry_unlocked(fs_release_dentry_unlocked(node, p), q),
           \A d \in Dirents : Num(Refs(rec, o), d) = Num(Owned(t), d) - (N(d = p) + N(d = q))
    PROVE  Inv'
<1> DEFINE m == fs_release_dentry_unlocked(node, p)
<1>1. node \in Nodes /\ TreeOK(node)
  BY DEF Inv, TypeOK, Nodes
<1>2. ASSUME NEW d \in Dirents
      PROVE  /\ N(d = p) + N(d = q) \in Nat /\ node[d].handles \in Int /\ N(Linked(node, d)) \in Nat
             /\ N(d = p) + N(d = q) > 0 => node[d].handles >= N(d = p) + N(d = q) + N(Linked(node, d))
  <2>1. Num(Refs(rec, o), d) \in Nat /\ N(d = p) + N(d = q) \in Nat
    BY NumSlot DEF N
  <2>2. /\ Num(Owned(t), d) \in Nat /\ node[d].handles \in Int
        /\ N(Linked(node, d)) \in Nat
        /\ node[d].k = "used" => node[d].handles >= Num(Owned(t), d) + N(Linked(node, d))
        /\ node[d].k # "used" => Num(Owned(t), d) = 0
    BY InUse
  <2>3. Num(Refs(rec, o), d) = Num(Owned(t), d) - (N(d = p) + N(d = q))
    OBVIOUS
  <2>4. QED
    BY <2>1, <2>2, <2>3
<1>3. /\ m \in Nodes /\ TreeOK(m) /\ \A d \in Dirents : Linked(m, d) <=> Linked(node, d)
      /\ \A d \in Dirents \ {p} : m[d] = node[d]
      /\ m[p] = Back(node, p)
  <2>1. node[p].handles <= 1 => ~Linked(node, p)
    BY <1>2 DEF N
  <2>2. QED
    BY <1>1, <2>1, ReleaseEffect
<1>4. p = q => node[p].handles > 1 /\ m[q].handles = node[p].handles - 1
  BY <1>1, <1>2, <1>3 DEF N, Back, Nodes, Dentry
<1>5. /\ node' \in Nodes /\ TreeOK(node') /\ \A d \in Dirents : Linked(node', d) <=> Linked(node, d)
      /\ \A d \in Dirents \ {q} : node'[d] = m[d]
      /\ node'[q] = Back(m, q)
  <2>1. m[q].handles <= 1 => ~Linked(m, q)
    <3>1. CASE p = q
      BY <1>2, <1>3, <1>4, <3>1 DEF N
    <3>2. CASE p # q
      BY <1>2, <1>3, <3>2 DEF N
    <3>3. QED
      BY <3>1, <3>2
  <2> HIDE DEF m
  <2>2. /\ fs_release_dentry_unlocked(m, q) \in Nodes /\ TreeOK(fs_release_dentry_unlocked(m, q))
        /\ \A d \in Dirents : Linked(fs_release_dentry_unlocked(m, q), d) <=> Linked(m, d)
        /\ \A d \in Dirents \ {q} : fs_release_dentry_unlocked(m, q)[d] = m[d]
        /\ fs_release_dentry_unlocked(m, q)[q] = Back(m, q)
    BY <1>3, <2>1, ReleaseEffect
  <2>3. QED
    BY <1>3, <2>2 DEF m
<1> HIDE DEF m
<1>6. ASSUME NEW d \in Dirents PROVE GivesBack(node, node', d, N(d = p) + N(d = q))
  <2>1. CASE d \notin {p, q}
    BY <1>3, <1>5, <2>1 DEF GivesBack, N
  <2>2. CASE d = p /\ d # q
    <3>1. node'[d] = Back(node, d) /\ N(d = p) + N(d = q) = 1
      BY <1>3, <1>5, <2>2 DEF N
    <3>2. QED
      BY <1>1, <1>2, <3>1 DEF GivesBack, Back, N, SameShape, Nodes, Dentry
  <2>3. CASE d = q /\ d # p
    <3>1. node'[d] = Back(node, d) /\ N(d = p) + N(d = q) = 1
      BY <1>3, <1>5, <2>3 DEF N, Back
    <3>2. QED
      BY <1>1, <1>2, <3>1 DEF GivesBack, Back, N, SameShape, Nodes, Dentry
  <2>4. CASE d = q /\ d = p
    <3>1. N(d = p) + N(d = q) = 2
      BY <2>4 DEF N
    <3>2. m[d] = [node[d] EXCEPT !.handles = @ - 1] /\ node'[d] = Back(m, d)
      BY <1>3, <1>4, <1>5, <2>4 DEF Back
    <3>3. node[d].handles >= 2 + N(Linked(node, d)) /\ node[d].handles \in Int
      BY <1>2, <3>1
    <3>4. CASE node[d].handles > 2
      BY <1>1, <3>1, <3>2, <3>3, <3>4 DEF GivesBack, Back, SameShape, Nodes, Dentry
    <3>5. CASE ~(node[d].handles > 2)
      <4>1. node'[d] = Gone
        BY <1>1, <3>2, <3>3, <3>5 DEF Back, Nodes, Dentry
      <4>2. ~Linked(node, d) /\ node[d].handles <= 2
        BY <3>3, <3>5 DEF N
      <4>3. QED
        BY <3>1, <4>1, <4>2 DEF GivesBack
    <3>6. QED
      BY <3>4, <3>5
  <2>5. QED
    BY <2>1, <2>2, <2>3, <2>4
<1>7. ASSUME NEW d \in Dirents
      PROVE  \E k \in Nat : /\ GivesBack(node, node', d, k)
                            /\ Num(Refs(rec, o), d) <= Num(Owned(t), d) - k
                            /\ ~forgot' => Num(Refs(rec, o), d) = Num(Owned(t), d) - k
                            /\ k > 0 => Num(Refs(rec, o), d) = Num(Owned(t), d) - k
  <2> N(d = p) + N(d = q) \in Nat
    BY DEF N
  <2> WITNESS N(d = p) + N(d = q) \in Nat
  <2>1. Num(Refs(rec, o), d) \in Nat
    BY NumSlot
  <2>2. QED
    BY <1>6, <2>1
<1>8. QED
  BY <1>5, <1>7, Releasing

---------------------------------------------------------------------------
(* Locks                                                                   *)

\* what a thread holds of the contents_locks, kept
HeldKept(t) ==
    \A d \in Dirents : /\ lock[C(d)].w = t => lock'[C(d)].w = t
                       /\ t \in lock[C(d)].r => t \in lock'[C(d)].r

(* What the lock operations do. *)
LEMMA LockSteps ==
    ASSUME lock \in Locks, NEW t \in Threads, NEW k \in Keys, NEW ks
    PROVE  /\ lock' = lock => LocksKept(t) /\ HeldKept(t)
           /\ Write(t, k) => LocksKept(t) /\ HeldKept(t) /\ lock'[k].w = t
           /\ Read(t, k) => LocksKept(t) /\ HeldKept(t) /\ t \in lock'[k].r
           /\ Unlock(t, ks) => LocksKept(t) /\ \A d \in Dirents : C(d) \notin ks => lock'[C(d)] = lock[C(d)]
<1>1. \A d \in Dirents : C(d) \in Keys
  BY KeyFacts
<1>2. lock' = lock => LocksKept(t) /\ HeldKept(t)
  BY DEF LocksKept, HeldKept
<1>3. ASSUME Write(t, k) PROVE LocksKept(t) /\ HeldKept(t) /\ lock'[k].w = t
  <2>1. lock' \in Locks /\ lock'[k].w = t
    BY <1>3 DEF Write, Locks
  <2>2. lock[k].w = None /\ \A j \in Keys : lock'[j].r = lock[j].r /\ (j # k => lock'[j].w = lock[j].w)
    BY <1>3 DEF Write, Passes, Locks
  <2>3. QED
    BY <1>1, <2>1, <2>2, ThreadsAssumption DEF LocksKept, HeldKept
<1>4. ASSUME Read(t, k) PROVE LocksKept(t) /\ HeldKept(t) /\ t \in lock'[k].r
  <2>1. lock' \in Locks /\ t \in lock'[k].r
    BY <1>4 DEF Read, Locks
  <2>2. \A j \in Keys : lock[j].r \subseteq lock'[j].r /\ lock'[j].w = lock[j].w
    BY <1>4 DEF Read, Locks
  <2>3. QED
    BY <1>1, <2>1, <2>2 DEF LocksKept, HeldKept
<1>5. ASSUME Unlock(t, ks) PROVE LocksKept(t) /\ \A d \in Dirents : C(d) \notin ks => lock'[C(d)] = lock[C(d)]
  <2>1. lock' \in Locks
    BY <1>5 DEF Unlock, Without, Locks
  <2>2. \A u \in Threads \ {t}, j \in Keys : /\ lock[j].w = u => lock'[j].w = u
                                             /\ u \in lock[j].r => u \in lock'[j].r
    BY <1>5 DEF Unlock, Without, Locks
  <2>3. \A j \in Keys \ ks : lock'[j] = lock[j]
    BY <1>5 DEF Unlock, Without, Locks
  <2>4. QED
    BY <1>1, <2>1, <2>2, <2>3 DEF LocksKept
<1>6. QED
  BY <1>2, <1>3, <1>4, <1>5

(* The invariant of one thread. *)
LEMMA Here ==
    ASSUME Inv, NEW t \in Threads
    PROVE  /\ th \in [Threads -> Call] /\ open \in [Threads -> Dirents \cup {None}]
           /\ th[t] \in Call /\ open[t] \in Dirents \cup {None} /\ node \in Nodes /\ lock \in Locks /\ TreeOK(node)
           /\ OpInv(th[t]) /\ LocalInv(th[t]) /\ (th[t].op \in {"open", "create"} => open[t] = None)
           /\ LockInv(lock, t, th[t]) /\ ViewInv(node, th[t]) /\ StableInv(node, th[t], open[t])
BY DEF Inv, TypeOK, Local, Nodes, Locks

---------------------------------------------------------------------------
(* Steps that change a table                                               *)

Allocated(n, d, b, x) == [n EXCEPT ![d] = fs_allocate_dentry(b, x)]

(* A new dentry is outside the tree. *)
LEMMA AllocEffect ==
    ASSUME NEW n \in Nodes, TreeOK(n), NEW d \in Dirents, n[d].k # "used", ~Linked(n, d),
           NEW b \in BOOLEAN, NEW x \in Names
    PROVE  LET m == Allocated(n, d, b, x)
           IN  /\ m \in Nodes /\ TreeOK(m) /\ Fresh(m, d, x)
               /\ \A e \in Dirents : Linked(m, e) <=> Linked(n, e)
               /\ \A e \in Dirents \ {d} : m[e] = n[e]
               /\ \A e \in Dirents : m[e].child = n[e].child
<1> DEFINE a == fs_allocate_dentry(b, x)
           m == Allocated(n, d, b, x)
<1>1. /\ a \in Dentry /\ a.k = "used" /\ a.name = x /\ a.parent = None /\ ~a.deleted
      /\ a.handles = 1 /\ a.child = NoChild
  <2>1. NoChild \in [Names -> Dirents \cup {None}]
    BY DEF NoChild
  <2>2. Blank \in Dentry /\ Blank.parent = None /\ Blank.child = NoChild /\ ~Blank.deleted
    BY <2>1 DEF Blank, Dentry
  <2> DEFINE i == 1
             g == [Blank EXCEPT !.k = "used", !.dir = b, !.name = x, !.handles = i]
  <2>3. i \in Int /\ i = 1
    OBVIOUS
  <2> HIDE DEF i
  <2>4. /\ g \in Dentry /\ g.k = "used" /\ g.name = x /\ g.parent = Blank.parent
        /\ g.deleted = Blank.deleted /\ g.handles = i /\ g.child = Blank.child
    BY <2>2, <2>3 DEF Dentry
  <2>5. g = a
    BY <2>3 DEF fs_allocate_dentry
  <2> HIDE DEF g
  <2>6. QED
    BY <2>2, <2>3, <2>4, <2>5, Zenon
<1>2. m = [n EXCEPT ![d] = a]
  BY DEF Allocated
<1> HIDE DEF a
<1>3. m \in Nodes /\ m[d] = a /\ \A e \in Dirents \ {d} : m[e] = n[e]
  BY <1>1, <1>2 DEF Nodes
<1>4. d # Root
  BY DEF TreeOK
<1>5. n[d].child = NoChild
  BY UnlinkedEmpty
<1> HIDE DEF m
<1>6. \A e \in Dirents : m[e].child = n[e].child
  BY <1>1, <1>3, <1>5
<1>7. \A e \in Dirents : Linked(m, e) <=> Linked(n, e)
  BY <1>6 DEF Linked
<1>8. TreeOK(m)
  <2>1. \A p \in Dirents, y \in Names : m[p].child[y] = n[p].child[y] /\ n[p].child[y] # d
    BY <1>6 DEF Linked
  <2>2. m[Root].k = "used"
    BY <1>3, <1>4, RootAssumption DEF TreeOK
  <2>3. ASSUME NEW p \in Dirents, NEW y \in Names, m[p].child[y] # None
        PROVE  LET c == m[p].child[y]
               IN  c \notin {p, Root} /\ m[c].k = "used" /\ m[c].parent = p /\ m[c].name = y /\ Linked(m, p)
    <3> DEFINE c == m[p].child[y]
    <3>1. c = n[p].child[y] /\ c # d /\ c \in Dirents
      BY <2>1, <2>3 DEF Nodes, Dentry
    <3>2. c \notin {p, Root} /\ n[c].k = "used" /\ n[c].parent = p /\ n[c].name = y /\ Linked(n, p)
      BY <2>3, <3>1 DEF TreeOK
    <3>3. QED
      BY <1>3, <1>7, <3>1, <3>2
  <2>4. QED
    BY <2>2, <2>3 DEF TreeOK
<1>9. Fresh(m, d, x)
  BY <1>1, <1>3, <1>4 DEF Fresh
<1>10. QED
  BY <1>3, <1>6, <1>7, <1>8, <1>9 DEF m, a

\* the effect of CreateLink on the tree
LinkedIn(n, p, x, d) == [n EXCEPT ![d].parent = p, ![d].handles = @ + 1, ![p].child[x] = d]

(* A new dentry is put into the table of a directory in the tree. *)
LEMMA LinkEffect ==
    ASSUME NEW n \in Nodes, TreeOK(n), NEW p \in Dirents, NEW d \in Dirents, NEW x \in Names,
           p # d, Linked(n, p), n[p].child[x] = None, Fresh(n, d, x)
    PROVE  LET m == LinkedIn(n, p, x, d)
           IN  /\ m \in Nodes /\ TreeOK(m) /\ ~Linked(n, d)
               /\ \A e \in Dirents : Linked(m, e) <=> Linked(n, e) \/ e = d
               /\ \A e \in Dirents \ {p, d} : m[e] = n[e]
               /\ \A e \in Dirents \ {p} : m[e].child = n[e].child
               /\ \A e \in Dirents : m[e].k = n[e].k /\ m[e].deleted = n[e].deleted
               /\ \A e \in Dirents \ {d} : m[e].handles = n[e].handles
               /\ m[d].handles = n[d].handles + 1
<1> DEFINE m == LinkedIn(n, p, x, d)
<1>1. n[d].k = "used" /\ n[d].name = x /\ n[d].parent = None /\ n[d].child = NoChild /\ d # Root /\ n[d].handles = 1
  BY DEF Fresh
<1>2. ~Linked(n, d)
  BY <1>1, RootAssumption DEF TreeOK, Linked
<1> DEFINE i == n[d].handles + 1
           r == [n[d] EXCEPT !.parent = p, !.handles = i]
           l == [n EXCEPT ![d] = r]
           h == [n[p].child EXCEPT ![x] = d]
           s == [n[p] EXCEPT !.child = h]
<1>3. i \in Int /\ n[d] \in Dentry /\ n[p] \in Dentry /\ h \in [Names -> Dirents \cup {None}]
  BY DEF Nodes, Dentry
<1>4. m = [l EXCEPT ![p] = s]
  BY DEF LinkedIn, Nodes, Dentry
<1> HIDE DEF i, h
<1>5. /\ r \in Dentry /\ r.k = n[d].k /\ r.deleted = n[d].deleted /\ r.name = n[d].name /\ r.child = n[d].child
      /\ r.handles = i /\ r.parent = p
  BY <1>3 DEF Dentry
<1>6. /\ s \in Dentry /\ s.k = n[p].k /\ s.deleted = n[p].deleted /\ s.name = n[p].name /\ s.child = h
      /\ s.handles = n[p].handles /\ s.parent = n[p].parent
  BY <1>3 DEF Dentry
<1>7. h[x] = d /\ \A y \in Names \ {x} : h[y] = n[p].child[y]
  BY DEF h, Nodes, Dentry
<1> HIDE DEF r, s
<1>8. m \in Nodes /\ m[p] = s /\ m[d] = r /\ \A e \in Dirents \ {p, d} : m[e] = n[e]
  BY <1>4, <1>5, <1>6 DEF Nodes
<1> HIDE DEF m
<1>9. /\ \A e \in Dirents : m[e].k = n[e].k /\ m[e].deleted = n[e].deleted /\ m[e].name = n[e].name
      /\ \A e \in Dirents \ {d} : m[e].handles = n[e].handles /\ m[e].parent = n[e].parent
      /\ \A e \in Dirents \ {p} : m[e].child = n[e].child
      /\ m[d].handles = n[d].handles + 1 /\ m[d].parent = p
      /\ m[p].child[x] = d /\ \A y \in Names \ {x} : m[p].child[y] = n[p].child[y]
  BY <1>5, <1>6, <1>7, <1>8 DEF i
<1>10. \A e \in Dirents : Linked(m, e) <=> Linked(n, e) \/ e = d
  BY <1>1, <1>8, <1>9, RootAssumption DEF Linked
<1>11. TreeOK(m)
  <2>1. m[Root].k = "used"
    BY <1>8, <1>9, RootAssumption DEF TreeOK
  <2>2. ASSUME NEW q \in Dirents, NEW y \in Names, m[q].child[y] # None
        PROVE  LET c == m[q].child[y]
               IN  c \notin {q, Root} /\ m[c].k = "used" /\ m[c].parent = q /\ m[c].name = y /\ Linked(m, q)
    <3>1. CASE q = p /\ y = x
      BY <1>1, <1>8, <1>9, <1>10, <3>1
    <3>2. CASE ~(q = p /\ y = x)
      <4> DEFINE c == n[q].child[y]
      <4>1. m[q].child[y] = c /\ c # None /\ c \in Dirents
        BY <1>8, <1>9, <2>2, <3>2 DEF Nodes, Dentry
      <4>2. c \notin {q, Root} /\ n[c].k = "used" /\ n[c].parent = q /\ n[c].name = y /\ Linked(n, q)
        BY <4>1 DEF TreeOK
      <4>3. c # d
        BY <1>2 DEF Linked
      <4>4. QED
        BY <1>8, <1>9, <1>10, <4>1, <4>2, <4>3
    <3>3. QED
      BY <3>1, <3>2
  <2>3. QED
    BY <2>1, <2>2 DEF TreeOK
<1>12. QED
  BY <1>2, <1>8, <1>9, <1>10, <1>11 DEF m

(* A dentry without entries is taken out of the table it is in. *)
LEMMA UnlinkEffect ==
    ASSUME NEW n \in Nodes, TreeOK(n), NEW p \in Dirents, NEW d \in Dirents, NEW x \in Names,
           n[p].child[x] = d, Children(n, d) = {}
    PROVE  LET m == Unlinked(n, d)
           IN  /\ m \in Nodes /\ TreeOK(m) /\ p # d /\ d # Root /\ Linked(n, p) /\ Linked(n, d)
               /\ n[d].k = "used" /\ n[d].child = NoChild
               /\ \A e \in Dirents : Linked(m, e) <=> Linked(n, e) /\ e # d
               /\ \A e \in Dirents \ {p, d} : m[e] = n[e]
               /\ \A e \in Dirents \ {p} : m[e].child = n[e].child
               /\ m[p].child[x] = None /\ \A y \in Names \ {x} : m[p].child[y] = n[p].child[y]
               /\ m[p].k = n[p].k /\ m[p].handles = n[p].handles /\ m[p].deleted = n[p].deleted
               /\ m[d].k = "used" /\ m[d].handles = n[d].handles - 1 /\ m[d].deleted
<1> DEFINE m == Unlinked(n, d)
<1>1. p # d /\ d # Root /\ n[d].k = "used" /\ n[d].parent = p /\ n[d].name = x /\ Linked(n, p) /\ Linked(n, d)
  BY RootAssumption DEF TreeOK, Linked
<1>2. \A y \in Names : n[d].child[y] = None
  BY DEF Children
<1>3. n[d].child = NoChild
  BY <1>2 DEF NoChild, Nodes, Dentry
<1> DEFINE i == n[d].handles - 1
           r == [n[d] EXCEPT !.parent = None, !.deleted = TRUE, !.handles = i]
           h == [n[p].child EXCEPT ![x] = None]
           s == [n[p] EXCEPT !.child = h]
<1>4. i \in Int /\ n[d] \in Dentry /\ n[p] \in Dentry /\ h \in [Names -> Dirents \cup {None}]
  BY DEF Nodes, Dentry
<1>5. m = [n EXCEPT ![p] = s, ![d] = r]
  BY <1>1 DEF Unlinked, Nodes, Dentry
<1>6. h[x] = None /\ \A y \in Names \ {x} : h[y] = n[p].child[y]
  BY DEF Nodes, Dentry
<1> HIDE DEF i, h
<1>7. r \in Dentry /\ r.k = n[d].k /\ r.deleted /\ r.name = n[d].name /\ r.child = n[d].child /\ r.handles = i
  BY <1>4 DEF Dentry
<1>8. /\ s \in Dentry /\ s.k = n[p].k /\ s.deleted = n[p].deleted /\ s.name = n[p].name /\ s.child = h
      /\ s.handles = n[p].handles /\ s.parent = n[p].parent
  BY <1>4 DEF Dentry
<1> HIDE DEF r, s
<1>9. m \in Nodes /\ m[p] = s /\ m[d] = r /\ \A e \in Dirents \ {p, d} : m[e] = n[e]
  BY <1>1, <1>5, <1>7, <1>8 DEF Nodes
<1> HIDE DEF m
<1>10. /\ \A e \in Dirents : m[e].k = n[e].k /\ m[e].name = n[e].name
       /\ \A e \in Dirents \ {d} : m[e].handles = n[e].handles /\ m[e].parent = n[e].parent /\ m[e].deleted = n[e].deleted
       /\ \A e \in Dirents \ {p} : m[e].child = n[e].child
       /\ m[d].handles = n[d].handles - 1 /\ m[d].deleted
       /\ m[p].child[x] = None /\ \A y \in Names \ {x} : m[p].child[y] = n[p].child[y]
  BY <1>6, <1>7, <1>8, <1>9 DEF i
<1>11. \A q \in Dirents, y \in Names : n[q].child[y] = d => q = p /\ y = x
  BY <1>1, RootAssumption DEF TreeOK
<1>12. \A q \in Dirents, y \in Names : m[q].child[y] = IF q = p /\ y = x THEN None ELSE n[q].child[y]
  BY <1>9, <1>10
<1>13. \A e \in Dirents : Linked(m, e) <=> Linked(n, e) /\ e # d
  BY <1>1, <1>11, <1>12, RootAssumption DEF Linked
<1>14. TreeOK(m)
  <2>1. m[Root].k = "used"
    BY <1>9, <1>10, RootAssumption DEF TreeOK
  <2>2. ASSUME NEW q \in Dirents, NEW y \in Names, m[q].child[y] # None
        PROVE  LET c == m[q].child[y]
               IN  c \notin {q, Root} /\ m[c].k = "used" /\ m[c].parent = q /\ m[c].name = y /\ Linked(m, q)
    <3> DEFINE c == n[q].child[y]
    <3>1. m[q].child[y] = c /\ c # None /\ c \in Dirents /\ c # d /\ q # d
      BY <1>2, <1>11, <1>12, <2>2 DEF Nodes, Dentry
    <3>2. c \notin {q, Root} /\ n[c].k = "used" /\ n[c].parent = q /\ n[c].name = y /\ Linked(n, q)
      BY <3>1 DEF TreeOK
    <3>3. QED
      BY <1>9, <1>10, <1>13, <3>1, <3>2
  <2>3. QED
    BY <2>1, <2>2 DEF TreeOK
<1>15. QED
  BY <1>1, <1>3, <1>9, <1>10, <1>13, <1>14, RootAssumption DEF m

\* the effect of RenameMove on the tree
Moved(n, fdir, tdir, f, y) ==
    LET m == [n EXCEPT ![fdir].child[n[f].name] = None]
    IN  [m EXCEPT ![f].parent = tdir, ![f].name = y, ![tdir].child[y] = f]

(* A dentry goes from one table to another, or to another name. *)
LEMMA MoveEffect ==
    ASSUME NEW n \in Nodes, TreeOK(n), NEW p \in Dirents, NEW q \in Dirents, NEW d \in Dirents,
           NEW x \in Names, NEW y \in Names,
           n[p].child[x] = d, d # q, Linked(n, q), n[q].child[y] \in {None, d}
    PROVE  LET m == Moved(n, p, q, d, y)
           IN  /\ m \in Nodes /\ TreeOK(m) /\ Linked(n, p) /\ Linked(n, d)
               /\ \A e \in Dirents : Linked(m, e) <=> Linked(n, e)
               /\ \A e \in Dirents \ {p, q, d} : m[e] = n[e]
               /\ \A e \in Dirents \ {p, q} : m[e].child = n[e].child
               /\ \A e \in Dirents : m[e].k = n[e].k /\ m[e].handles = n[e].handles /\ m[e].deleted = n[e].deleted
<1> DEFINE m == Moved(n, p, q, d, y)
<1>1. p # d /\ d # Root /\ n[d].k = "used" /\ n[d].parent = p /\ n[d].name = x /\ Linked(n, p) /\ Linked(n, d)
  BY RootAssumption DEF TreeOK, Linked
<1>2. \A r \in Dirents, z \in Names : n[r].child[z] = d => r = p /\ z = x
  BY <1>1, RootAssumption DEF TreeOK
<1> DEFINE h == [n[p].child EXCEPT ![x] = None]
           a == [n[p] EXCEPT !.child = h]
           l == [n EXCEPT ![p] = a]
<1>3. m = [l EXCEPT ![d].parent = q, ![d].name = y, ![q].child[y] = d]
  BY <1>1 DEF Moved, Nodes, Dentry
<1>4. h \in [Names -> Dirents \cup {None}] /\ n[p] \in Dentry
      /\ h[x] = None /\ \A z \in Names \ {x} : h[z] = n[p].child[z]
  BY DEF Nodes, Dentry
<1> HIDE DEF h
<1>5. /\ a \in Dentry /\ a.k = n[p].k /\ a.handles = n[p].handles /\ a.deleted = n[p].deleted
      /\ a.name = n[p].name /\ a.parent = n[p].parent /\ a.child = h
  BY <1>4 DEF Dentry
<1> HIDE DEF a
<1>6. l \in Nodes /\ l[p] = a /\ \A e \in Dirents \ {p} : l[e] = n[e]
  BY <1>5 DEF Nodes
<1> HIDE DEF l
<1> DEFINE b == [l[d] EXCEPT !.parent = q, !.name = y]
           g == [l[q].child EXCEPT ![y] = d]
           c == [l[q] EXCEPT !.child = g]
<1>7. m = [l EXCEPT ![d] = b, ![q] = c]
  BY <1>3, <1>6 DEF Nodes, Dentry
<1>8. g \in [Names -> Dirents \cup {None}] /\ l[q] \in Dentry /\ l[d] \in Dentry
      /\ g[y] = d /\ \A z \in Names \ {y} : g[z] = l[q].child[z]
  BY <1>6 DEF Nodes, Dentry
<1> HIDE DEF g
<1>9. /\ b \in Dentry /\ b.k = l[d].k /\ b.handles = l[d].handles /\ b.deleted = l[d].deleted
      /\ b.name = y /\ b.parent = q /\ b.child = l[d].child
  BY <1>8 DEF Dentry
<1>10. /\ c \in Dentry /\ c.k = l[q].k /\ c.handles = l[q].handles /\ c.deleted = l[q].deleted
       /\ c.name = l[q].name /\ c.parent = l[q].parent /\ c.child = g
  BY <1>8 DEF Dentry
<1> HIDE DEF b, c
<1>11. m \in Nodes /\ m[d] = b /\ m[q] = c /\ \A e \in Dirents \ {q, d} : m[e] = l[e]
  BY <1>6, <1>7, <1>9, <1>10 DEF Nodes
<1> HIDE DEF m
<1>12. /\ \A e \in Dirents : m[e].k = n[e].k /\ m[e].handles = n[e].handles /\ m[e].deleted = n[e].deleted
       /\ \A e \in Dirents \ {d} : m[e].name = n[e].name /\ m[e].parent = n[e].parent
       /\ \A e \in Dirents \ {p, q} : m[e].child = n[e].child
       /\ \A e \in Dirents \ {p, q, d} : m[e] = n[e]
       /\ m[d].parent = q /\ m[d].name = y
  BY <1>5, <1>6, <1>9, <1>10, <1>11
<1>13. \A r \in Dirents, z \in Names :
        m[r].child[z] = IF r = q /\ z = y THEN d ELSE IF r = p /\ z = x THEN None ELSE n[r].child[z]
  BY <1>4, <1>5, <1>6, <1>8, <1>9, <1>10, <1>11
<1>14. \A e \in Dirents : Linked(m, e) <=> Linked(n, e)
  <2>1. ASSUME NEW e \in Dirents, e # d PROVE Linked(m, e) <=> Linked(n, e)
    BY <1>13, <2>1, RootAssumption DEF Linked
  <2>2. Linked(m, d)
    BY <1>13 DEF Linked
  <2>3. QED
    BY <1>1, <2>1, <2>2
<1>15. TreeOK(m)
  <2>1. m[Root].k = "used"
    BY <1>12, RootAssumption DEF TreeOK
  <2>2. ASSUME NEW r \in Dirents, NEW z \in Names, m[r].child[z] # None
        PROVE  LET v == m[r].child[z]
               IN  v \notin {r, Root} /\ m[v].k = "used" /\ m[v].parent = r /\ m[v].name = z /\ Linked(m, r)
    <3>1. CASE r = q /\ z = y
      <4>1. m[r].child[z] = d
        BY <1>13, <3>1
      <4>2. m[d].k = "used" /\ m[d].parent = r /\ m[d].name = z /\ Linked(m, r)
        BY <1>1, <1>12, <1>14, <3>1
      <4>3. QED
        BY <1>1, <3>1, <4>1, <4>2
    <3>2. CASE ~(r = q /\ z = y)
      <4> DEFINE v == n[r].child[z]
      <4>1. m[r].child[z] = v /\ v # None /\ v \in Dirents /\ v # d
        BY <1>2, <1>13, <2>2, <3>2 DEF Nodes, Dentry
      <4>2. v \notin {r, Root} /\ n[v].k = "used" /\ n[v].parent = r /\ n[v].name = z /\ Linked(n, r)
        BY <4>1 DEF TreeOK
      <4>3. m[v].k = "used" /\ m[v].parent = r /\ m[v].name = z
        BY <1>12, <4>1, <4>2
      <4>4. QED
        BY <1>14, <4>1, <4>2, <4>3
    <3>3. QED
      BY <3>1, <3>2
  <2>3. QED
    BY <2>1, <2>2 DEF TreeOK
<1>16. QED
  BY <1>1, <1>11, <1>12, <1>14, <1>15 DEF m

(* The tables stay when a handle is given back. *)
LEMMA ReleaseTables ==
    ASSUME Inv, NEW t \in Threads, NEW p \in Dirents, Num(Owned(t), p) > 0
    PROVE  \A e \in Dirents : fs_release_dentry_unlocked(node, p)[e].child = node[e].child
<1> DEFINE m == fs_release_dentry_unlocked(node, p)
<1>1. node \in Nodes /\ TreeOK(node)
  BY Here
<1>2. /\ Num(Owned(t), p) \in Nat /\ N(Linked(node, p)) \in Nat /\ node[p].handles \in Int
      /\ node[p].handles >= Num(Owned(t), p) + N(Linked(node, p))
  BY InUse
<1>3. node[p].handles <= 1 => ~Linked(node, p)
  BY <1>2 DEF N
<1>4. m[p] = Back(node, p) /\ \A e \in Dirents \ {p} : m[e] = node[e]
  BY <1>1, <1>3, ReleaseEffect
<1> HIDE DEF m
<1>5. m[p].child = node[p].child
  <2>1. CASE node[p].handles > 1
    BY <1>1, <1>4, <2>1 DEF Back, Nodes, Dentry
  <2>2. CASE ~(node[p].handles > 1)
    <3>1. node[p].child = NoChild
      BY <1>1, <1>2, <1>3, <2>2, UnlinkedEmpty
    <3>2. QED
      BY <1>4, <2>2, <3>1, GoneFacts DEF Back
  <2>3. QED
    BY <2>1, <2>2
<1>6. QED
  BY <1>4, <1>5 DEF m
=============================================================================
