--------------------------- MODULE UnifiedLemmas ---------------------------
(***************************************************************************)
(* What the proofs about UnifiedFile rest on: sequences of requests, how   *)
(* many of them are in each state, and what the helpers of the scheduler   *)
(* do to the list, to its counters and to the cache.                       *)
(***************************************************************************)
EXTENDS UnifiedFile, FiniteSetTheorems, FunctionTheorems, SequenceTheorems, TLAPS

\* a write request, and what a handler may return or record
Request == [offset : Nat, data : Seq(Nat), state : States]
Errors == Results \cup {"werr"}

\* the fields of dentry_priv and of unified_data
PrivFields == {"alloc", "requests", "in", "file_size", "write_ip", "write_error", "alt"}
GlobalFields == {"dp_request_count", "ext_queue", "cache", "leaked"}

\* the types of those that the bookkeeping depends on
IsPriv(d) ==
  /\ DOMAIN d = PrivFields
  /\ d.requests \in Seq(Request) /\ d.in \in [States -> Nat]
  /\ d.alloc \in BOOLEAN /\ d.write_ip \in BOOLEAN /\ d.write_error \in Errors
IsGlobal(g) ==
  /\ DOMAIN g = GlobalFields
  /\ g.dp_request_count \in Int /\ g.cache \in Int /\ g.leaked \in Int
IsPair(S) == DOMAIN S = {"d", "g"} /\ IsPriv(S.d) /\ IsGlobal(S.g)

\* 1 if a and b are the same
Is(a, b) == IF a = b THEN 1 ELSE 0

\* how many requests of q are in state st
Count(q, st) == Cardinality(InState(q, st))

\* the counters in Q agree with the request list
Matched(S, Q) == \A st \in Q : S.d.in[st] = Count(S.d.requests, st)

\* the global counter shows this file's DP requests unless write_ip hides them
Balanced(S) == S.g.dp_request_count = IF S.d.write_ip THEN 0 ELSE S.d.in["DP"]

\* what every helper keeps
Sound(S) == IsPair(S) /\ Balanced(S)

\* the flags and the leaked blocks of S are those of T
Same(S, T) ==
  /\ T.d.alloc = S.d.alloc /\ T.d.write_ip = S.d.write_ip
  /\ T.d.write_error = S.d.write_error /\ T.g.leaked = S.g.leaked

\* no request is empty or outgrows its block
Fits(q) == \A k \in DOMAIN q : Len(q[k].data) \in 1 .. CacheSize

\* nothing is left to be written to the data partition
AllIp(q) == \A k \in DOMAIN q : q[k].state = "IP"

-----------------------------------------------------------------------------
(* Counting.                                                               *)

(* The positions of a sequence of requests that are in a state. *)
LEMMA InStateFinite ==
  ASSUME NEW q \in Seq(Request), NEW st
  PROVE  /\ InState(q, st) \subseteq 1 .. Len(q)
         /\ IsFiniteSet(InState(q, st)) /\ Count(q, st) \in Nat
<1>1. DOMAIN q = 1 .. Len(q) /\ Len(q) \in Nat
  BY LenProperties
<1>2. InState(q, st) \subseteq 1 .. Len(q)
  BY <1>1 DEF InState
<1>3. IsFiniteSet(1 .. Len(q))
  BY <1>1, FS_Interval
<1>4. IsFiniteSet(InState(q, st))
  BY <1>2, <1>3, FS_Subset
<1>5. QED
  BY <1>2, <1>4, FS_CardinalityType DEF Count

(* Sets between which there is a one-to-one map have the same size. *)
LEMMA SameSize ==
  ASSUME NEW A, NEW B, IsFiniteSet(A), NEW f \in [A -> B],
         \A x, y \in A : f[x] = f[y] => x = y,
         \A y \in B : \E x \in A : f[x] = y
  PROVE  IsFiniteSet(B) /\ Cardinality(B) = Cardinality(A)
<1>1. f \in Bijection(A, B)
  BY DEF Bijection, Injection, Surjection, IsInjective
<1>2. ExistsBijection(A, B)
  BY <1>1 DEF ExistsBijection
<1>3. QED
  BY <1>2, FS_Bijection

(* Counters depend on the states only. *)
LEMMA CountSame ==
  ASSUME NEW q, NEW r, DOMAIN q = DOMAIN r, NEW st,
         \A k \in DOMAIN q : (q[k].state = st) <=> (r[k].state = st)
  PROVE  Count(q, st) = Count(r, st)
BY DEF Count, InState

(* Nobody is in a state that no request has. *)
LEMMA CountZero ==
  ASSUME NEW q \in Seq(Request), NEW st
  PROVE  Count(q, st) = 0 <=> \A k \in DOMAIN q : q[k].state # st
<1>1. IsFiniteSet(InState(q, st))
  BY InStateFinite
<1>2. Count(q, st) = 0 <=> InState(q, st) = {}
  BY <1>1, FS_EmptySet DEF Count
<1>3. QED
  BY <1>2 DEF InState

(* One request changes its state. *)
LEMMA CountSet ==
  ASSUME NEW q \in Seq(Request), NEW i \in DOMAIN q, NEW t, DOMAIN t = DOMAIN q,
         \A k \in DOMAIN q : k # i => t[k].state = q[k].state, NEW st
  PROVE  Count(t, st) = Count(q, st) + Is(t[i].state, st) - Is(q[i].state, st)
<1> DEFINE A == InState(q, st) \ {i}
<1>1. IsFiniteSet(InState(q, st)) /\ Count(q, st) \in Nat
  BY InStateFinite
<1>2. /\ IsFiniteSet(A)
      /\ Cardinality(A) = IF i \in InState(q, st) THEN Count(q, st) - 1 ELSE Count(q, st)
  BY <1>1, FS_RemoveElement DEF Count
<1>3. i \notin A
  OBVIOUS
<1>4. i \in InState(q, st) <=> q[i].state = st
  BY DEF InState
<1>5. Cardinality(A) = Count(q, st) - Is(q[i].state, st) /\ Cardinality(A) \in Int
  <2> HIDE DEF A
  <2>1. QED
    BY <1>1, <1>2, <1>4 DEF Is
<1>6. CASE t[i].state = st
  <2>1. InState(t, st) = A \cup {i}
    BY <1>6 DEF InState
  <2> HIDE DEF A
  <2>2. Cardinality(A \cup {i}) = Cardinality(A) + 1
    BY <1>2, <1>3, FS_AddElement
  <2>3. Count(t, st) = Cardinality(A) + 1
    BY <2>1, <2>2 DEF Count
  <2>4. Is(t[i].state, st) = 1 /\ Is(q[i].state, st) \in Int
    BY <1>6 DEF Is
  <2>5. QED
    BY <1>1, <1>5, <2>3, <2>4
<1>7. CASE t[i].state # st
  <2>1. InState(t, st) = A
    BY <1>7 DEF InState
  <2> HIDE DEF A
  <2>2. Count(t, st) = Cardinality(A)
    BY <2>1 DEF Count
  <2>3. Is(t[i].state, st) = 0 /\ Is(q[i].state, st) \in Int
    BY <1>7 DEF Is
  <2>4. QED
    BY <1>1, <1>5, <2>2, <2>3
<1>8. QED
  BY <1>6, <1>7

\* t is q with r put in before position i
Inserted(q, i, r, t) ==
  /\ t \in Seq(Request) /\ Len(t) = Len(q) + 1
  /\ DOMAIN t = 1 .. Len(q) + 1 /\ t[i] = r
  /\ \A k \in 1 .. i - 1 : t[k] = q[k]
  /\ \A k \in i .. Len(q) : t[k + 1] = q[k]

(* What InsertAt makes of a sequence. *)
LEMMA InsertAtLaw ==
  ASSUME NEW q \in Seq(Request), NEW i \in 1 .. Len(q) + 1, NEW r \in Request
  PROVE  Inserted(q, i, r, InsertAt(q, i, r))
<1> DEFINE a == SubSeq(q, 1, i - 1)
           c == SubSeq(q, i, Len(q))
           ar == a \o <<r>>
<1>1. Len(q) \in Nat /\ i \in Nat /\ \A k \in 1 .. Len(q) : q[k] \in Request
  BY LenProperties
<1>2. a \in Seq(Request) /\ Len(a) = i - 1 /\ \A k \in 1 .. i - 1 : a[k] = q[k]
  BY <1>1, SubSeqProperties
<1>3. /\ c \in Seq(Request) /\ Len(c) = Len(q) - i + 1
      /\ \A k \in 1 .. Len(q) - i + 1 : c[k] = q[i + k - 1]
  BY <1>1, SubSeqProperties
<1>4. <<r>> \in Seq(Request) /\ Len(<<r>>) = 1 /\ <<r>>[1] = r
  OBVIOUS
<1> HIDE DEF a, c
<1>5. ar \in Seq(Request) /\ Len(ar) = i
      /\ \A k \in 1 .. i : ar[k] = IF k <= i - 1 THEN a[k] ELSE <<r>>[k - (i - 1)]
  BY <1>1, <1>2, <1>4, ConcatProperties
<1> HIDE DEF ar
<1>6. /\ ar \o c \in Seq(Request) /\ Len(ar \o c) = Len(q) + 1
      /\ \A k \in 1 .. Len(q) + 1 : (ar \o c)[k] = IF k <= i THEN ar[k] ELSE c[k - i]
  BY <1>1, <1>3, <1>5, ConcatProperties, SMTT(30)
<1>7. InsertAt(q, i, r) = ar \o c
  BY DEF InsertAt, ar, a, c
<1>8. DOMAIN (ar \o c) = 1 .. Len(q) + 1
  BY <1>6, LenProperties
<1>9. (ar \o c)[i] = r
  BY <1>1, <1>4, <1>5, <1>6
<1>10. \A k \in 1 .. i - 1 : (ar \o c)[k] = q[k]
  BY <1>1, <1>2, <1>5, <1>6
<1>11. \A k \in i .. Len(q) : (ar \o c)[k + 1] = q[k]
  <2> TAKE k \in i .. Len(q)
  <2>1. k + 1 \in 1 .. Len(q) + 1 /\ ~(k + 1 <= i) /\ k + 1 - i \in 1 .. Len(q) - i + 1
    BY <1>1
  <2>2. (ar \o c)[k + 1] = c[k + 1 - i]
    BY <1>6, <2>1
  <2>3. c[k + 1 - i] = q[i + (k + 1 - i) - 1]
    BY <1>3, <2>1
  <2>4. i + (k + 1 - i) - 1 = k
    BY <1>1
  <2>5. QED
    BY <2>2, <2>3, <2>4
<1>12. QED
  BY <1>6, <1>7, <1>8, <1>9, <1>10, <1>11 DEF Inserted

(* What RemoveAt makes of a sequence. *)
LEMMA RemoveAtLaw ==
  ASSUME NEW q \in Seq(Request), NEW i \in 1 .. Len(q)
  PROVE  LET t == RemoveAt(q, i)
         IN  /\ t \in Seq(Request) /\ Len(t) = Len(q) - 1
             /\ DOMAIN t = 1 .. Len(q) - 1
             /\ \A k \in 1 .. i - 1 : t[k] = q[k]
             /\ \A k \in i .. Len(q) - 1 : t[k] = q[k + 1]
<1> DEFINE a == SubSeq(q, 1, i - 1)
           c == SubSeq(q, i + 1, Len(q))
<1>1. Len(q) \in Nat /\ i \in Nat /\ \A k \in 1 .. Len(q) : q[k] \in Request
  BY LenProperties
<1>2. a \in Seq(Request) /\ Len(a) = i - 1 /\ \A k \in 1 .. i - 1 : a[k] = q[k]
  BY <1>1, SubSeqProperties
<1>3. /\ c \in Seq(Request) /\ Len(c) = Len(q) - i
      /\ \A k \in 1 .. Len(q) - i : c[k] = q[i + 1 + k - 1]
  BY <1>1, SubSeqProperties
<1> HIDE DEF a, c
<1>4. /\ a \o c \in Seq(Request) /\ Len(a \o c) = Len(a) + Len(c)
      /\ \A k \in 1 .. Len(a) + Len(c) :
           (a \o c)[k] = IF k <= Len(a) THEN a[k] ELSE c[k - Len(a)]
  BY <1>2, <1>3, ConcatProperties
<1>5. Len(a) + Len(c) = Len(q) - 1
  BY <1>1, <1>2, <1>3
<1>6. /\ a \o c \in Seq(Request) /\ Len(a \o c) = Len(q) - 1
      /\ \A k \in 1 .. Len(q) - 1 : (a \o c)[k] = IF k <= i - 1 THEN a[k] ELSE c[k - (i - 1)]
  BY <1>2, <1>4, <1>5
<1>7. RemoveAt(q, i) = a \o c
  BY DEF RemoveAt, a, c
<1>8. DOMAIN (a \o c) = 1 .. Len(q) - 1
  BY <1>6, LenProperties
<1>9. \A k \in 1 .. i - 1 : (a \o c)[k] = q[k]
  BY <1>1, <1>2, <1>6
<1>10. \A k \in i .. Len(q) - 1 : (a \o c)[k] = q[k + 1]
  <2> TAKE k \in i .. Len(q) - 1
  <2>1. k \in 1 .. Len(q) - 1 /\ ~(k <= i - 1) /\ k - (i - 1) \in 1 .. Len(q) - i
    BY <1>1
  <2>2. (a \o c)[k] = c[k - (i - 1)]
    BY <1>6, <2>1
  <2>3. c[k - (i - 1)] = q[i + 1 + (k - (i - 1)) - 1]
    BY <1>3, <2>1
  <2>4. i + 1 + (k - (i - 1)) - 1 = k + 1
    BY <1>1
  <2>5. QED
    BY <2>2, <2>3, <2>4
<1>11. QED
  BY <1>6, <1>7, <1>8, <1>9, <1>10

(* A sequence with one more request, and its counters: t is q with t[i] put in. *)
LEMMA CountGap ==
  ASSUME NEW q \in Seq(Request), NEW t \in Seq(Request), Len(t) = Len(q) + 1,
         NEW i \in 1 .. Len(t),
         \A k \in 1 .. i - 1 : t[k] = q[k],
         \A k \in i .. Len(q) : t[k + 1] = q[k], NEW st
  PROVE  Count(t, st) = Count(q, st) + Is(t[i].state, st)
<1> DEFINE A == InState(q, st)
           B == InState(t, st) \ {i}
           f == [k \in A |-> IF k < i THEN k ELSE k + 1]
<1>1. /\ Len(q) \in Nat /\ DOMAIN q = 1 .. Len(q)
      /\ Len(t) \in Nat /\ DOMAIN t = 1 .. Len(q) + 1 /\ i \in Nat
  BY LenProperties
<1>2. IsFiniteSet(A) /\ A \subseteq 1 .. Len(q) /\ Count(q, st) \in Nat
  BY InStateFinite
<1>3. IsFiniteSet(InState(t, st)) /\ Count(t, st) \in Nat
  BY InStateFinite
<1>4. f \in [A -> B]
  <2> SUFFICES ASSUME NEW k \in A PROVE (IF k < i THEN k ELSE k + 1) \in B
    OBVIOUS
  <2>1. k \in 1 .. Len(q) /\ q[k].state = st
    BY <1>1 DEF InState
  <2>2. CASE k < i
    BY <1>1, <2>1, <2>2 DEF InState
  <2>3. CASE ~(k < i)
    BY <1>1, <2>1, <2>3 DEF InState
  <2>4. QED
    BY <2>2, <2>3
<1>5. \A x, y \in A : f[x] = f[y] => x = y
  BY <1>1, <1>2
<1>6. \A y \in B : \E x \in A : f[x] = y
  <2> TAKE y \in B
  <2>1. y \in 1 .. Len(q) + 1 /\ y # i /\ t[y].state = st
    BY <1>1 DEF InState
  <2>2. CASE y < i
    <3>1. y \in A
      BY <1>1, <2>1, <2>2 DEF InState
    <3>2. QED
      BY <2>2, <3>1
  <2>3. CASE ~(y < i)
    <3>1. y - 1 \in i .. Len(q) /\ (y - 1) + 1 = y
      BY <1>1, <2>1, <2>3
    <3>2. y - 1 \in A
      BY <1>1, <2>1, <3>1 DEF InState
    <3>3. f[y - 1] = y
      BY <1>1, <3>1, <3>2
    <3>4. QED
      BY <3>2, <3>3
  <2>4. QED
    BY <2>2, <2>3
<1>7. Cardinality(B) = Count(q, st)
  <2> HIDE DEF A, B, f
  <2>1. Cardinality(B) = Cardinality(A)
    BY <1>2, <1>4, <1>5, <1>6, SameSize
  <2>2. QED
    BY <2>1 DEF A, Count
<1>8. Cardinality(B) = IF i \in InState(t, st) THEN Count(t, st) - 1 ELSE Count(t, st)
  BY <1>3, FS_RemoveElement DEF Count
<1>9. i \in InState(t, st) <=> t[i].state = st
  BY <1>1 DEF InState
<1>10. QED
  <2> HIDE DEF B
  <2>1. QED
    BY <1>2, <1>3, <1>7, <1>8, <1>9 DEF Is

(* Pick(seq, K) lists the elements at the positions in K, each once: there is a *)
(* one-to-one map from its positions to K.                                      *)
LEMMA NthLaw ==
  ASSUME NEW n \in Nat, NEW K \in SUBSET (1 .. n)
  PROVE  /\ IsFiniteSet(K) /\ Cardinality(K) \in Nat /\ Cardinality(K) <= n
         /\ \A i \in 1 .. Cardinality(K) : Nth(K, i) \in K
         /\ \A i, j \in 1 .. Cardinality(K) : Nth(K, i) = Nth(K, j) => i = j
         /\ \A k \in K : \E i \in 1 .. Cardinality(K) : Nth(K, i) = k
<1> DEFINE below(k) == {j \in K : j <= k}
           f == [k \in K |-> Cardinality(below(k))]
<1>1. IsFiniteSet(1 .. n) /\ Cardinality(1 .. n) = n
  <2>1. 1 \in Int /\ n \in Int
    OBVIOUS
  <2>2. IsFiniteSet(1 .. n) /\ Cardinality(1 .. n) = IF 1 > n THEN 0 ELSE n - 1 + 1
    BY <2>1, FS_Interval
  <2>3. QED
    BY <2>2
<1>2. IsFiniteSet(K) /\ Cardinality(K) <= n
  BY <1>1, FS_Subset
<1>3. Cardinality(K) \in Nat
  BY <1>2, FS_CardinalityType
<1>4. \A k \in K : /\ IsFiniteSet(below(k)) /\ Cardinality(below(k)) <= Cardinality(K)
                   /\ Cardinality(below(k)) \in Nat /\ Cardinality(below(k)) # 0
  <2> TAKE k \in K
  <2>1. below(k) \in SUBSET K /\ k \in below(k)
    OBVIOUS
  <2>2. IsFiniteSet(below(k)) /\ Cardinality(below(k)) <= Cardinality(K)
    BY <1>2, <2>1, FS_Subset
  <2>3. Cardinality(below(k)) \in Nat
    BY <2>2, FS_CardinalityType
  <2>4. Cardinality(below(k)) # 0
    BY <2>1, <2>2, FS_EmptySet
  <2>5. QED
    BY <2>2, <2>3, <2>4
<1>5. \A j, k \in K : j < k => Cardinality(below(j)) # Cardinality(below(k))
  <2> SUFFICES ASSUME NEW j \in K, NEW k \in K, j < k
               PROVE  Cardinality(below(j)) # Cardinality(below(k))
    OBVIOUS
  <2>1. j \in Int /\ k \in Int /\ \A x \in K : x \in Int
    OBVIOUS
  <2>2. \A x \in K : x <= j => x <= k
    BY <2>1
  <2>3. k <= k /\ ~(k <= j)
    BY <2>1
  <2>4. below(j) \in SUBSET below(k) /\ k \in below(k) /\ k \notin below(j)
    BY <2>2, <2>3
  <2>5. Cardinality(below(k)) = Cardinality(below(j)) => below(k) = below(j)
    BY <1>4, <2>4, FS_Subset
  <2>6. QED
    BY <2>4, <2>5
<1>6. f \in [K -> 1 .. Cardinality(K)]
  BY <1>3, <1>4
<1>7. \A j, k \in K : f[j] = f[k] => j = k
  BY <1>5
<1>8. f \in Injection(K, 1 .. Cardinality(K))
  BY <1>6, <1>7 DEF Injection, IsInjective
<1>9. IsFiniteSet(1 .. Cardinality(K)) /\ Cardinality(1 .. Cardinality(K)) = Cardinality(K)
  <2>1. 1 \in Int /\ Cardinality(K) \in Int
    BY <1>3
  <2>2. /\ IsFiniteSet(1 .. Cardinality(K))
        /\ Cardinality(1 .. Cardinality(K)) =
             IF 1 > Cardinality(K) THEN 0 ELSE Cardinality(K) - 1 + 1
    BY <2>1, FS_Interval
  <2>3. QED
    BY <1>3, <2>2
<1>10. f \in Surjection(K, 1 .. Cardinality(K))
  <2> HIDE DEF f
  <2>1. QED
    BY <1>8, <1>9, FS_Injection
<1>11. \A i \in 1 .. Cardinality(K) : \E k \in K : f[k] = i
  <2> HIDE DEF f
  <2>1. QED
    BY <1>10 DEF Surjection
<1>12. \A i \in 1 .. Cardinality(K) : Nth(K, i) \in K /\ f[Nth(K, i)] = i
  <2> TAKE i \in 1 .. Cardinality(K)
  <2>1. \E k \in K : Cardinality({j \in K : j <= k}) = i
    BY <1>11
  <2>2. Nth(K, i) \in K /\ Cardinality({j \in K : j <= Nth(K, i)}) = i
    BY <2>1 DEF Nth
  <2>3. QED
    BY <2>2
<1>13. \A k \in K : Nth(K, f[k]) = k /\ f[k] \in 1 .. Cardinality(K)
  <2> HIDE DEF f
  <2> TAKE k \in K
  <2>1. f[k] \in 1 .. Cardinality(K)
    BY <1>6
  <2>2. Nth(K, f[k]) \in K /\ f[Nth(K, f[k])] = f[k]
    BY <1>12, <2>1
  <2>3. QED
    BY <1>7, <2>1, <2>2
<1>14. \A i, j \in 1 .. Cardinality(K) : Nth(K, i) = Nth(K, j) => i = j
  <2> HIDE DEF f
  <2>1. QED
    BY <1>12
<1>15. QED
  <2> HIDE DEF f
  <2>1. \A k \in K : \E i \in 1 .. Cardinality(K) : Nth(K, i) = k
    BY <1>13
  <2>2. QED
    BY <1>2, <1>3, <1>12, <1>14, <2>1

\* how many requests at the positions in K are in state st
Among(q, K, st) == Cardinality({k \in K : q[k].state = st})

(* The requests that Pick keeps, and how many of them are in a state. *)
LEMMA PickLaw ==
  ASSUME NEW q \in Seq(Request), NEW K \in SUBSET (DOMAIN q)
  PROVE  LET t == Pick(q, K)
         IN  /\ t \in Seq(Request) /\ Len(t) = Cardinality(K) /\ Cardinality(K) \in Nat
             /\ Cardinality(K) <= Len(q)
             /\ \A i \in DOMAIN t : \E k \in K : t[i] = q[k]
             /\ \A st : Count(t, st) = Among(q, K, st)
<1> DEFINE n == Cardinality(K)
           t == Pick(q, K)
<1>1. DOMAIN q = 1 .. Len(q) /\ Len(q) \in Nat
  BY LenProperties
<1>2. /\ IsFiniteSet(K) /\ n \in Nat /\ n <= Len(q)
      /\ \A i \in 1 .. n : Nth(K, i) \in K
      /\ \A i, j \in 1 .. n : Nth(K, i) = Nth(K, j) => i = j
      /\ \A k \in K : \E i \in 1 .. n : Nth(K, i) = k
  BY <1>1, NthLaw
<1>3. t = [i \in 1 .. n |-> q[Nth(K, i)]]
  BY DEF Pick
<1> HIDE DEF n, t
<1>4. \A i \in 1 .. n : q[Nth(K, i)] \in Request
  BY <1>1, <1>2, ElementOfSeq
<1>5. t \in Seq(Request) /\ Len(t) = n /\ DOMAIN t = 1 .. n
  BY <1>2, <1>3, <1>4
<1>6. \A i \in 1 .. n : t[i] = q[Nth(K, i)]
  BY <1>3
<1>7. ASSUME NEW st
      PROVE  Count(t, st) = Among(q, K, st)
  <2> DEFINE A == InState(t, st)
             B == {k \in K : q[k].state = st}
             f == [i \in A |-> Nth(K, i)]
  <2>1. IsFiniteSet(A) /\ A \subseteq 1 .. n
    BY <1>5, InStateFinite
  <2>2. f \in [A -> B]
    BY <1>2, <1>5, <1>6, <2>1 DEF InState
  <2>3. \A x, y \in A : f[x] = f[y] => x = y
    BY <1>2, <2>1
  <2>4. \A y \in B : \E x \in A : f[x] = y
    <3> TAKE y \in B
    <3>1. PICK i \in 1 .. n : Nth(K, i) = y
      BY <1>2
    <3>2. i \in A
      BY <1>5, <1>6, <3>1 DEF InState
    <3>3. QED
      BY <3>1, <3>2
  <2>5. Cardinality(B) = Cardinality(A)
    <3> HIDE DEF A, B, f
    <3>1. QED
      BY <2>1, <2>2, <2>3, <2>4, SameSize
  <2>6. QED
    BY <2>5 DEF Count, Among
<1>8. \A i \in DOMAIN t : \E k \in K : t[i] = q[k]
  BY <1>2, <1>5, <1>6
<1>9. QED
  BY <1>2, <1>5, <1>7, <1>8 DEF n, t

-----------------------------------------------------------------------------
(* The helpers, one update each.                                           *)

(* _unified_update_queue_membership(add) of n requests. *)
LEMMA AddMembersLaw ==
  ASSUME NEW S, Sound(S), NEW q \in States, NEW n \in Nat
  PROVE  LET T == AddMembers(S, q, n)
         IN  /\ Sound(T) /\ Same(S, T) /\ T.d.requests = S.d.requests
             /\ T.d.in[q] = S.d.in[q] + n
             /\ \A st \in States : st # q => T.d.in[st] = S.d.in[st]
             /\ T.g.cache = S.g.cache
<1> DEFINE T == AddMembers(S, q, n)
<1>1. IsPair(S) /\ Balanced(S)
  BY DEF Sound
<1>2. T.d = [S.d EXCEPT !.in[q] = @ + n]
  BY <1>1 DEF AddMembers, IsPair
<1>3. T.g = [S.g EXCEPT !.dp_request_count = IF q = "DP" /\ Counted(S, q) THEN @ + n ELSE @]
  BY <1>1 DEF AddMembers, IsPair
<1>4. DOMAIN T = {"d", "g"}
  BY <1>1 DEF AddMembers, IsPair
<1> HIDE DEF T
<1>5. T.d.in = [S.d.in EXCEPT ![q] = @ + n]
  BY <1>1, <1>2 DEF IsPair, IsPriv, PrivFields
<1>6. S.d.in \in [States -> Nat] /\ S.d.in[q] + n \in Nat
  BY <1>1 DEF IsPair, IsPriv
<1>7. /\ T.d.in \in [States -> Nat] /\ T.d.in[q] = S.d.in[q] + n
      /\ \A st \in States : st # q => T.d.in[st] = S.d.in[st]
  BY <1>5, <1>6
<1>8. /\ DOMAIN T.d = PrivFields /\ T.d.requests = S.d.requests /\ T.d.alloc = S.d.alloc
      /\ T.d.write_ip = S.d.write_ip /\ T.d.write_error = S.d.write_error
  BY <1>1, <1>2 DEF IsPair, IsPriv, PrivFields
<1>9. /\ DOMAIN T.g = GlobalFields /\ T.g.cache = S.g.cache /\ T.g.leaked = S.g.leaked
      /\ T.g.dp_request_count = S.g.dp_request_count + (IF q = "DP" /\ ~S.d.write_ip THEN n ELSE 0)
  BY <1>1, <1>3 DEF IsPair, IsGlobal, GlobalFields, Counted
<1>10. IsPair(T)
  BY <1>1, <1>4, <1>7, <1>8, <1>9 DEF IsPair, IsPriv, IsGlobal
<1>11. Balanced(T)
  <2>1. S.d.in["DP"] \in Nat /\ S.g.dp_request_count \in Int
    BY <1>1, <1>6 DEF IsPair, IsGlobal, States
  <2>2. T.d.in["DP"] = IF q = "DP" THEN S.d.in["DP"] + n ELSE S.d.in["DP"]
    BY <1>7 DEF States
  <2>3. QED
    BY <1>1, <1>8, <1>9, <2>1, <2>2 DEF Balanced
<1>12. QED
  BY <1>7, <1>8, <1>9, <1>10, <1>11 DEF Sound, Same, T

(* The same for one request. *)
LEMMA AddMemberLaw ==
  ASSUME NEW S, Sound(S), NEW q \in States
  PROVE  LET T == AddMember(S, q)
         IN  /\ Sound(T) /\ Same(S, T) /\ T.d.requests = S.d.requests
             /\ T.d.in[q] = S.d.in[q] + 1
             /\ \A st \in States : st # q => T.d.in[st] = S.d.in[st]
             /\ T.g.cache = S.g.cache
<1>1. AddMember(S, q) = AddMembers(S, q, 1) /\ 1 \in Nat
  BY DEF AddMember
<1>2. QED
  BY <1>1, AddMembersLaw

(* _unified_update_queue_membership(remove) of n requests that are counted. *)
LEMMA DelMembersLaw ==
  ASSUME NEW S, Sound(S), NEW q \in States, NEW n \in Nat, n <= S.d.in[q]
  PROVE  LET T == DelMembers(S, q, n)
         IN  /\ Sound(T) /\ Same(S, T) /\ T.d.requests = S.d.requests
             /\ T.d.in[q] = S.d.in[q] - n
             /\ \A st \in States : st # q => T.d.in[st] = S.d.in[st]
             /\ T.g.cache = S.g.cache
<1> DEFINE T == DelMembers(S, q, n)
<1>1. IsPair(S) /\ Balanced(S)
  BY DEF Sound
<1>2. S.d.in \in [States -> Nat] /\ S.d.in[q] - n \in Nat /\ Lesser(n, S.d.in[q]) = n
  BY <1>1 DEF IsPair, IsPriv, Lesser
<1>3. T.d = [S.d EXCEPT !.in[q] = @ - n]
  BY <1>2, <1>1 DEF DelMembers, IsPair
<1>4. T.g = [S.g EXCEPT !.dp_request_count = IF q = "DP" /\ Counted(S, q) THEN @ - n ELSE @]
  BY <1>2, <1>1 DEF DelMembers, IsPair
<1>5. DOMAIN T = {"d", "g"}
  BY <1>1 DEF DelMembers, IsPair
<1> HIDE DEF T
<1>6. T.d.in = [S.d.in EXCEPT ![q] = @ - n]
  BY <1>1, <1>3 DEF IsPair, IsPriv, PrivFields
<1>7. /\ T.d.in \in [States -> Nat] /\ T.d.in[q] = S.d.in[q] - n
      /\ \A st \in States : st # q => T.d.in[st] = S.d.in[st]
  BY <1>2, <1>6
<1>8. /\ DOMAIN T.d = PrivFields /\ T.d.requests = S.d.requests /\ T.d.alloc = S.d.alloc
      /\ T.d.write_ip = S.d.write_ip /\ T.d.write_error = S.d.write_error
  BY <1>1, <1>3 DEF IsPair, IsPriv, PrivFields
<1>9. /\ DOMAIN T.g = GlobalFields /\ T.g.cache = S.g.cache /\ T.g.leaked = S.g.leaked
      /\ T.g.dp_request_count = S.g.dp_request_count - (IF q = "DP" /\ ~S.d.write_ip THEN n ELSE 0)
  BY <1>1, <1>4 DEF IsPair, IsGlobal, GlobalFields, Counted
<1>10. IsPair(T)
  BY <1>1, <1>5, <1>7, <1>8, <1>9 DEF IsPair, IsPriv, IsGlobal
<1>11. Balanced(T)
  <2>1. S.d.in["DP"] \in Nat /\ S.g.dp_request_count \in Int
    BY <1>2, <1>1 DEF IsPair, IsGlobal, States
  <2>2. T.d.in["DP"] = IF q = "DP" THEN S.d.in["DP"] - n ELSE S.d.in["DP"]
    BY <1>7 DEF States
  <2>3. QED
    BY <1>1, <1>8, <1>9, <2>1, <2>2 DEF Balanced
<1>12. QED
  BY <1>7, <1>8, <1>9, <1>10, <1>11 DEF Sound, Same, T

(* The same for one request. *)
LEMMA DelMemberLaw ==
  ASSUME NEW S, Sound(S), NEW q \in States, S.d.in[q] # 0
  PROVE  LET T == DelMember(S, q)
         IN  /\ Sound(T) /\ Same(S, T) /\ T.d.requests = S.d.requests
             /\ T.d.in[q] = S.d.in[q] - 1
             /\ \A st \in States : st # q => T.d.in[st] = S.d.in[st]
             /\ T.g.cache = S.g.cache
<1>1. DelMember(S, q) = DelMembers(S, q, 1) /\ 1 \in Nat
  BY DEF DelMember
<1>2. 1 <= S.d.in[q]
  BY DEF Sound, IsPair, IsPriv
<1>3. QED
  BY <1>1, <1>2, DelMembersLaw

(* _unified_update_queue_membership(remove all). *)
LEMMA DelAllLaw ==
  ASSUME NEW S, Sound(S), NEW q \in States
  PROVE  LET T == DelAllMembers(S, q)
         IN  /\ Sound(T) /\ Same(S, T) /\ T.d.requests = S.d.requests
             /\ T.d.in[q] = 0
             /\ \A st \in States : st # q => T.d.in[st] = S.d.in[st]
             /\ T.g.cache = S.g.cache
<1> DEFINE T == DelAllMembers(S, q)
<1>1. IsPair(S) /\ Balanced(S)
  BY DEF Sound
<1>2. S.d.in \in [States -> Nat] /\ S.d.in[q] \in Nat
  BY <1>1 DEF IsPair, IsPriv
<1>3. T.d = [S.d EXCEPT !.in[q] = 0]
  BY <1>1 DEF DelAllMembers, IsPair
<1>4. T.g = [S.g EXCEPT !.dp_request_count = IF q = "DP" /\ Counted(S, q) THEN @ - S.d.in[q] ELSE @]
  BY <1>1 DEF DelAllMembers, IsPair
<1>5. DOMAIN T = {"d", "g"}
  BY <1>1 DEF DelAllMembers, IsPair
<1> HIDE DEF T
<1>6. T.d.in = [S.d.in EXCEPT ![q] = 0]
  BY <1>1, <1>3 DEF IsPair, IsPriv, PrivFields
<1>7. /\ T.d.in \in [States -> Nat] /\ T.d.in[q] = 0
      /\ \A st \in States : st # q => T.d.in[st] = S.d.in[st]
  BY <1>2, <1>6
<1>8. /\ DOMAIN T.d = PrivFields /\ T.d.requests = S.d.requests /\ T.d.alloc = S.d.alloc
      /\ T.d.write_ip = S.d.write_ip /\ T.d.write_error = S.d.write_error
  BY <1>1, <1>3 DEF IsPair, IsPriv, PrivFields
<1>9. /\ DOMAIN T.g = GlobalFields /\ T.g.cache = S.g.cache /\ T.g.leaked = S.g.leaked
      /\ T.g.dp_request_count =
           S.g.dp_request_count - (IF q = "DP" /\ ~S.d.write_ip THEN S.d.in[q] ELSE 0)
  BY <1>2, <1>1, <1>4 DEF IsPair, IsGlobal, GlobalFields, Counted
<1>10. IsPair(T)
  BY <1>2, <1>1, <1>5, <1>7, <1>8, <1>9 DEF IsPair, IsPriv, IsGlobal
<1>11. Balanced(T)
  <2>1. S.d.in["DP"] \in Nat /\ S.g.dp_request_count \in Int
    BY <1>2, <1>1 DEF IsPair, IsGlobal, States
  <2>2. T.d.in["DP"] = IF q = "DP" THEN 0 ELSE S.d.in["DP"]
    BY <1>7 DEF States
  <2>3. QED
    BY <1>1, <1>8, <1>9, <2>1, <2>2 DEF Balanced
<1>12. QED
  BY <1>7, <1>8, <1>9, <1>10, <1>11 DEF Sound, Same, T

(* Another request list, the same counters. *)
LEMMA SetRequestsLaw ==
  ASSUME NEW S, Sound(S), NEW q \in Seq(Request)
  PROVE  LET T == SetRequests(S, q)
         IN  /\ Sound(T) /\ Same(S, T) /\ T.d.requests = q
             /\ T.d.in = S.d.in /\ T.g.cache = S.g.cache
<1> DEFINE T == SetRequests(S, q)
<1>1. IsPair(S) /\ Balanced(S)
  BY DEF Sound
<1>2. T.d = [S.d EXCEPT !.requests = q] /\ T.g = S.g /\ DOMAIN T = {"d", "g"}
  BY <1>1 DEF SetRequests, IsPair
<1> HIDE DEF T
<1>3. /\ DOMAIN T.d = PrivFields /\ T.d.requests = q /\ T.d.alloc = S.d.alloc /\ T.d.in = S.d.in
      /\ T.d.write_ip = S.d.write_ip /\ T.d.write_error = S.d.write_error
  BY <1>1, <1>2 DEF IsPair, IsPriv, PrivFields
<1>4. IsPair(T)
  BY <1>1, <1>2, <1>3 DEF IsPair, IsPriv
<1>5. Balanced(T)
  BY <1>1, <1>2, <1>3 DEF Balanced
<1>6. QED
  BY <1>2, <1>3, <1>4, <1>5 DEF Sound, Same, T

(* Another request at a position. *)
LEMMA SetRequestLaw ==
  ASSUME NEW S, Sound(S), NEW i \in DOMAIN S.d.requests, NEW r \in Request
  PROVE  LET T == SetRequest(S, i, r)
         IN  /\ Sound(T) /\ Same(S, T) /\ Len(T.d.requests) = Len(S.d.requests)
             /\ DOMAIN T.d.requests = DOMAIN S.d.requests
             /\ T.d.requests[i] = r
             /\ \A k \in DOMAIN S.d.requests : k # i => T.d.requests[k] = S.d.requests[k]
             /\ T.d.in = S.d.in /\ T.g.cache = S.g.cache
<1> DEFINE q == S.d.requests
           t == [k \in DOMAIN q |-> IF k = i THEN r ELSE q[k]]
<1>1. q \in Seq(Request)
  BY DEF Sound, IsPair, IsPriv
<1>2. DOMAIN q = 1 .. Len(q) /\ Len(q) \in Nat /\ \A k \in DOMAIN q : q[k] \in Request
  BY <1>1, LenProperties
<1>3. SetRequest(S, i, r) = SetRequests(S, t)
  BY DEF SetRequest
<1> HIDE DEF q
<1>4. t \in Seq(Request) /\ DOMAIN t = DOMAIN q /\ Len(t) = Len(q)
  BY <1>2
<1>5. i \in DOMAIN q
  BY DEF q
<1>6. t[i] = r /\ \A k \in DOMAIN q : k # i => t[k] = q[k]
  BY <1>5
<1> HIDE DEF t
<1>7. QED
  BY <1>3, <1>4, <1>6, SetRequestsLaw DEF q

(* Blocks go back to the pool. *)
LEMMA CacheFreeLaw ==
  ASSUME NEW S, Sound(S), NEW n \in Int
  PROVE  LET T == CacheFree(S, n)
         IN  Sound(T) /\ Same(S, T) /\ T.d = S.d /\ T.g.cache = S.g.cache - n
<1> DEFINE T == CacheFree(S, n)
<1>1. IsPair(S) /\ Balanced(S)
  BY DEF Sound
<1>2. T.d = S.d /\ T.g = [S.g EXCEPT !.cache = @ - n] /\ DOMAIN T = {"d", "g"}
  BY <1>1 DEF CacheFree, IsPair
<1> HIDE DEF T
<1>3. /\ DOMAIN T.g = GlobalFields /\ T.g.cache = S.g.cache - n
      /\ T.g.leaked = S.g.leaked /\ T.g.dp_request_count = S.g.dp_request_count
  BY <1>1, <1>2 DEF IsPair, IsGlobal, GlobalFields
<1>4. IsPair(T)
  BY <1>1, <1>2, <1>3 DEF IsPair, IsGlobal
<1>5. Balanced(T)
  BY <1>1, <1>2, <1>3 DEF Balanced
<1>6. QED
  BY <1>2, <1>3, <1>4, <1>5 DEF Sound, Same, T

(* A field the invariant does not speak of changes. *)
LEMMA OtherFieldLaw ==
  ASSUME NEW S, Sound(S), NEW T, DOMAIN T = {"d", "g"}, DOMAIN T.d = PrivFields,
         \A f \in PrivFields \ {"file_size", "alt"} : T.d[f] = S.d[f],
         DOMAIN T.g = GlobalFields, \A f \in GlobalFields \ {"ext_queue"} : T.g[f] = S.g[f]
  PROVE  /\ Sound(T) /\ Same(S, T) /\ T.d.requests = S.d.requests
         /\ T.d.in = S.d.in /\ T.g.cache = S.g.cache
<1>1. /\ T.d.requests = S.d.requests /\ T.d.in = S.d.in /\ T.d.alloc = S.d.alloc
      /\ T.d.write_ip = S.d.write_ip /\ T.d.write_error = S.d.write_error
  BY DEF PrivFields
<1>2. /\ T.g.dp_request_count = S.g.dp_request_count /\ T.g.cache = S.g.cache
      /\ T.g.leaked = S.g.leaked
  BY DEF GlobalFields
<1>3. QED
  BY <1>1, <1>2 DEF Sound, IsPair, IsPriv, IsGlobal, Balanced, Same

(* The file size grows. *)
LEMMA GrowLaw ==
  ASSUME NEW S, Sound(S), NEW i
  PROVE  LET T == GrowFileSize(S, i)
         IN  /\ Sound(T) /\ Same(S, T) /\ T.d.requests = S.d.requests
             /\ T.d.in = S.d.in /\ T.g.cache = S.g.cache
<1> DEFINE T == GrowFileSize(S, i)
           v == Greater(S.d.file_size, End(S.d.requests[i]))
<1>1. IsPair(S)
  BY DEF Sound
<1>2. T.d = [S.d EXCEPT !.file_size = v] /\ T.g = S.g /\ DOMAIN T = {"d", "g"}
  BY <1>1 DEF GrowFileSize, IsPair
<1> HIDE DEF T, v
<1>3. DOMAIN T.d = PrivFields /\ \A f \in PrivFields \ {"file_size", "alt"} : T.d[f] = S.d[f]
  BY <1>1, <1>2 DEF IsPair, IsPriv
<1>4. DOMAIN T.g = GlobalFields /\ \A f \in GlobalFields \ {"ext_queue"} : T.g[f] = S.g[f]
  BY <1>1, <1>2 DEF IsPair, IsGlobal
<1>5. QED
  BY <1>2, <1>3, <1>4, OtherFieldLaw DEF T

-----------------------------------------------------------------------------
(* Data.                                                                   *)

(* The first bytes and the last bytes of some data. *)
LEMMA CutLaw ==
  ASSUME NEW d \in Seq(Nat), NEW n \in Nat, n <= Len(d)
  PROVE  /\ SubSeq(d, 1, n) \in Seq(Nat) /\ Len(SubSeq(d, 1, n)) = n
         /\ Drop(d, n) \in Seq(Nat) /\ Len(Drop(d, n)) = Len(d) - n
<1>1. Len(d) \in Nat /\ \A i \in 1 .. Len(d) : d[i] \in Nat
  BY LenProperties
<1>2. SubSeq(d, 1, n) \in Seq(Nat) /\ Len(SubSeq(d, 1, n)) = n
  <2>1. 1 \in Int /\ n \in Int /\ \A i \in 1 .. n : d[i] \in Nat
    BY <1>1
  <2>2. SubSeq(d, 1, n) \in Seq(Nat) /\ Len(SubSeq(d, 1, n)) = IF 1 <= n THEN n - 1 + 1 ELSE 0
    BY <2>1, SubSeqProperties
  <2>3. QED
    BY <2>2
<1>3. SubSeq(d, n + 1, Len(d)) \in Seq(Nat) /\ Len(SubSeq(d, n + 1, Len(d))) = Len(d) - n
  <2>1. n + 1 \in Int /\ Len(d) \in Int /\ \A i \in n + 1 .. Len(d) : d[i] \in Nat
    BY <1>1
  <2>2. /\ SubSeq(d, n + 1, Len(d)) \in Seq(Nat)
        /\ Len(SubSeq(d, n + 1, Len(d))) = IF n + 1 <= Len(d) THEN Len(d) - (n + 1) + 1 ELSE 0
    BY <2>1, SubSeqProperties
  <2>3. QED
    BY <1>1, <2>2
<1>4. QED
  BY <1>2, <1>3 DEF Drop

(* What is stored at an offset makes the data as long as needed. *)
LEMMA OverwriteLaw ==
  ASSUME NEW b \in Seq(Nat), NEW off \in Nat, NEW d \in Seq(Nat)
  PROVE  /\ Overwrite(b, off, d) \in Seq(Nat)
         /\ Len(Overwrite(b, off, d)) = Greater(Len(b), off + Len(d))
<1> DEFINE n == Greater(Len(b), off + Len(d))
           e(i) == IF off < i /\ i <= off + Len(d) THEN d[i - off]
                   ELSE IF i <= Len(b) THEN b[i] ELSE 0
<1>1. /\ Len(b) \in Nat /\ \A i \in 1 .. Len(b) : b[i] \in Nat
      /\ Len(d) \in Nat /\ \A i \in 1 .. Len(d) : d[i] \in Nat
  BY LenProperties
<1>2. n \in Nat
  BY <1>1 DEF Greater
<1>3. \A i \in 1 .. n : e(i) \in Nat
  <2> HIDE DEF n
  <2> SUFFICES ASSUME NEW i \in 1 .. n PROVE e(i) \in Nat
    OBVIOUS
  <2>1. i \in Nat /\ 1 <= i
    BY <1>2
  <2>2. CASE off < i /\ i <= off + Len(d)
    <3>1. i - off \in 1 .. Len(d)
      BY <1>1, <2>1, <2>2
    <3>2. QED
      BY <1>1, <2>2, <3>1
  <2>3. CASE ~(off < i /\ i <= off + Len(d)) /\ i <= Len(b)
    <3>1. i \in 1 .. Len(b)
      BY <1>1, <2>1, <2>3
    <3>2. QED
      BY <1>1, <2>3, <3>1
  <2>4. CASE ~(off < i /\ i <= off + Len(d)) /\ ~(i <= Len(b))
    BY <2>4
  <2>5. QED
    BY <2>2, <2>3, <2>4
<1>4. Overwrite(b, off, d) = [i \in 1 .. n |-> e(i)]
  BY DEF Overwrite
<1> HIDE DEF n, e
<1>5. [i \in 1 .. n |-> e(i)] \in [1 .. n -> Nat]
  BY <1>3
<1> DEFINE o == Overwrite(b, off, d)
<1>6. o \in [1 .. n -> Nat]
  BY <1>4, <1>5
<1> HIDE DEF o
<1>7. o \in Seq(Nat) /\ Len(o) = n
  BY <1>2, <1>6
<1>8. QED
  BY <1>7 DEF n, o

(* The bytes of a write. *)
LEMMA FillLaw ==
  ASSUME NEW n \in Nat, NEW v \in Nat
  PROVE  Fill(n, v) \in Seq(Nat) /\ Len(Fill(n, v)) = n
BY DEF Fill

-----------------------------------------------------------------------------
(* The helpers that keep the counters and the list together.               *)

(* The state a request is in, by the fields it has. *)
LEMMA RequestLaw ==
  ASSUME NEW r \in Request
  PROVE  /\ r.offset \in Nat /\ r.data \in Seq(Nat) /\ Len(r.data) \in Nat /\ r.state \in States
         /\ \A d \in Seq(Nat) :
              /\ [r EXCEPT !.data = d] \in Request /\ [r EXCEPT !.data = d].data = d
              /\ [r EXCEPT !.data = d].state = r.state /\ [r EXCEPT !.data = d].offset = r.offset
         /\ \A st \in States :
              /\ [r EXCEPT !.state = st] \in Request /\ [r EXCEPT !.state = st].data = r.data
              /\ [r EXCEPT !.state = st].state = st /\ [r EXCEPT !.state = st].offset = r.offset
BY LenProperties DEF Request

(* A full request takes the partial ones at or before off to the data queue. *)
LEMMA PromoteLaw ==
  ASSUME NEW S, Sound(S), Matched(S, States), NEW off
  PROVE  LET T == PromotePartial(S, off)
         IN  /\ Sound(T) /\ Same(S, T) /\ Matched(T, States) /\ T.g.cache = S.g.cache
             /\ Len(T.d.requests) = Len(S.d.requests)
             /\ DOMAIN T.d.requests = DOMAIN S.d.requests
             /\ \A k \in DOMAIN S.d.requests :
                  /\ T.d.requests[k].offset = S.d.requests[k].offset
                  /\ T.d.requests[k].data = S.d.requests[k].data
                  /\ \/ T.d.requests[k].state = S.d.requests[k].state
                     \/ S.d.requests[k].state = "PARTIAL"
<1> DEFINE q == S.d.requests
           ready == {k \in DOMAIN q : q[k].state = "PARTIAL" /\ q[k].offset <= off}
           n == Cardinality(ready)
           D == DelMembers(S, "PARTIAL", n)
           A == AddMembers(D, "DP", n)
           t == [k \in DOMAIN q |-> IF k \in ready THEN [q[k] EXCEPT !.state = "DP"] ELSE q[k]]
<1>1. q \in Seq(Request) /\ S.d.in \in [States -> Nat]
  BY DEF Sound, IsPair, IsPriv
<1>2. PromotePartial(S, off) = SetRequests(A, t)
  BY DEF PromotePartial
<1>3. \A st \in States : S.d.in[st] = Count(q, st)
  BY DEF Matched
<1> HIDE DEF q
<1>4. DOMAIN q = 1 .. Len(q) /\ Len(q) \in Nat /\ \A k \in DOMAIN q : q[k] \in Request
  BY <1>1, LenProperties
<1>5. ready \in SUBSET InState(q, "PARTIAL")
  BY DEF InState
<1>6. IsFiniteSet(InState(q, "PARTIAL")) /\ Count(q, "PARTIAL") \in Nat
  BY <1>1, InStateFinite
<1>7. IsFiniteSet(ready) /\ n \in Nat /\ n <= Count(q, "PARTIAL")
  BY <1>5, <1>6, FS_Subset, FS_CardinalityType DEF Count
<1>8. \A k \in DOMAIN q : /\ t[k] = IF k \in ready THEN [q[k] EXCEPT !.state = "DP"] ELSE q[k]
                          /\ t[k] \in Request
                          /\ t[k].offset = q[k].offset /\ t[k].data = q[k].data
                          /\ t[k].state = IF k \in ready THEN "DP" ELSE q[k].state
  <2> TAKE k \in DOMAIN q
  <2>1. q[k] \in Request
    BY <1>4
  <2>2. "DP" \in States
    BY DEF States
  <2>3. t[k] = IF k \in ready THEN [q[k] EXCEPT !.state = "DP"] ELSE q[k]
    OBVIOUS
  <2> HIDE DEF t, ready
  <2>4. QED
    BY <2>1, <2>2, <2>3, RequestLaw
<1>9. t \in Seq(Request) /\ DOMAIN t = DOMAIN q /\ Len(t) = Len(q)
  <2>1. t \in [1 .. Len(q) -> Request] /\ DOMAIN t = DOMAIN q
    BY <1>4, <1>8
  <2> HIDE DEF t
  <2>2. QED
    BY <1>4, <2>1
<1>10. InState(t, "PARTIAL") = InState(q, "PARTIAL") \ ready
  <2> HIDE DEF t
  <2>1. QED
    BY <1>8, <1>9 DEF InState
<1>11. InState(t, "DP") = InState(q, "DP") \cup ready
  <2> HIDE DEF t
  <2>1. QED
    BY <1>8, <1>9 DEF InState
<1>12. InState(t, "IP") = InState(q, "IP")
  <2> HIDE DEF t
  <2>1. QED
    BY <1>8, <1>9 DEF InState
<1>13. Count(t, "PARTIAL") = Count(q, "PARTIAL") - n
  <2>1. Cardinality(InState(q, "PARTIAL") \ ready) = Cardinality(InState(q, "PARTIAL"))
                                                     - Cardinality(InState(q, "PARTIAL") \cap ready)
    BY <1>6, <1>7, FS_Difference
  <2>2. InState(q, "PARTIAL") \cap ready = ready
    BY <1>5
  <2>3. QED
    BY <1>10, <2>1, <2>2 DEF Count
<1>14. Count(t, "DP") = Count(q, "DP") + n
  <2>1. IsFiniteSet(InState(q, "DP")) /\ Count(q, "DP") \in Nat
    BY <1>1, InStateFinite
  <2>2. InState(q, "DP") \cap ready = {}
    BY DEF InState
  <2> HIDE DEF ready, t
  <2>3. Cardinality(InState(q, "DP") \cup ready) =
          Cardinality(InState(q, "DP")) + Cardinality(ready)
            - Cardinality(InState(q, "DP") \cap ready)
    BY <1>7, <2>1, FS_Union
  <2>4. Cardinality(InState(q, "DP") \cap ready) = 0
    BY <2>2, FS_EmptySet
  <2>5. Count(t, "DP") = Cardinality(InState(q, "DP") \cup ready)
    BY <1>11 DEF Count
  <2>6. Cardinality(InState(q, "DP")) \in Nat /\ Cardinality(ready) \in Nat
    BY <1>7, <2>1 DEF Count
  <2>7. Count(t, "DP") = Cardinality(InState(q, "DP")) + Cardinality(ready)
    BY <2>3, <2>4, <2>5, <2>6
  <2>8. QED
    BY <2>7 DEF Count
<1> HIDE DEF t, ready, n, D, A
<1>15. "PARTIAL" \in States /\ "DP" \in States /\ "IP" \in States
  BY DEF States
<1>16. /\ Sound(D) /\ Same(S, D) /\ D.d.in["PARTIAL"] = S.d.in["PARTIAL"] - n
       /\ \A st \in States : st # "PARTIAL" => D.d.in[st] = S.d.in[st]
       /\ D.g.cache = S.g.cache
  BY <1>3, <1>7, <1>15, DelMembersLaw DEF D
<1>17. /\ Sound(A) /\ Same(D, A) /\ A.d.in["DP"] = D.d.in["DP"] + n
       /\ \A st \in States : st # "DP" => A.d.in[st] = D.d.in[st]
       /\ A.g.cache = D.g.cache
  BY <1>7, <1>15, <1>16, AddMembersLaw DEF A
<1> DEFINE T == SetRequests(A, t)
<1>18. /\ Sound(T) /\ Same(A, T) /\ T.d.requests = t /\ T.d.in = A.d.in /\ T.g.cache = A.g.cache
  BY <1>9, <1>17, SetRequestsLaw
<1> HIDE DEF T
<1>19. T.d.in["PARTIAL"] = Count(t, "PARTIAL")
  BY <1>3, <1>13, <1>15, <1>16, <1>17, <1>18
<1>20. T.d.in["DP"] = Count(t, "DP")
  BY <1>3, <1>14, <1>15, <1>16, <1>17, <1>18
<1>21. T.d.in["IP"] = Count(t, "IP")
  BY <1>3, <1>12, <1>15, <1>16, <1>17, <1>18 DEF Count
<1>22. Matched(T, States)
  BY <1>18, <1>19, <1>20, <1>21 DEF Matched, States
<1>23. Same(S, T)
  BY <1>16, <1>17, <1>18 DEF Same
<1>24. T.g.cache = S.g.cache
  BY <1>16, <1>17, <1>18
<1>25. \A k \in DOMAIN q : t[k].state = q[k].state \/ q[k].state = "PARTIAL"
  BY <1>8 DEF ready
<1>26. QED
  BY <1>2, <1>8, <1>9, <1>18, <1>22, <1>23, <1>24, <1>25 DEF q, T

\* T is S after request i took n bytes at offset off
Updated(S, i, off, n, Q, T) ==
  LET q == S.d.requests
      t == T.d.requests
  IN  /\ Sound(T) /\ Same(S, T) /\ Matched(T, Q) /\ Fits(t)
      /\ T.g.cache = S.g.cache /\ Len(t) = Len(q) /\ DOMAIN t = DOMAIN q
      /\ t[i].offset = q[i].offset
      /\ Len(t[i].data) = Greater(Len(q[i].data), off - q[i].offset + n)
      /\ \A k \in DOMAIN q : k # i => t[k].offset = q[k].offset /\ t[k].data = q[k].data
      /\ \A k \in DOMAIN q : t[k].state = q[k].state \/ q[k].state = "PARTIAL"
      /\ q[i].state # "PARTIAL" =>
           T.d.in = S.d.in /\ \A k \in DOMAIN q : t[k].state = q[k].state

(* _unified_update_request on request i, which has or gets room at off: it takes *)
(* at least a byte and stays within its block.                                   *)
LEMMA UpdateLaw ==
  ASSUME NEW S, Sound(S), NEW Q \in SUBSET States, Matched(S, Q),
         CacheSize \in Nat \ {0}, Fits(S.d.requests),
         NEW i \in DOMAIN S.d.requests, NEW off \in Nat, NEW data \in Seq(Nat), Len(data) > 0,
         S.d.requests[i].offset <= off, off <= End(S.d.requests[i]),
         off < S.d.requests[i].offset + CacheSize,
         Q = States \/ S.d.requests[i].state # "PARTIAL"
  PROVE  LET n == UpdateCount(S, i, off, Len(data))
         IN  n \in 1 .. Len(data) /\ Updated(S, i, off, n, Q, UpdateRequest(S, i, off, data))
<1> DEFINE q == S.d.requests
           r == q[i]
           n == UpdateCount(S, i, off, Len(data))
           d == Overwrite(r.data, off - r.offset, SubSeq(data, 1, n))
           new == [r EXCEPT !.data = d]
           A == SetRequest(S, i, new)
           U == IF r.state = "PARTIAL" /\ Len(new.data) = CacheSize
                  THEN PromotePartial(A, off) ELSE A
           T == UpdateRequest(S, i, off, data)
<1>1. q \in Seq(Request)
  BY DEF Sound, IsPair, IsPriv
<1>2. DOMAIN q = 1 .. Len(q) /\ Len(q) \in Nat /\ \A k \in DOMAIN q : q[k] \in Request
  BY <1>1, LenProperties
<1>3. T = GrowFileSize(U, i)
  BY DEF UpdateRequest
<1>4. n = Lesser(Len(data), r.offset + CacheSize - off)
  BY DEF UpdateCount
<1>5. /\ r \in Request /\ r.offset <= off /\ off <= End(r) /\ off < r.offset + CacheSize
      /\ Q = States \/ r.state # "PARTIAL"
      /\ Len(r.data) \in 1 .. CacheSize
  BY <1>2 DEF Fits
<1> HIDE DEF T, n, q, r
<1>6. r.offset \in Nat /\ r.data \in Seq(Nat) /\ Len(r.data) \in Nat /\ Len(data) \in Nat
  BY <1>5, RequestLaw, LenProperties
<1>7. n \in 1 .. Len(data) /\ n \in Nat /\ n <= Len(data) /\ off - r.offset + n <= CacheSize
  BY <1>4, <1>5, <1>6, SMTT(30) DEF Lesser
<1>8. SubSeq(data, 1, n) \in Seq(Nat) /\ Len(SubSeq(data, 1, n)) = n
  BY <1>7, CutLaw
<1>9. off - r.offset \in Nat
  BY <1>5, <1>6
<1>10. d \in Seq(Nat) /\ Len(d) = Greater(Len(r.data), off - r.offset + n)
  <2> DEFINE v == off - r.offset
             w == SubSeq(data, 1, n)
  <2>1. v \in Nat /\ w \in Seq(Nat) /\ Len(w) = n /\ d = Overwrite(r.data, v, w)
    BY <1>8, <1>9
  <2> HIDE DEF v, w, d
  <2>2. d \in Seq(Nat) /\ Len(d) = Greater(Len(r.data), v + n)
    BY <1>6, <2>1, OverwriteLaw
  <2>3. QED
    BY <2>2 DEF v
<1> HIDE DEF d
<1>11. /\ new \in Request /\ new.data = d /\ new.state = r.state /\ new.offset = r.offset
       /\ Len(new.data) \in 1 .. CacheSize
  <2>1. new \in Request /\ new.data = d /\ new.state = r.state /\ new.offset = r.offset
    BY <1>5, <1>10, RequestLaw
  <2> HIDE DEF new
  <2>2. Len(d) \in 1 .. CacheSize
    BY <1>5, <1>6, <1>7, <1>9, <1>10, SMTT(30) DEF Greater
  <2>3. QED
    BY <2>1, <2>2
<1> HIDE DEF new, A
<1>12. /\ Sound(A) /\ Same(S, A) /\ Len(A.d.requests) = Len(q) /\ DOMAIN A.d.requests = DOMAIN q
       /\ A.d.requests[i] = new
       /\ \A k \in DOMAIN q : k # i => A.d.requests[k] = q[k]
       /\ A.d.in = S.d.in /\ A.g.cache = S.g.cache
  BY <1>11, SetRequestLaw DEF A, q
<1>13. \A k \in DOMAIN q : A.d.requests[k].state = q[k].state
  BY <1>11, <1>12 DEF r
<1>14. \A st \in Q : A.d.in[st] = Count(A.d.requests, st)
  <2> TAKE st \in Q
  <2>1. Count(q, st) = Count(A.d.requests, st)
    BY <1>12, <1>13, CountSame
  <2>2. S.d.in[st] = Count(q, st)
    BY DEF Matched, q
  <2>3. QED
    BY <1>12, <2>1, <2>2
<1>15. Matched(A, Q)
  BY <1>14 DEF Matched
<1>16. Fits(A.d.requests)
  <2>1. \A k \in DOMAIN q : Len(q[k].data) \in 1 .. CacheSize
    BY DEF Fits, q
  <2>2. QED
    BY <1>11, <1>12, <2>1 DEF Fits
<1>17. /\ Sound(U) /\ Same(A, U) /\ Matched(U, Q) /\ U.g.cache = A.g.cache
       /\ Len(U.d.requests) = Len(q) /\ DOMAIN U.d.requests = DOMAIN q
       /\ \A k \in DOMAIN q :
            /\ U.d.requests[k].offset = A.d.requests[k].offset
            /\ U.d.requests[k].data = A.d.requests[k].data
            /\ U.d.requests[k].state = q[k].state \/ q[k].state = "PARTIAL"
       /\ r.state # "PARTIAL" =>
            U.d.in = A.d.in /\ \A k \in DOMAIN q : U.d.requests[k].state = q[k].state
  <2>1. CASE r.state = "PARTIAL" /\ Len(new.data) = CacheSize
    <3>1. U = PromotePartial(A, off) /\ Q = States
      BY <1>5, <2>1
    <3> HIDE DEF U
    <3>2. QED
      BY <1>12, <1>13, <1>15, <2>1, <3>1, PromoteLaw, SMTT(30)
  <2>2. CASE ~(r.state = "PARTIAL" /\ Len(new.data) = CacheSize)
    <3>1. U = A
      BY <2>2
    <3> HIDE DEF U
    <3>2. QED
      BY <1>12, <1>13, <1>15, <3>1 DEF Same
  <2>3. QED
    BY <2>1, <2>2
<1> HIDE DEF U
<1>18. /\ Sound(T) /\ Same(U, T) /\ T.d.requests = U.d.requests
       /\ T.d.in = U.d.in /\ T.g.cache = U.g.cache
  BY <1>3, <1>17, GrowLaw
<1>19. Same(S, T) /\ T.g.cache = S.g.cache
  BY <1>12, <1>17, <1>18 DEF Same
<1>20. Matched(T, Q)
  BY <1>17, <1>18 DEF Matched
<1>21. Fits(T.d.requests)
  BY <1>12, <1>16, <1>17, <1>18, SMTT(30) DEF Fits
<1>22. i \in DOMAIN q
  BY DEF q
<1>23. /\ T.d.requests[i].offset = r.offset
       /\ Len(T.d.requests[i].data) = Greater(Len(r.data), off - r.offset + n)
  BY <1>10, <1>11, <1>12, <1>17, <1>18, <1>22
<1>24. \A k \in DOMAIN q : k # i =>
         T.d.requests[k].offset = q[k].offset /\ T.d.requests[k].data = q[k].data
  BY <1>12, <1>17, <1>18
<1>25. QED
  BY <1>7, <1>12, <1>17, <1>18, <1>19, <1>20, <1>21, <1>23, <1>24 DEF q, r, n, T, Updated

\* T is S without request i
Removed(S, i, T) ==
  LET q == S.d.requests
      t == T.d.requests
  IN  /\ Sound(T) /\ Same(S, T) /\ Fits(t) /\ T.g.cache = S.g.cache
      /\ Len(t) = Len(q) - 1 /\ DOMAIN t = 1 .. Len(q) - 1
      /\ \A k \in 1 .. i - 1 : t[k] = q[k]
      /\ \A k \in i .. Len(q) - 1 : t[k] = q[k + 1]

(* A request leaves the list, and the counters still count it. *)
LEMMA RemoveLaw ==
  ASSUME NEW S, Sound(S), NEW i \in DOMAIN S.d.requests, Fits(S.d.requests)
  PROVE  LET T == RemoveRequest(S, i)
         IN  /\ Removed(S, i, T) /\ T.d.in = S.d.in
             /\ \A st : Count(S.d.requests, st) =
                        Count(T.d.requests, st) + Is(S.d.requests[i].state, st)
<1> DEFINE q == S.d.requests
           T == RemoveRequest(S, i)
           t == RemoveAt(q, i)
<1>1. q \in Seq(Request)
  BY DEF Sound, IsPair, IsPriv
<1>2. DOMAIN q = 1 .. Len(q) /\ Len(q) \in Nat /\ i \in 1 .. Len(q)
  BY <1>1, LenProperties
<1>3. T = SetRequests(S, t)
  BY DEF RemoveRequest
<1> HIDE DEF q, T
<1>4. /\ t \in Seq(Request) /\ Len(t) = Len(q) - 1 /\ DOMAIN t = 1 .. Len(q) - 1
      /\ \A k \in 1 .. i - 1 : t[k] = q[k]
      /\ \A k \in i .. Len(q) - 1 : t[k] = q[k + 1]
  BY <1>1, <1>2, RemoveAtLaw
<1> HIDE DEF t
<1>5. /\ Sound(T) /\ Same(S, T) /\ T.d.requests = t /\ T.d.in = S.d.in /\ T.g.cache = S.g.cache
  BY <1>3, <1>4, SetRequestsLaw
<1>6. \A st : Count(q, st) = Count(t, st) + Is(q[i].state, st)
  <2> TAKE st
  <2>1. Len(q) = Len(t) + 1 /\ i \in 1 .. Len(q)
    BY <1>2, <1>4
  <2>2. \A k \in 1 .. i - 1 : q[k] = t[k]
    BY <1>4
  <2>3. \A k \in i .. Len(t) : q[k + 1] = t[k]
    BY <1>4
  <2>4. QED
    BY <1>1, <1>4, <2>1, <2>2, <2>3, CountGap
<1>7. Fits(t)
  <2>1. \A k \in DOMAIN q : Len(q[k].data) \in 1 .. CacheSize
    BY DEF Fits, q
  <2>2. SUFFICES ASSUME NEW k \in 1 .. Len(q) - 1 PROVE Len(t[k].data) \in 1 .. CacheSize
    BY <1>4 DEF Fits
  <2>3. CASE k < i
    <3>1. k \in 1 .. i - 1 /\ k \in DOMAIN q
      BY <1>2, <2>3
    <3>2. QED
      BY <1>4, <2>1, <3>1
  <2>4. CASE ~(k < i)
    <3>1. k \in i .. Len(q) - 1 /\ k + 1 \in DOMAIN q
      BY <1>2, <2>4
    <3>2. QED
      BY <1>4, <2>1, <3>1
  <2>5. QED
    BY <2>3, <2>4
<1>8. QED
  BY <1>4, <1>5, <1>6, <1>7 DEF q, T, Removed

(* A request leaves the list and its counter. *)
LEMMA RemoveCountedLaw ==
  ASSUME NEW S, Sound(S), NEW Q \in SUBSET States, Matched(S, Q), Fits(S.d.requests),
         NEW i \in DOMAIN S.d.requests, S.d.requests[i].state \in Q
  PROVE  LET T == DelMember(RemoveRequest(S, i), S.d.requests[i].state)
         IN  /\ Removed(S, i, T) /\ Matched(T, Q)
             /\ \A st \in States : st # S.d.requests[i].state => T.d.in[st] = S.d.in[st]
<1> DEFINE q == S.d.requests
           v == q[i].state
           R == RemoveRequest(S, i)
           T == DelMember(R, v)
<1>1. q \in Seq(Request) /\ S.d.in \in [States -> Nat] /\ i \in DOMAIN q
  BY DEF Sound, IsPair, IsPriv
<1>2. v \in Q /\ v \in States /\ \A st \in Q : S.d.in[st] = Count(q, st)
  BY DEF Matched
<1>3. Removed(S, i, R) /\ R.d.in = S.d.in
  BY RemoveLaw
<1>4. \A st : Count(q, st) = Count(R.d.requests, st) + Is(v, st)
  BY RemoveLaw
<1>5. Count(q, v) # 0
  BY <1>1, CountZero
<1> HIDE DEF q, v, R
<1>6. S.d.in[v] # 0
  BY <1>2, <1>5
<1>7. Sound(R) /\ R.d.in[v] # 0
  BY <1>3, <1>6 DEF Removed
<1>8. /\ Sound(T) /\ Same(R, T) /\ T.d.requests = R.d.requests /\ T.g.cache = R.g.cache
      /\ T.d.in[v] = R.d.in[v] - 1
      /\ \A st \in States : st # v => T.d.in[st] = R.d.in[st]
  BY <1>2, <1>7, DelMemberLaw
<1> HIDE DEF T
<1>9. Removed(S, i, T)
  BY <1>3, <1>8 DEF Removed, Same
<1>10. \A st \in Q : T.d.in[st] = Count(T.d.requests, st)
  <2> TAKE st \in Q
  <2>1. S.d.in[st] = Count(q, st) /\ S.d.in[st] \in Nat /\ st \in States
    BY <1>1, <1>2
  <2>2. Count(q, st) = Count(R.d.requests, st) + Is(v, st)
    BY <1>4
  <2>3. R.d.requests \in Seq(Request)
    BY <1>7 DEF Sound, IsPair, IsPriv
  <2>4. Count(R.d.requests, st) \in Nat
    BY <2>3, InStateFinite
  <2>5. T.d.in[st] = S.d.in[st] - Is(v, st)
    BY <1>3, <1>8, <2>1 DEF Is
  <2>6. QED
    BY <1>8, <2>1, <2>2, <2>4, <2>5 DEF Is
<1>11. QED
  BY <1>3, <1>8, <1>9, <1>10 DEF Matched, q, v, R, T

\* T is S with a new request before position i
Grown(S, i, T) ==
  LET q == S.d.requests
      t == T.d.requests
  IN  /\ Sound(T) /\ Same(S, T) /\ Matched(T, States) /\ Fits(t)
      /\ T.g.cache = S.g.cache /\ Len(t) = Len(q) + 1 /\ DOMAIN t = 1 .. Len(q) + 1
      /\ \A k \in 1 .. i - 1 : t[k] = q[k]

(* _unified_insert_new_request before position i: the new request is not empty *)
(* and fits into its block, which the caller has accounted for.                *)
LEMMA InsertLaw ==
  ASSUME NEW S, Sound(S), Matched(S, States), CacheSize \in Nat \ {0}, Fits(S.d.requests),
         NEW i \in 1 .. Len(S.d.requests) + 1, NEW off \in Nat,
         NEW data \in Seq(Nat), Len(data) > 0, NEW ip \in BOOLEAN
  PROVE  Grown(S, i, InsertRequest(S, i, off, data, ip))
<1> DEFINE q == S.d.requests
           kept == SubSeq(data, 1, Lesser(Len(data), CacheSize))
           state == IF ip THEN "IP" ELSE IF Len(kept) = CacheSize THEN "DP" ELSE "PARTIAL"
           r == [offset |-> off, data |-> kept, state |-> state]
           t == InsertAt(q, i, r)
           A == SetRequests(S, t)
           B == AddMember(A, state)
           T == InsertRequest(S, i, off, data, ip)
<1>1. q \in Seq(Request) /\ S.d.in \in [States -> Nat]
  BY DEF Sound, IsPair, IsPriv
<1>2. DOMAIN q = 1 .. Len(q) /\ Len(q) \in Nat /\ i \in 1 .. Len(q) + 1
  BY <1>1, LenProperties
<1>3. T = GrowFileSize(B, i)
  BY DEF InsertRequest
<1> HIDE DEF q, T
<1>4. Len(data) \in Nat
  BY LenProperties
<1>5. /\ Lesser(Len(data), CacheSize) \in 1 .. CacheSize
      /\ Lesser(Len(data), CacheSize) \in Nat /\ Lesser(Len(data), CacheSize) <= Len(data)
  BY <1>4 DEF Lesser
<1>6. kept \in Seq(Nat) /\ Len(kept) = Lesser(Len(data), CacheSize)
  BY <1>5, CutLaw
<1> HIDE DEF kept
<1>7. state \in States
  BY DEF States
<1> HIDE DEF state
<1>8. r \in Request /\ r.offset = off /\ r.data = kept /\ r.state = state
  BY <1>6, <1>7 DEF Request
<1> HIDE DEF r, A, B
<1>9. /\ t \in Seq(Request) /\ Len(t) = Len(q) + 1 /\ DOMAIN t = 1 .. Len(q) + 1 /\ t[i] = r
      /\ \A k \in 1 .. i - 1 : t[k] = q[k]
      /\ \A k \in i .. Len(q) : t[k + 1] = q[k]
  <2>1. r \in Request
    BY <1>8
  <2>2. Inserted(q, i, r, t)
    BY <1>1, <1>2, <2>1, InsertAtLaw
  <2> HIDE DEF t
  <2>3. QED
    BY <2>2 DEF Inserted
<1> HIDE DEF t
<1>10. \A st : Count(t, st) = Count(q, st) + Is(state, st)
  <2> TAKE st
  <2>1. i \in 1 .. Len(t)
    BY <1>2, <1>9
  <2>2. Count(t, st) = Count(q, st) + Is(t[i].state, st)
    BY <1>1, <1>9, <2>1, CountGap, ZenonT(40)
  <2>3. QED
    BY <1>8, <1>9, <2>2
<1>11. /\ Sound(A) /\ Same(S, A) /\ A.d.requests = t /\ A.d.in = S.d.in /\ A.g.cache = S.g.cache
  BY <1>9, SetRequestsLaw DEF A
<1>12. /\ Sound(B) /\ Same(A, B) /\ B.d.requests = t /\ B.g.cache = A.g.cache
       /\ B.d.in[state] = A.d.in[state] + 1
       /\ \A st \in States : st # state => B.d.in[st] = A.d.in[st]
  BY <1>7, <1>11, AddMemberLaw DEF B
<1>13. /\ Sound(T) /\ Same(B, T) /\ T.d.requests = t /\ T.d.in = B.d.in /\ T.g.cache = B.g.cache
  BY <1>3, <1>12, GrowLaw
<1>14. Matched(T, States)
  <2> SUFFICES ASSUME NEW st \in States PROVE T.d.in[st] = Count(t, st)
    BY <1>13 DEF Matched
  <2>1. S.d.in[st] = Count(q, st) /\ S.d.in[st] \in Nat
    BY <1>1 DEF Matched, q
  <2>2. Count(t, st) = Count(q, st) + Is(state, st)
    BY <1>10
  <2>3. T.d.in[st] = S.d.in[st] + Is(state, st)
    BY <1>11, <1>12, <1>13, <2>1 DEF Is
  <2>4. QED
    BY <2>1, <2>2, <2>3
<1>15. Fits(t)
  <2>1. \A k \in DOMAIN q : Len(q[k].data) \in 1 .. CacheSize
    BY DEF Fits, q
  <2>2. SUFFICES ASSUME NEW k \in 1 .. Len(q) + 1 PROVE Len(t[k].data) \in 1 .. CacheSize
    BY <1>9 DEF Fits
  <2>3. CASE k < i
    <3>1. k \in 1 .. i - 1 /\ k \in DOMAIN q
      BY <1>2, <2>3
    <3>2. QED
      BY <1>9, <2>1, <3>1
  <2>4. CASE k = i
    BY <1>5, <1>6, <1>8, <1>9, <2>4
  <2>5. CASE k > i
    <3>1. k - 1 \in i .. Len(q) /\ k - 1 \in DOMAIN q /\ (k - 1) + 1 = k
      BY <1>2, <2>5
    <3>2. t[k] = q[k - 1]
      BY <1>9, <3>1
    <3>3. QED
      BY <2>1, <3>1, <3>2
  <2>6. QED
    BY <1>2, <2>3, <2>4, <2>5
<1>16. Same(S, T) /\ T.g.cache = S.g.cache
  BY <1>11, <1>12, <1>13 DEF Same
<1>17. QED
  BY <1>9, <1>13, <1>14, <1>15, <1>16 DEF q, T, Grown

(* A merge before the source is cut: the destination may have grown, the source *)
(* is as it was.                                                                *)
LEMMA CopiedLaw ==
  ASSUME NEW S, Sound(S), NEW Q \in SUBSET States, Matched(S, Q),
         CacheSize \in Nat \ {0}, Fits(S.d.requests),
         NEW i \in DOMAIN S.d.requests, NEW p \in DOMAIN S.d.requests, p # i,
         Q = States \/ S.d.requests[i].state = "IP", Overlap(S, p, i) >= 0
  PROVE  LET q == S.d.requests
             T == Copied(S, p, i)
             t == T.d.requests
             cut == CutOf(S, p, i)
         IN  /\ cut \in Nat /\ (Copies(S, p, i) => cut <= Len(q[i].data))
             /\ Sound(T) /\ Same(S, T) /\ Matched(T, Q) /\ Fits(t)
             /\ T.g.cache = S.g.cache /\ Len(t) = Len(q) /\ DOMAIN t = DOMAIN q
             /\ t[p].offset = q[p].offset
             /\ Len(t[p].data) = Len(q[p].data) + cut - Overlap(S, p, i)
             /\ \A k \in DOMAIN q : k # p => t[k].offset = q[k].offset /\ t[k].data = q[k].data
             /\ \A k \in DOMAIN q : t[k].state = q[k].state \/ q[k].state = "PARTIAL"
             /\ q[i].state = "IP" =>
                  T.d.in = S.d.in /\ \A k \in DOMAIN q : t[k].state = q[k].state
<1> DEFINE q == S.d.requests
           P == q[p]
           I == q[i]
           T == Copied(S, p, i)
           cut == CutOf(S, p, i)
           overlap == Overlap(S, p, i)
<1>1. q \in Seq(Request)
  BY DEF Sound, IsPair, IsPriv
<1>2. /\ overlap = End(P) - I.offset /\ overlap >= 0
      /\ p \in DOMAIN q /\ i \in DOMAIN q /\ (Q = States \/ I.state = "IP")
      /\ \A k \in DOMAIN q : Len(q[k].data) \in 1 .. CacheSize
  <2>1. overlap = End(P) - I.offset
    BY DEF Overlap
  <2>2. overlap >= 0
    OBVIOUS
  <2>3. \A k \in DOMAIN q : Len(q[k].data) \in 1 .. CacheSize
    BY DEF Fits
  <2> HIDE DEF overlap
  <2>4. p \in DOMAIN q /\ i \in DOMAIN q /\ (Q = States \/ I.state = "IP")
    OBVIOUS
  <2> HIDE DEF q, P, I
  <2>5. QED
    BY <2>1, <2>3, <2>4, <2>2
<1>3. Copies(S, p, i) <=> /\ ~Mixed(P, I) /\ Len(P.data) < CacheSize
                          /\ Len(I.data) > overlap
  BY DEF Copies
<1>4. Copies(S, p, i) => /\ T = UpdateRequest(S, p, End(P), Drop(I.data, overlap))
                         /\ cut = overlap + UpdateCount(S, p, End(P), Len(I.data) - overlap)
  BY DEF Copied, CutOf
<1>5. ~Copies(S, p, i) => T = S /\ cut = overlap
  BY DEF Copied, CutOf
<1> HIDE DEF q, T, cut, overlap
<1>6. P \in Request /\ I \in Request
  BY <1>1, <1>2, ElementOfSeq
<1> HIDE DEF P, I
<1>7. /\ P.offset \in Nat /\ P.data \in Seq(Nat) /\ Len(P.data) \in Nat /\ P.state \in States
      /\ I.offset \in Nat /\ I.data \in Seq(Nat) /\ Len(I.data) \in Nat /\ I.state \in States
  BY <1>6, RequestLaw
<1>8. overlap \in Nat
  BY <1>2, <1>7 DEF End
<1>9. CASE ~Copies(S, p, i)
  <2>1. T = S /\ cut = overlap
    BY <1>5, <1>9
  <2>2. Len(P.data) = Len(P.data) + cut - overlap
    BY <1>7, <1>8, <2>1
  <2>3. Same(S, T)
    BY <2>1 DEF Same
  <2>4. QED
    BY <1>8, <1>9, <2>1, <2>2, <2>3 DEF q, P, I, T, cut, overlap
<1>10. CASE Copies(S, p, i)
  <2> DEFINE off == End(P)
             data == Drop(I.data, overlap)
             n == UpdateCount(S, p, off, Len(data))
             t == T.d.requests
  <2>1. ~Mixed(P, I) /\ Len(P.data) < CacheSize /\ Len(I.data) > overlap
    BY <1>3, <1>10
  <2>2. data \in Seq(Nat) /\ Len(data) = Len(I.data) - overlap
    <3>1. overlap <= Len(I.data)
      BY <1>7, <1>8, <2>1
    <3>2. QED
      BY <1>7, <1>8, <3>1, CutLaw
  <2>3. T = UpdateRequest(S, p, off, data)
    BY <1>4, <1>10
  <2>4. cut = overlap + n
    BY <1>4, <1>10, <2>2
  <2>5. off = P.offset + Len(P.data) /\ off \in Nat
    BY <1>7 DEF End
  <2>6. I.state = "IP" => P.state = "IP"
    BY <2>1 DEF Mixed
  <2> HIDE DEF data, off
  <2>7. Len(data) > 0 /\ Len(data) \in Nat
    BY <1>7, <1>8, <2>1, <2>2, SMTT(30)
  <2>8. P.offset <= off /\ off <= End(P) /\ off < P.offset + CacheSize
    BY <1>7, <2>1, <2>5 DEF End
  <2>9. Q = States \/ P.state # "PARTIAL"
    BY <1>2, <2>6
  <2>10. /\ p \in DOMAIN S.d.requests /\ S.d.requests[p].offset <= off
         /\ off <= End(S.d.requests[p]) /\ off < S.d.requests[p].offset + CacheSize
         /\ Q = States \/ S.d.requests[p].state # "PARTIAL"
    BY <1>2, <2>8, <2>9 DEF P, q
  <2>11. /\ n \in 1 .. Len(data)
         /\ Sound(T) /\ Same(S, T) /\ Matched(T, Q) /\ Fits(t)
         /\ T.g.cache = S.g.cache /\ Len(t) = Len(q) /\ DOMAIN t = DOMAIN q
         /\ t[p].offset = P.offset
         /\ Len(t[p].data) = Greater(Len(P.data), off - P.offset + n)
         /\ \A k \in DOMAIN q : k # p => t[k].offset = q[k].offset /\ t[k].data = q[k].data
         /\ \A k \in DOMAIN q : t[k].state = q[k].state \/ q[k].state = "PARTIAL"
         /\ P.state # "PARTIAL" =>
              T.d.in = S.d.in /\ \A k \in DOMAIN q : t[k].state = q[k].state
    <3>1. n \in 1 .. Len(data) /\ Updated(S, p, off, n, Q, T)
      BY <2>2, <2>3, <2>5, <2>7, <2>10, UpdateLaw
    <3> HIDE DEF n
    <3>2. QED
      BY <3>1 DEF P, q, t, Updated
  <2> HIDE DEF n, t
  <2>12. cut \in Nat /\ cut <= Len(I.data)
    BY <1>7, <1>8, <2>2, <2>4, <2>11
  <2>13. Len(t[p].data) = Len(P.data) + cut - overlap
    <3>1. n \in Nat /\ n >= 1
      BY <2>7, <2>11
    <3>2. off - P.offset + n = Len(P.data) + n
      BY <1>7, <2>5, <3>1
    <3>3. Len(t[p].data) = Greater(Len(P.data), Len(P.data) + n)
      BY <2>11, <3>2
    <3>4. QED
      BY <1>7, <1>8, <2>4, <3>1, <3>3 DEF Greater
  <2>14. QED
    BY <2>6, <2>11, <2>12, <2>13 DEF q, P, I, T, cut, overlap, t
<1>11. QED
  BY <1>9, <1>10

(* The front of a request is cut off. *)
LEMMA CutRequestLaw ==
  ASSUME NEW S, Sound(S), NEW Q \in SUBSET States, Matched(S, Q),
         CacheSize \in Nat \ {0}, Fits(S.d.requests), NEW i \in DOMAIN S.d.requests,
         Q = States \/ S.d.requests[i].state = "IP",
         NEW n \in Nat, n < Len(S.d.requests[i].data)
  PROVE  LET q == S.d.requests
             T == CutRequest(S, i, n)
             t == T.d.requests
         IN  /\ Sound(T) /\ Same(S, T) /\ Matched(T, Q) /\ Fits(t)
             /\ T.g.cache = S.g.cache /\ Len(t) = Len(q) /\ DOMAIN t = DOMAIN q
             /\ t[i].offset = q[i].offset + n /\ Len(t[i].data) = Len(q[i].data) - n
             /\ \A k \in DOMAIN q : k # i => t[k] = q[k]
             /\ q[i].state = "IP" =>
                  T.d.in = S.d.in /\ \A k \in DOMAIN q : t[k].state = q[k].state
<1> DEFINE q == S.d.requests
           r == q[i]
           st0 == IF r.state = "DP" THEN "PARTIAL" ELSE r.state
           new == [offset |-> r.offset + n, data |-> Drop(r.data, n), state |-> st0]
           A == SetRequest(S, i, new)
           T == CutRequest(S, i, n)
<1>1. q \in Seq(Request) /\ S.d.in \in [States -> Nat]
  BY DEF Sound, IsPair, IsPriv
<1>2. DOMAIN q = 1 .. Len(q) /\ Len(q) \in Nat /\ r \in Request
  BY <1>1, LenProperties, ElementOfSeq
<1>3. Len(r.data) \in 1 .. CacheSize /\ n < Len(r.data)
  BY DEF Fits
<1>4. T = IF r.state = "DP" THEN AddMember(DelMember(A, "DP"), "PARTIAL") ELSE A
  BY DEF CutRequest
<1>5. i \in DOMAIN q
  OBVIOUS
<1>6. \A st \in Q : S.d.in[st] = Count(q, st)
  BY DEF Matched
<1>7. \A k \in DOMAIN q : Len(q[k].data) \in 1 .. CacheSize
  BY DEF Fits
<1>8. Q = States \/ r.state = "IP"
  OBVIOUS
<1> HIDE DEF q, T
<1>9. /\ r.offset \in Nat /\ r.data \in Seq(Nat) /\ Len(r.data) \in Nat /\ r.state \in States
  BY <1>2, RequestLaw
<1> HIDE DEF r
<1>10. Drop(r.data, n) \in Seq(Nat) /\ Len(Drop(r.data, n)) = Len(r.data) - n
  <2>1. n <= Len(r.data)
    BY <1>3, <1>9
  <2>2. QED
    BY <1>9, <2>1, CutLaw
<1>11. st0 \in States
  BY <1>9 DEF States
<1> HIDE DEF st0
<1>12. /\ new \in Request /\ new.offset = r.offset + n /\ new.data = Drop(r.data, n)
       /\ new.state = st0
       /\ Len(new.data) \in 1 .. CacheSize
  <2>1. new.offset = r.offset + n /\ new.data = Drop(r.data, n) /\ new.state = st0
    OBVIOUS
  <2>2. r.offset + n \in Nat
    BY <1>9
  <2>3. new \in Request
    BY <1>10, <1>11, <2>2 DEF Request
  <2>4. Len(Drop(r.data, n)) \in 1 .. CacheSize
    <3> DEFINE l == Len(r.data)
    <3>1. l \in Nat /\ l \in 1 .. CacheSize /\ n < l /\ Len(Drop(r.data, n)) = l - n
      BY <1>3, <1>9, <1>10
    <3> HIDE DEF l
    <3>2. QED
      BY <3>1
  <2>5. QED
    BY <2>1, <2>3, <2>4
<1> HIDE DEF new, A
<1>13. /\ Sound(A) /\ Same(S, A) /\ Len(A.d.requests) = Len(q) /\ DOMAIN A.d.requests = DOMAIN q
       /\ A.d.requests[i] = new
       /\ \A k \in DOMAIN q : k # i => A.d.requests[k] = q[k]
       /\ A.d.in = S.d.in /\ A.g.cache = S.g.cache
  BY <1>12, SetRequestLaw DEF A, q
<1>14. Fits(A.d.requests)
  BY <1>12, <1>13, <1>7 DEF Fits
<1>15. \A st : Count(A.d.requests, st) = Count(q, st) + Is(st0, st) - Is(r.state, st)
  <2> TAKE st
  <2>1. \A k \in DOMAIN q : k # i => A.d.requests[k].state = q[k].state
    BY <1>13
  <2>2. Count(A.d.requests, st) = Count(q, st) + Is(A.d.requests[i].state, st) - Is(q[i].state, st)
    BY <1>1, <1>13, <1>5, <2>1, CountSet, SMTT(30)
  <2>3. QED
    BY <1>12, <1>13, <2>2 DEF r
<1>16. \A st \in States : Count(q, st) \in Nat
  BY <1>1, InStateFinite
<1>17. CASE r.state # "DP"
  <2>1. T = A /\ st0 = r.state
    BY <1>4, <1>17 DEF st0
  <2>2. \A st \in States : Count(A.d.requests, st) = Count(q, st)
    BY <1>15, <1>16, <2>1 DEF Is
  <2>3. Matched(T, Q)
    BY <1>13, <1>6, <2>1, <2>2 DEF Matched
  <2>4. QED
    BY <1>10, <1>12, <1>13, <1>14, <2>1, <2>3 DEF q, r, T
<1>18. CASE r.state = "DP"
  <2> DEFINE B == DelMember(A, "DP")
  <2>1. T = AddMember(B, "PARTIAL") /\ st0 = "PARTIAL" /\ Q = States
    BY <1>4, <1>18, <1>8 DEF st0
  <2>2. "DP" \in States /\ "PARTIAL" \in States /\ "IP" \in States
    BY DEF States
  <2>3. /\ S.d.in["DP"] = Count(q, "DP") /\ S.d.in["PARTIAL"] = Count(q, "PARTIAL")
        /\ S.d.in["IP"] = Count(q, "IP")
    BY <1>6, <2>1, <2>2
  <2>4. Count(q, "DP") # 0
    BY <1>1, <1>18, <1>5, CountZero DEF r
  <2>5. /\ Sound(B) /\ Same(A, B) /\ B.d.requests = A.d.requests
        /\ B.d.in["DP"] = A.d.in["DP"] - 1
        /\ \A st \in States : st # "DP" => B.d.in[st] = A.d.in[st]
        /\ B.g.cache = A.g.cache
    BY <1>13, <2>2, <2>3, <2>4, DelMemberLaw
  <2> HIDE DEF B
  <2>6. /\ Sound(T) /\ Same(B, T) /\ T.d.requests = B.d.requests
        /\ T.d.in["PARTIAL"] = B.d.in["PARTIAL"] + 1
        /\ \A st \in States : st # "PARTIAL" => T.d.in[st] = B.d.in[st]
        /\ T.g.cache = B.g.cache
    BY <2>1, <2>2, <2>5, AddMemberLaw, ZenonT(40)
  <2>7. /\ Count(A.d.requests, "DP") = Count(q, "DP") - 1
        /\ Count(A.d.requests, "PARTIAL") = Count(q, "PARTIAL") + 1
        /\ Count(A.d.requests, "IP") = Count(q, "IP")
    BY <1>15, <1>16, <1>18, <2>1, <2>2 DEF Is
  <2>8. T.d.in["DP"] = Count(A.d.requests, "DP")
    BY <1>13, <2>2, <2>3, <2>5, <2>6, <2>7
  <2>9. T.d.in["PARTIAL"] = Count(A.d.requests, "PARTIAL")
    BY <1>13, <2>2, <2>3, <2>5, <2>6, <2>7
  <2>10. T.d.in["IP"] = Count(A.d.requests, "IP")
    BY <1>13, <2>2, <2>3, <2>5, <2>6, <2>7
  <2>11. Matched(T, Q)
    BY <2>1, <2>5, <2>6, <2>8, <2>9, <2>10 DEF Matched, States
  <2>12. Same(S, T) /\ T.g.cache = S.g.cache
    BY <1>13, <2>5, <2>6 DEF Same
  <2>13. QED
    BY <1>10, <1>12, <1>13, <1>14, <1>18, <2>5, <2>6, <2>11, <2>12, ZenonT(40) DEF q, r, T
<1>19. QED
  BY <1>17, <1>18

\* m is the outcome of merging request i of S into an earlier one
Merged(S, i, Q, m) ==
  LET q == S.d.requests
      t == m.S.d.requests
  IN  /\ m.ret \in {0, 1, 2}
      /\ Sound(m.S) /\ Same(S, m.S) /\ Matched(m.S, Q) /\ Fits(t) /\ m.S.g.cache = S.g.cache
      /\ Len(t) = IF m.ret = 2 THEN Len(q) - 1 ELSE Len(q)
      /\ q[i].state = "IP" => \A st \in States : st # "IP" => m.S.d.in[st] = S.d.in[st]
      /\ q[i].state = "IP" => \A k \in DOMAIN t :
           t[k].state = IF m.ret = 2 /\ k >= i THEN q[k + 1].state ELSE q[k].state

(* _unified_merge_requests: the counters follow the cut or the removal of the *)
(* source and the growth of the destination.                                  *)
LEMMA MergeLaw ==
  ASSUME NEW S, Sound(S), NEW Q \in SUBSET States, Matched(S, Q),
         CacheSize \in Nat \ {0}, Fits(S.d.requests),
         NEW i \in DOMAIN S.d.requests, NEW p \in Nat, p < i,
         Q = States \/ (S.d.requests[i].state = "IP" /\ "IP" \in Q)
  PROVE  Merged(S, i, Q, Merge(S, p, i))
<1> DEFINE q == S.d.requests
           m == Merge(S, p, i)
           T == Copied(S, p, i)
           cut == CutOf(S, p, i)
           size == Len(q[i].data)
           keepsAll == [S |-> S, ret |-> 0]
<1>1. q \in Seq(Request) /\ i \in DOMAIN q
  BY DEF Sound, IsPair, IsPriv
<1>2. DOMAIN q = 1 .. Len(q) /\ Len(q) \in Nat
  BY <1>1, LenProperties
<1>3. Merged(S, i, Q, keepsAll)
  <2>1. keepsAll.S = S /\ keepsAll.ret = 0
    OBVIOUS
  <2> HIDE DEF keepsAll
  <2>2. Same(S, S)
    BY DEF Same
  <2>3. QED
    BY <2>1, <2>2 DEF Merged
<1>4. ASSUME p # 0 PROVE p \in DOMAIN q /\ p # i /\ Overlap(S, p, i) \in Int
  <2>1. p \in DOMAIN q /\ p # i
    BY <1>1, <1>2, <1>4
  <2>2. q[p] \in Request /\ q[i] \in Request
    BY <1>1, <2>1, ElementOfSeq
  <2>3. q[p].offset \in Nat /\ Len(q[p].data) \in Nat /\ q[i].offset \in Nat
    BY <2>2, RequestLaw
  <2>4. Overlap(S, p, i) = End(q[p]) - q[i].offset
    BY DEF Overlap
  <2> HIDE DEF q
  <2>5. QED
    BY <2>1, <2>3, <2>4 DEF End
<1>5. CASE p = 0 \/ Overlap(S, p, i) < 0
  <2>1. m = keepsAll
    <3>1. CASE p = 0
      BY <3>1 DEF Merge
    <3>2. CASE p # 0
      <4>1. ~(Overlap(S, p, i) >= 0) /\ Overlap(S, p, i) < 0
        BY <1>5, <1>4, <3>2
      <4>2. QED
        BY <3>2, <4>1 DEF Merge
    <3>3. QED
      BY <3>1, <3>2
  <2>2. QED
    BY <1>3, <2>1
<1>6. CASE p # 0 /\ ~(Overlap(S, p, i) < 0)
  <2>1. p \in DOMAIN q /\ p # i
    BY <1>6, <1>4
  <2>2. Overlap(S, p, i) >= 0
    BY <1>6, <1>4
  <2>3. /\ cut \in Nat
        /\ Sound(T) /\ Same(S, T) /\ Matched(T, Q) /\ Fits(T.d.requests)
        /\ T.g.cache = S.g.cache /\ Len(T.d.requests) = Len(q) /\ DOMAIN T.d.requests = DOMAIN q
        /\ T.d.requests[i].data = q[i].data
        /\ \A k \in DOMAIN q : T.d.requests[k].state = q[k].state \/ q[k].state = "PARTIAL"
        /\ q[i].state = "IP" =>
             T.d.in = S.d.in /\ \A k \in DOMAIN q : T.d.requests[k].state = q[k].state
    BY <2>1, <2>2, CopiedLaw
  <2>4. m = CASE Overlap(S, p, i) < 0 -> [S |-> S, ret |-> 0]
              [] Overlap(S, p, i) >= 0 /\ cut = 0 -> [S |-> T, ret |-> 0]
              [] Overlap(S, p, i) >= 0 /\ cut > 0 /\ cut < size ->
                   [S |-> CutRequest(T, i, cut), ret |-> 1]
              [] OTHER -> [S |-> DelMember(RemoveRequest(T, i), T.d.requests[i].state), ret |-> 2]
    BY <1>6 DEF Merge
  <2>5. Q = States \/ (q[i].state = "IP" /\ "IP" \in Q)
    OBVIOUS
  <2>6. size \in Nat
    <3>1. q[i] \in Request
      BY <1>1, ElementOfSeq
    <3>2. QED
      BY <3>1, RequestLaw
  <2> HIDE DEF q, m, T, cut, size
  <2>7. CASE cut = 0
    <3>1. m = [S |-> T, ret |-> 0]
      BY <1>6, <2>2, <2>4, <2>7
    <3>2. m.S = T /\ m.ret = 0
      BY <3>1
    <3>3. QED
      BY <2>3, <3>2 DEF Merged, q, m
  <2>8. CASE cut > 0 /\ cut < size
    <3> DEFINE C == CutRequest(T, i, cut)
    <3>1. m = [S |-> C, ret |-> 1]
      BY <1>6, <2>2, <2>3, <2>4, <2>8
    <3>2. /\ i \in DOMAIN T.d.requests /\ cut < Len(T.d.requests[i].data)
          /\ Q = States \/ T.d.requests[i].state = "IP"
      BY <1>1, <2>3, <2>5, <2>8 DEF size
    <3>3. /\ Sound(C) /\ Same(T, C) /\ Matched(C, Q) /\ Fits(C.d.requests)
          /\ C.g.cache = T.g.cache /\ Len(C.d.requests) = Len(q) /\ DOMAIN C.d.requests = DOMAIN q
          /\ T.d.requests[i].state = "IP" =>
               /\ C.d.in = T.d.in
               /\ \A k \in DOMAIN q : C.d.requests[k].state = T.d.requests[k].state
      BY <2>3, <3>2, CutRequestLaw, SMTT(30)
    <3> HIDE DEF C
    <3>4. m.S = C /\ m.ret = 1
      BY <3>1
    <3>5. Same(S, C)
      BY <2>3, <3>3 DEF Same
    <3>6. q[i].state = "IP" =>
            C.d.in = S.d.in /\ \A k \in DOMAIN q : C.d.requests[k].state = q[k].state
      BY <1>1, <2>3, <3>3
    <3>7. QED
      BY <2>3, <3>3, <3>4, <3>5, <3>6 DEF Merged, q, m
  <2>9. CASE ~(cut = 0) /\ ~(cut > 0 /\ cut < size)
    <3> DEFINE v == T.d.requests[i].state
               R == DelMember(RemoveRequest(T, i), v)
    <3>1. m = [S |-> R, ret |-> 2]
      BY <1>6, <2>2, <2>3, <2>4, <2>9
    <3>2. T.d.requests \in Seq(Request) /\ i \in DOMAIN T.d.requests
      BY <1>1, <2>3 DEF Sound, IsPair, IsPriv
    <3>3. v \in States
      BY <3>2, ElementOfSeq, RequestLaw
    <3>4. v \in Q
      BY <1>1, <2>3, <2>5, <3>3
    <3>5. /\ Removed(T, i, R) /\ Matched(R, Q)
          /\ \A st \in States : st # v => R.d.in[st] = T.d.in[st]
      BY <2>3, <3>2, <3>4, RemoveCountedLaw
    <3> HIDE DEF R
    <3>6. m.S = R /\ m.ret = 2
      BY <3>1
    <3>7. /\ Sound(R) /\ Same(S, R) /\ Fits(R.d.requests) /\ R.g.cache = S.g.cache
          /\ Len(R.d.requests) = Len(q) - 1 /\ DOMAIN R.d.requests = 1 .. Len(q) - 1
          /\ \A k \in 1 .. i - 1 : R.d.requests[k] = T.d.requests[k]
          /\ \A k \in i .. Len(q) - 1 : R.d.requests[k] = T.d.requests[k + 1]
      BY <2>3, <3>5 DEF Removed, Same
    <3>8. q[i].state = "IP" => \A k \in 1 .. Len(q) - 1 :
            R.d.requests[k].state = IF k >= i THEN q[k + 1].state ELSE q[k].state
      <4> SUFFICES ASSUME q[i].state = "IP", NEW k \in 1 .. Len(q) - 1
                   PROVE  R.d.requests[k].state = IF k >= i THEN q[k + 1].state ELSE q[k].state
        OBVIOUS
      <4>1. CASE k >= i
        <5>1. k \in i .. Len(q) - 1 /\ k + 1 \in DOMAIN q
          BY <1>1, <1>2, <4>1
        <5>2. QED
          BY <2>3, <3>7, <4>1, <5>1
      <4>2. CASE ~(k >= i)
        <5>1. k \in 1 .. i - 1 /\ k \in DOMAIN q
          BY <1>1, <1>2, <4>2
        <5>2. QED
          BY <2>3, <3>7, <4>2, <5>1
      <4>3. QED
        BY <4>1, <4>2
    <3>9. q[i].state = "IP" => \A st \in States : st # "IP" => R.d.in[st] = S.d.in[st]
      BY <1>1, <2>3, <3>5
    <3>10. QED
      BY <3>5, <3>6, <3>7, <3>8, <3>9 DEF Merged, q, m
  <2>10. QED
    BY <2>7, <2>8, <2>9
<1>7. QED
  BY <1>5, <1>6

-----------------------------------------------------------------------------
(* Requests are dropped.                                                   *)

\* T is S with some of its requests, all of its flags, and the blocks of the
\* requests that are gone back in the pool
Thinned(S, T) ==
  LET q == S.d.requests
      t == T.d.requests
  IN  /\ Sound(T) /\ Fits(t) /\ T.g.leaked = S.g.leaked /\ T.d.alloc = S.d.alloc
      /\ Len(t) <= Len(q) /\ T.g.cache - Len(t) = S.g.cache - Len(q)
      /\ \A k \in DOMAIN t : \E j \in DOMAIN q : t[k].state = q[j].state

(* Dropping the requests that are not at a position in K. *)
LEMMA KeepLaw ==
  ASSUME NEW S, Sound(S), Fits(S.d.requests), NEW K \in SUBSET (DOMAIN S.d.requests)
  PROVE  LET T == KeepRequests(S, K)
             q == S.d.requests
         IN  /\ Thinned(S, T) /\ Same(S, T) /\ T.d.in = S.d.in
             /\ \A k \in DOMAIN T.d.requests : \E j \in K : T.d.requests[k] = q[j]
             /\ \A st : Count(T.d.requests, st) = Among(q, K, st)
<1> DEFINE q == S.d.requests
           t == Pick(q, K)
           A == SetRequests(S, t)
           T == KeepRequests(S, K)
           n == Len(q) - Cardinality(K)
<1>1. q \in Seq(Request) /\ K \in SUBSET (DOMAIN q) /\ S.g.cache \in Int
  BY DEF Sound, IsPair, IsPriv, IsGlobal
<1>2. \A k \in DOMAIN q : Len(q[k].data) \in 1 .. CacheSize
  BY DEF Fits
<1>3. T = CacheFree(A, n)
  BY DEF KeepRequests
<1> HIDE DEF q, T
<1>4. Len(q) \in Nat
  BY <1>1, LenProperties
<1>5. /\ t \in Seq(Request) /\ Len(t) = Cardinality(K) /\ Cardinality(K) \in Nat
      /\ Cardinality(K) <= Len(q)
      /\ \A i \in DOMAIN t : \E k \in K : t[i] = q[k]
      /\ \A st : Count(t, st) = Among(q, K, st)
  BY <1>1, PickLaw
<1> HIDE DEF t
<1>6. n \in Int
  BY <1>4, <1>5
<1>7. /\ Sound(A) /\ Same(S, A) /\ A.d.requests = t /\ A.d.in = S.d.in /\ A.g.cache = S.g.cache
  BY <1>5, SetRequestsLaw
<1> HIDE DEF A
<1>8. Sound(T) /\ Same(A, T) /\ T.d = A.d /\ T.g.cache = A.g.cache - n
  <2> HIDE DEF n
  <2>1. QED
    BY <1>3, <1>6, <1>7, CacheFreeLaw
<1>9. Same(S, T)
  BY <1>7, <1>8 DEF Same
<1>10. T.d.requests = t /\ T.d.in = S.d.in
  BY <1>7, <1>8
<1>11. T.g.cache - Len(t) = S.g.cache - Len(q)
  BY <1>1, <1>4, <1>5, <1>7, <1>8
<1>12. Fits(t)
  BY <1>1, <1>2, <1>5 DEF Fits
<1>13. \A k \in DOMAIN t : \E j \in DOMAIN q : t[k].state = q[j].state
  BY <1>1, <1>5
<1>14. Thinned(S, T)
  BY <1>5, <1>8, <1>9, <1>10, <1>11, <1>12, <1>13 DEF Thinned, Same, q
<1>15. QED
  BY <1>5, <1>9, <1>10, <1>14 DEF q, T

\* the positions of the requests in the states Q
Positions(q, Q) == {k \in DOMAIN q : q[k].state \in Q}

(* Dropping all requests that are in none of the states Q. *)
LEMMA KeepStatesLaw ==
  ASSUME NEW S, Sound(S), Fits(S.d.requests), NEW Q \in SUBSET States
  PROVE  LET T == KeepRequests(S, Positions(S.d.requests, Q))
         IN  /\ Thinned(S, T) /\ Same(S, T) /\ T.d.in = S.d.in
             /\ \A k \in DOMAIN T.d.requests : T.d.requests[k].state \in Q
             /\ \A st \in States : Count(T.d.requests, st) =
                                   IF st \in Q THEN Count(S.d.requests, st) ELSE 0
<1> DEFINE q == S.d.requests
           K == Positions(q, Q)
           T == KeepRequests(S, K)
<1>1. q \in Seq(Request) /\ K = {k \in DOMAIN q : q[k].state \in Q} /\ K \in SUBSET (DOMAIN q)
  BY DEF Sound, IsPair, IsPriv, Positions
<1>2. /\ Thinned(S, T) /\ Same(S, T) /\ T.d.in = S.d.in
      /\ \A k \in DOMAIN T.d.requests : \E j \in K : T.d.requests[k] = q[j]
      /\ \A st : Count(T.d.requests, st) = Among(q, K, st)
  BY <1>1, KeepLaw
<1> HIDE DEF q, K, T
<1>3. \A k \in DOMAIN T.d.requests : T.d.requests[k].state \in Q
  BY <1>1, <1>2
<1>4. ASSUME NEW st \in States
      PROVE  Count(T.d.requests, st) = IF st \in Q THEN Count(q, st) ELSE 0
  <2> DEFINE I == {k \in K : q[k].state = st}
  <2>1. Count(T.d.requests, st) = Cardinality(I)
    BY <1>2 DEF Among
  <2>2. CASE st \in Q
    <3>1. I = InState(q, st)
      BY <1>1, <2>2 DEF InState
    <3> HIDE DEF I
    <3>2. QED
      BY <2>1, <2>2, <3>1 DEF Count
  <2>3. CASE st \notin Q
    <3>1. I = {}
      BY <1>1, <2>3
    <3> HIDE DEF I
    <3>2. Cardinality(I) = 0
      BY <3>1, FS_EmptySet
    <3>3. QED
      BY <2>1, <2>3, <3>2
  <2>4. QED
    BY <2>2, <2>3
<1>5. QED
  BY <1>2, <1>3, <1>4 DEF q, K, T

-----------------------------------------------------------------------------
(* Placement, the alternate extents and errors.                            *)

\* S and T agree in the requests, their counters and the cache
Plain(S, T) ==
  /\ Sound(T) /\ Same(S, T) /\ T.d.requests = S.d.requests
  /\ T.d.in = S.d.in /\ T.g.cache = S.g.cache

(* Another file size. *)
LEMMA FileSizeLaw ==
  ASSUME NEW S, Sound(S), NEW v
  PROVE  Plain(S, [S EXCEPT !.d.file_size = v])
<1> DEFINE T == [S EXCEPT !.d.file_size = v]
<1>1. IsPair(S)
  BY DEF Sound
<1>2. T.d = [S.d EXCEPT !.file_size = v] /\ T.g = S.g /\ DOMAIN T = {"d", "g"}
  BY <1>1 DEF IsPair
<1> HIDE DEF T
<1>3. DOMAIN T.d = PrivFields /\ \A f \in PrivFields \ {"file_size", "alt"} : T.d[f] = S.d[f]
  BY <1>1, <1>2 DEF IsPair, IsPriv
<1>4. DOMAIN T.g = GlobalFields /\ \A f \in GlobalFields \ {"ext_queue"} : T.g[f] = S.g[f]
  BY <1>1, <1>2 DEF IsPair, IsGlobal
<1>5. QED
  BY <1>2, <1>3, <1>4, OtherFieldLaw DEF T, Plain

(* Another alternate extent list and another number of lists in the queue. *)
LEMMA AltLaw ==
  ASSUME NEW S, Sound(S), NEW v, NEW w
  PROVE  Plain(S, [S EXCEPT !.d.alt = v, !.g.ext_queue = w])
<1> DEFINE T == [S EXCEPT !.d.alt = v, !.g.ext_queue = w]
<1>1. IsPair(S)
  BY DEF Sound
<1>2. /\ T.d = [S.d EXCEPT !.alt = v] /\ T.g = [S.g EXCEPT !.ext_queue = w]
      /\ DOMAIN T = {"d", "g"}
  BY <1>1 DEF IsPair
<1> HIDE DEF T
<1>3. DOMAIN T.d = PrivFields /\ \A f \in PrivFields \ {"file_size", "alt"} : T.d[f] = S.d[f]
  BY <1>1, <1>2 DEF IsPair, IsPriv
<1>4. DOMAIN T.g = GlobalFields /\ \A f \in GlobalFields \ {"ext_queue"} : T.g[f] = S.g[f]
  BY <1>1, <1>2 DEF IsPair, IsGlobal
<1>5. QED
  BY <1>2, <1>3, <1>4, OtherFieldLaw, ZenonT(40) DEF T, Plain

(* Another alternate extent list. *)
LEMMA AltOnlyLaw ==
  ASSUME NEW S, Sound(S), NEW v
  PROVE  Plain(S, [S EXCEPT !.d.alt = v])
<1> DEFINE T == [S EXCEPT !.d.alt = v]
<1>1. IsPair(S)
  BY DEF Sound
<1>2. T.d = [S.d EXCEPT !.alt = v] /\ T.g = S.g /\ DOMAIN T = {"d", "g"}
  BY <1>1 DEF IsPair
<1> HIDE DEF T
<1>3. DOMAIN T.d = PrivFields /\ \A f \in PrivFields \ {"file_size", "alt"} : T.d[f] = S.d[f]
  BY <1>1, <1>2 DEF IsPair, IsPriv
<1>4. DOMAIN T.g = GlobalFields /\ \A f \in GlobalFields \ {"ext_queue"} : T.g[f] = S.g[f]
  BY <1>1, <1>2 DEF IsPair, IsGlobal
<1>5. QED
  BY <1>2, <1>3, <1>4, OtherFieldLaw DEF T, Plain

(* Nothing changes. *)
LEMMA PlainSelf ==
  ASSUME NEW S, Sound(S)
  PROVE  Plain(S, S)
BY DEF Plain, Same

(* _unified_clear_alt_extentlist and _unified_update_alt_extentlist. *)
LEMMA AltListLaw ==
  ASSUME NEW S, Sound(S), NEW new, NEW len
  PROVE  Plain(S, ClearAlt(S)) /\ Plain(S, UpdateAlt(S, new)) /\ Plain(S, TruncateAlt(S, len))
<1>1. Plain(S, ClearAlt(S))
  BY AltLaw, PlainSelf DEF ClearAlt
<1>2. Plain(S, UpdateAlt(S, new))
  BY AltLaw, AltOnlyLaw DEF UpdateAlt
<1>3. Plain(S, TruncateAlt(S, len))
  BY AltOnlyLaw DEF TruncateAlt
<1>4. QED
  BY <1>1, <1>2, <1>3

(* _unified_set_write_ip *)
LEMMA SetWriteIpLaw ==
  ASSUME NEW S, Sound(S), ~S.d.write_ip
  PROVE  LET T == SetWriteIp(S)
         IN  /\ Sound(T) /\ T.d.requests = S.d.requests /\ T.d.in = S.d.in
             /\ T.g.cache = S.g.cache /\ T.g.leaked = S.g.leaked
             /\ T.d.alloc = S.d.alloc /\ T.d.write_error = S.d.write_error
<1> DEFINE T == SetWriteIp(S)
<1>1. IsPair(S) /\ Balanced(S)
  BY DEF Sound
<1>2. /\ T.d = [S.d EXCEPT !.write_ip = TRUE]
      /\ T.g = [S.g EXCEPT !.dp_request_count = @ - S.d.in["DP"]] /\ DOMAIN T = {"d", "g"}
  BY <1>1 DEF IsPair, SetWriteIp
<1> HIDE DEF T
<1>3. /\ DOMAIN T.d = PrivFields /\ T.d.requests = S.d.requests /\ T.d.in = S.d.in
      /\ T.d.write_ip = TRUE /\ T.d.alloc = S.d.alloc /\ T.d.write_error = S.d.write_error
  BY <1>1, <1>2 DEF IsPair, IsPriv, PrivFields
<1>4. /\ DOMAIN T.g = GlobalFields /\ T.g.cache = S.g.cache /\ T.g.leaked = S.g.leaked
      /\ T.g.dp_request_count = S.g.dp_request_count - S.d.in["DP"]
  BY <1>1, <1>2 DEF IsPair, IsGlobal, GlobalFields
<1>5. S.d.in["DP"] \in Nat /\ S.g.dp_request_count = S.d.in["DP"]
  BY <1>1 DEF IsPair, IsPriv, States, Balanced
<1>6. T.g.dp_request_count = 0
  BY <1>4, <1>5
<1>7. IsPair(T)
  BY <1>1, <1>2, <1>3, <1>4, <1>6 DEF IsPair, IsPriv, IsGlobal
<1>8. Balanced(T)
  BY <1>3, <1>6 DEF Balanced
<1>9. QED
  BY <1>3, <1>4, <1>7, <1>8 DEF Sound, T

(* _unified_unset_write_ip: the copies for the index partition go, and the *)
(* data requests count again.                                              *)
LEMMA UnsetWriteIpLaw ==
  ASSUME NEW S, Sound(S), Matched(S, States), Fits(S.d.requests), S.d.write_ip
  PROVE  LET T == UnsetWriteIp(S)
         IN  Thinned(S, T) /\ Matched(T, States) /\ T.d.write_error = S.d.write_error
<1> DEFINE q == S.d.requests
           K == {k \in DOMAIN q : q[k].state # "IP"}
           D == KeepRequests(S, K)
           A == DelAllMembers(D, "IP")
           V == IF S.d.in["IP"] = 0 THEN S ELSE A
           U == [V EXCEPT !.d.write_ip = FALSE, !.g.dp_request_count = @ + V.d.in["DP"]]
           T == UnsetWriteIp(S)
           Q == {"DP", "PARTIAL"}
<1>1. q \in Seq(Request) /\ \A st \in States : S.d.in[st] = Count(q, st)
  BY DEF Sound, IsPair, IsPriv, Matched
<1>2. T = ClearAlt(U)
  BY DEF UnsetWriteIp
<1>3. "IP" \in States /\ "DP" \in States /\ "PARTIAL" \in States
  BY DEF States
<1>4. Thinned(S, S) /\ Matched(S, States) /\ Same(S, S)
  <2>1. S.g.cache \in Int /\ Len(q) \in Nat
    BY <1>1, LenProperties DEF Sound, IsPair, IsGlobal
  <2>2. QED
    BY <2>1 DEF Thinned, Same
<1>5. K = Positions(S.d.requests, Q)
  <2>1. \A k \in DOMAIN q : q[k].state \in States
    BY <1>1, ElementOfSeq, RequestLaw
  <2>2. QED
    BY <2>1 DEF States, Positions
<1>6. Q \in SUBSET States
  BY <1>3
<1> HIDE DEF K, Q
<1>7. /\ Thinned(S, D) /\ Same(S, D) /\ D.d.in = S.d.in
      /\ \A st \in States : Count(D.d.requests, st) = IF st \in Q THEN Count(q, st) ELSE 0
  BY <1>5, <1>6, KeepStatesLaw
<1> HIDE DEF D, q
<1>8. Sound(D)
  BY <1>7 DEF Thinned
<1>9. /\ Sound(A) /\ Same(D, A) /\ A.d.requests = D.d.requests /\ A.d.in["IP"] = 0
      /\ \A st \in States : st # "IP" => A.d.in[st] = D.d.in[st]
      /\ A.g.cache = D.g.cache
  BY <1>3, <1>8, DelAllLaw
<1> HIDE DEF A
<1>10. Thinned(S, A) /\ Same(S, A)
  BY <1>7, <1>9 DEF Thinned, Same
<1>11. Matched(A, States)
  <2> SUFFICES ASSUME NEW st \in States PROVE A.d.in[st] = Count(A.d.requests, st)
    BY DEF Matched
  <2>1. CASE st = "IP"
    BY <1>7, <1>9, <2>1 DEF Q
  <2>2. CASE st # "IP"
    BY <1>1, <1>7, <1>9, <2>2 DEF Q, States
  <2>3. QED
    BY <2>1, <2>2
<1>12. Thinned(S, V) /\ Same(S, V) /\ Matched(V, States)
  BY <1>4, <1>10, <1>11
<1> HIDE DEF V
<1>13. IsPair(V) /\ Balanced(V) /\ V.d.write_ip /\ V.d.in["DP"] \in Nat
  BY <1>3, <1>12 DEF Thinned, Sound, Same, IsPair, IsPriv
<1>14. /\ U.d = [V.d EXCEPT !.write_ip = FALSE]
       /\ U.g = [V.g EXCEPT !.dp_request_count = @ + V.d.in["DP"]] /\ DOMAIN U = {"d", "g"}
  BY <1>13 DEF IsPair
<1> HIDE DEF U
<1>15. /\ DOMAIN U.d = PrivFields /\ U.d.requests = V.d.requests /\ U.d.in = V.d.in
       /\ U.d.write_ip = FALSE /\ U.d.alloc = V.d.alloc /\ U.d.write_error = V.d.write_error
  BY <1>13, <1>14 DEF IsPair, IsPriv, PrivFields
<1>16. /\ DOMAIN U.g = GlobalFields /\ U.g.cache = V.g.cache /\ U.g.leaked = V.g.leaked
       /\ U.g.dp_request_count = V.g.dp_request_count + V.d.in["DP"]
  BY <1>13, <1>14 DEF IsPair, IsGlobal, GlobalFields
<1>17. V.g.dp_request_count = 0
  BY <1>13 DEF Balanced
<1>18. U.g.dp_request_count = U.d.in["DP"]
  BY <1>13, <1>15, <1>16, <1>17
<1>19. IsPair(U)
  BY <1>13, <1>14, <1>15, <1>16, <1>18 DEF IsPair, IsPriv, IsGlobal
<1>20. Sound(U)
  BY <1>15, <1>18, <1>19 DEF Sound, Balanced
<1>21. Plain(U, T)
  BY <1>2, <1>20, AltListLaw
<1> HIDE DEF T
<1>22. Thinned(S, T)
  BY <1>12, <1>15, <1>16, <1>21 DEF Thinned, Plain, Same
<1>23. Matched(T, States) /\ T.d.write_error = S.d.write_error
  BY <1>12, <1>15, <1>21 DEF Matched, Plain, Same
<1>24. QED
  BY <1>22, <1>23 DEF T

(* _unified_get_dentry_priv *)
LEMMA GetPrivLaw ==
  ASSUME NEW S, Sound(S), Matched(S, States),
         ~S.d.alloc => S.d.requests = <<>> /\ S.d.write_error = "ok"
  PROVE  LET T == GetPriv(S)
         IN  /\ Sound(T) /\ Matched(T, States) /\ T.d.requests = S.d.requests
             /\ T.d.alloc /\ T.d.write_error = S.d.write_error /\ T.g = S.g
<1> DEFINE T == GetPriv(S)
<1>1. CASE S.d.alloc
  <2>1. T = S
    BY <1>1 DEF GetPriv
  <2>2. QED
    BY <1>1, <2>1
<1>2. CASE ~S.d.alloc
  <2> DEFINE w == matches /\ MaxIpSize # 0 /\ Len(disk) <= MaxIpSize
             n == Len(disk)
             d == [NoPriv EXCEPT !.alloc = TRUE, !.file_size = n, !.write_ip = w]
  <2>1. /\ T = [S EXCEPT !.d = d] /\ IsPair(S) /\ Balanced(S)
        /\ S.d.requests = <<>> /\ S.d.write_error = "ok"
    BY <1>2 DEF GetPriv, Sound
  <2>2. T.d = d /\ T.g = S.g /\ DOMAIN T = {"d", "g"}
    BY <2>1 DEF IsPair
  <2>3. w \in BOOLEAN
    OBVIOUS
  <2> HIDE DEF w, n, T
  <2>4. /\ DOMAIN d = PrivFields /\ d.alloc = TRUE /\ d.write_ip = w
        /\ d.requests = <<>> /\ d.in = [q \in States |-> 0] /\ d.write_error = "ok"
    BY DEF NoPriv, PrivFields
  <2> HIDE DEF d
  <2>5. d.requests \in Seq(Request) /\ d.in \in [States -> Nat] /\ d.write_error \in Errors
    BY <2>4 DEF Errors, Results
  <2>6. IsPair(T)
    BY <2>1, <2>2, <2>3, <2>4, <2>5 DEF IsPair, IsPriv
  <2>7. \A st : Count(<<>>, st) = 0
    <3> TAKE st
    <3>1. InState(<<>>, st) = {}
      BY DEF InState
    <3>2. QED
      BY <3>1, FS_EmptySet DEF Count
  <2>8. \A st \in States : d.in[st] = 0 /\ S.d.in[st] = 0
    BY <2>1, <2>4, <2>7 DEF Matched
  <2>9. "DP" \in States
    BY DEF States
  <2>10. S.g.dp_request_count = 0
    BY <2>1, <2>8, <2>9 DEF Balanced
  <2>11. Balanced(T)
    BY <2>2, <2>4, <2>8, <2>9, <2>10 DEF Balanced
  <2>12. Matched(T, States)
    BY <2>2, <2>4, <2>7, <2>8 DEF Matched
  <2>13. QED
    BY <1>2, <2>1, <2>2, <2>4, <2>6, <2>11, <2>12 DEF Sound, T
<1>3. QED
  BY <1>1, <1>2

(* Another error on record. *)
LEMMA ErrorFieldLaw ==
  ASSUME NEW S, Sound(S), NEW e \in Errors
  PROVE  LET T == [S EXCEPT !.d.write_error = e]
         IN  /\ Sound(T) /\ T.d.requests = S.d.requests /\ T.d.in = S.d.in
             /\ T.g = S.g /\ T.d.alloc = S.d.alloc /\ T.d.write_ip = S.d.write_ip
             /\ T.d.write_error = e /\ T.d.alt = S.d.alt
<1> DEFINE T == [S EXCEPT !.d.write_error = e]
<1>1. IsPair(S) /\ Balanced(S)
  BY DEF Sound
<1>2. T.d = [S.d EXCEPT !.write_error = e] /\ T.g = S.g /\ DOMAIN T = {"d", "g"}
  BY <1>1 DEF IsPair
<1> HIDE DEF T
<1>3. /\ DOMAIN T.d = PrivFields /\ T.d.requests = S.d.requests /\ T.d.in = S.d.in
      /\ T.d.write_ip = S.d.write_ip /\ T.d.alloc = S.d.alloc /\ T.d.write_error = e
      /\ T.d.alt = S.d.alt
  BY <1>1, <1>2 DEF IsPair, IsPriv, PrivFields
<1>4. IsPair(T)
  BY <1>1, <1>2, <1>3 DEF IsPair, IsPriv
<1>5. Balanced(T)
  BY <1>1, <1>2, <1>3 DEF Balanced
<1>6. QED
  BY <1>2, <1>3, <1>4, <1>5 DEF Sound, T

(* _unified_handle_write_error: whatever was counted of the requests, the *)
(* counters match the ones that are left.                                 *)
LEMMA HandleErrorLaw ==
  ASSUME NEW S, Sound(S), Fits(S.d.requests), NEW res \in Errors, NEW st, NEW t, NEW size,
         st # "IP" => Matched(S, {"IP"}), st = "IP" => Matched(S, {"DP", "PARTIAL"})
  PROVE  LET T == HandleWriteError(S, res, st, t, size)
         IN  /\ Thinned(S, T) /\ Matched(T, States) /\ T.d.write_ip = S.d.write_ip
             /\ T.d.write_error = IF Reports(st, res) /\ S.d.write_error = "ok"
                                    THEN res ELSE S.d.write_error
             /\ st # "IP" => AllIp(T.d.requests)
             /\ st = "IP" => \A k \in DOMAIN T.d.requests : T.d.requests[k].state # "IP"
             /\ ~NoSpace(res) => Len(T.d.requests) = 0
<1> DEFINE q == S.d.requests
           other == IF st = "IP" THEN "DP" ELSE "IP"
           both == ~NoSpace(res) \/ t.space[other] # "ok" \/ t.pwe
           clear_ip == st = "IP" \/ both
           clear_dp == st # "IP" \/ both
           e == IF Reports(st, res) /\ S.d.write_error = "ok" THEN res ELSE S.d.write_error
           E == IF ~Reports(st, res) THEN S
                ELSE [S EXCEPT !.d.write_error = IF @ = "ok" THEN res ELSE @]
           D == DelAllMembers(E, "DP")
           P == DelAllMembers(D, "PARTIAL")
           U == IF clear_dp THEN P ELSE E
           I == DelAllMembers(U, "IP")
           V == IF clear_ip THEN I ELSE U
           Q == {x \in States : IF x = "IP" THEN ~clear_ip ELSE ~clear_dp}
           kept == {k \in DOMAIN q : IF q[k].state = "IP" THEN ~clear_ip ELSE ~clear_dp}
           W == KeepRequests(V, kept)
           T == HandleWriteError(S, res, st, t, size)
<1>1. T = [W EXCEPT !.d.file_size = SizeAfter(W, size)]
  BY DEF HandleWriteError
<1>2. q \in Seq(Request) /\ S.d.write_error \in Errors /\ S.d.in \in [States -> Nat]
  BY DEF Sound, IsPair, IsPriv
<1>3. "IP" \in States /\ "DP" \in States /\ "PARTIAL" \in States
  BY DEF States
<1>4. kept = Positions(q, Q)
  <2>1. \A k \in DOMAIN q : q[k].state \in States
    BY <1>2, ElementOfSeq, RequestLaw
  <2>2. QED
    BY <2>1 DEF Positions
<1>5. /\ (st = "IP" => clear_ip) /\ (st # "IP" => clear_dp)
      /\ (~NoSpace(res) => clear_ip /\ clear_dp)
  OBVIOUS
<1>6. Q \in SUBSET States
  OBVIOUS
<1>7. e \in Errors
  BY <1>2
<1>8. /\ Sound(E) /\ E.d.requests = q /\ E.d.in = S.d.in /\ E.g = S.g
      /\ E.d.alloc = S.d.alloc /\ E.d.write_ip = S.d.write_ip /\ E.d.write_error = e
  <2>1. CASE ~Reports(st, res)
    BY <2>1
  <2>2. CASE Reports(st, res)
    <3>1. E = [S EXCEPT !.d.write_error = e]
      BY <2>2 DEF Sound, IsPair
    <3> HIDE DEF E, e
    <3>2. QED
      BY <1>7, <3>1, ErrorFieldLaw
  <2>3. QED
    BY <2>1, <2>2
<1> HIDE DEF kept, E, e, both, T
<1>9. /\ Sound(D) /\ Same(E, D) /\ D.d.requests = q /\ D.d.in["DP"] = 0 /\ D.g.cache = E.g.cache
      /\ \A x \in States : x # "DP" => D.d.in[x] = E.d.in[x]
  BY <1>3, <1>8, DelAllLaw
<1> HIDE DEF D
<1>10. /\ Sound(P) /\ Same(D, P) /\ P.d.requests = q /\ P.d.in["PARTIAL"] = 0
       /\ P.g.cache = D.g.cache
       /\ \A x \in States : x # "PARTIAL" => P.d.in[x] = D.d.in[x]
  BY <1>3, <1>9, DelAllLaw
<1> HIDE DEF P
<1>11. /\ Sound(U) /\ Same(E, U) /\ U.d.requests = q /\ U.g.cache = E.g.cache
       /\ clear_dp => U.d.in["DP"] = 0 /\ U.d.in["PARTIAL"] = 0
       /\ ~clear_dp => U.d.in["DP"] = E.d.in["DP"] /\ U.d.in["PARTIAL"] = E.d.in["PARTIAL"]
       /\ U.d.in["IP"] = E.d.in["IP"]
  <2> HIDE DEF clear_dp
  <2>1. CASE clear_dp
    <3>1. U = P
      BY <2>1
    <3> HIDE DEF U
    <3>2. QED
      BY <1>3, <1>9, <1>10, <2>1, <3>1 DEF Same
  <2>2. CASE ~clear_dp
    <3>1. U = E
      BY <2>2
    <3> HIDE DEF U
    <3>2. QED
      BY <1>8, <2>2, <3>1 DEF Same
  <2>3. QED
    BY <2>1, <2>2
<1> HIDE DEF U
<1>12. /\ Sound(I) /\ Same(U, I) /\ I.d.requests = q /\ I.d.in["IP"] = 0 /\ I.g.cache = U.g.cache
       /\ \A x \in States : x # "IP" => I.d.in[x] = U.d.in[x]
  BY <1>3, <1>11, DelAllLaw
<1> HIDE DEF I
<1>13. /\ Sound(V) /\ Same(U, V) /\ V.d.requests = q /\ V.g.cache = U.g.cache
       /\ clear_ip => V.d.in["IP"] = 0
       /\ ~clear_ip => V.d.in["IP"] = U.d.in["IP"]
       /\ V.d.in["DP"] = U.d.in["DP"] /\ V.d.in["PARTIAL"] = U.d.in["PARTIAL"]
  <2> HIDE DEF clear_ip
  <2>1. CASE clear_ip
    <3>1. V = I
      BY <2>1
    <3> HIDE DEF V
    <3>2. QED
      BY <1>3, <1>12, <2>1, <3>1
  <2>2. CASE ~clear_ip
    <3>1. V = U
      BY <2>2
    <3> HIDE DEF V
    <3>2. QED
      BY <1>11, <2>2, <3>1 DEF Same
  <2>3. QED
    BY <2>1, <2>2
<1> HIDE DEF V
<1>14. /\ Thinned(V, W) /\ Same(V, W) /\ W.d.in = V.d.in
       /\ \A k \in DOMAIN W.d.requests : W.d.requests[k].state \in Q
       /\ \A x \in States : Count(W.d.requests, x) = IF x \in Q THEN Count(q, x) ELSE 0
  <2>1. Fits(V.d.requests) /\ kept = Positions(V.d.requests, Q)
    BY <1>4, <1>13
  <2> HIDE DEF Q
  <2>2. W = KeepRequests(V, Positions(V.d.requests, Q))
    BY <2>1
  <2> HIDE DEF W
  <2>3. /\ Thinned(V, W) /\ Same(V, W) /\ W.d.in = V.d.in
        /\ \A k \in DOMAIN W.d.requests : W.d.requests[k].state \in Q
        /\ \A x \in States : Count(W.d.requests, x) = IF x \in Q THEN Count(V.d.requests, x) ELSE 0
    <3>1. Sound(V) /\ Fits(V.d.requests)
      BY <1>13, <2>1
    <3>2. QED
      BY <1>6, <2>2, <3>1, KeepStatesLaw, SMTT(30)
  <2>4. QED
    BY <1>13, <2>3
<1> HIDE DEF W
<1>15. Matched(W, States)
  <2>1. W.d.in["IP"] = Count(W.d.requests, "IP")
    <3>1. CASE clear_ip
      BY <1>3, <1>13, <1>14, <3>1
    <3>2. CASE ~clear_ip
      <4>1. S.d.in["IP"] = Count(q, "IP")
        BY <1>5, <3>2 DEF Matched
      <4>2. "IP" \in Q
        BY <1>3, <3>2
      <4>3. QED
        BY <1>3, <1>8, <1>11, <1>13, <1>14, <3>2, <4>1, <4>2
    <3>3. QED
      BY <3>1, <3>2
  <2>2. ASSUME NEW x \in {"DP", "PARTIAL"}
        PROVE  W.d.in[x] = Count(W.d.requests, x)
    <3>1. CASE clear_dp
      <4>1. x \notin Q /\ x \in States
        BY <1>3, <3>1
      <4>2. W.d.in[x] = 0
        BY <1>11, <1>13, <1>14, <3>1
      <4>3. QED
        BY <1>14, <4>1, <4>2
    <3>2. CASE ~clear_dp
      <4>1. S.d.in[x] = Count(q, x)
        BY <1>5, <3>2 DEF Matched
      <4>2. x \in Q /\ x \in States
        BY <1>3, <3>2
      <4>3. W.d.in[x] = S.d.in[x]
        BY <1>8, <1>11, <1>13, <1>14, <3>2
      <4>4. QED
        BY <1>14, <4>1, <4>2, <4>3
    <3>3. QED
      BY <3>1, <3>2
  <2>3. QED
    BY <2>1, <2>2 DEF Matched, States
<1>16. Thinned(S, W)
  BY <1>8, <1>11, <1>13, <1>14 DEF Thinned, Same
<1>17. W.d.write_ip = S.d.write_ip /\ W.d.write_error = e
  BY <1>8, <1>11, <1>13, <1>14 DEF Same
<1>18. Sound(W) /\ W.d.requests \in Seq(Request)
  BY <1>16 DEF Thinned, Sound, IsPair, IsPriv
<1>19. /\ st # "IP" => AllIp(W.d.requests)
       /\ st = "IP" => \A k \in DOMAIN W.d.requests : W.d.requests[k].state # "IP"
  BY <1>5, <1>14 DEF AllIp
<1>20. ~NoSpace(res) => Len(W.d.requests) = 0
  <2> SUFFICES ASSUME ~NoSpace(res) PROVE Len(W.d.requests) = 0
    OBVIOUS
  <2>1. Q = {}
    BY <1>5
  <2> HIDE DEF Q
  <2>2. DOMAIN W.d.requests = {}
    BY <1>14, <2>1
  <2>3. DOMAIN W.d.requests = 1 .. Len(W.d.requests) /\ Len(W.d.requests) \in Nat
    BY <1>18, LenProperties
  <2>4. Len(W.d.requests) > 0 => 1 \in DOMAIN W.d.requests
    BY <2>3
  <2>5. QED
    BY <2>2, <2>3, <2>4
<1>21. Plain(W, T)
  <2> DEFINE v == SizeAfter(W, size)
  <2>1. T = [W EXCEPT !.d.file_size = v]
    BY <1>1
  <2> HIDE DEF v
  <2>2. QED
    BY <1>18, <2>1, FileSizeLaw
<1>22. Thinned(S, T)
  BY <1>16, <1>21 DEF Thinned, Plain, Same
<1>23. Matched(T, States)
  BY <1>15, <1>21 DEF Matched, Plain
<1>24. QED
  BY <1>17, <1>19, <1>20, <1>21, <1>22, <1>23 DEF Plain, Same, T, e

(* The requests in a state, by whether they are at a position in K. *)
LEMMA CountSplit ==
  ASSUME NEW q \in Seq(Request), NEW K \in SUBSET (DOMAIN q), NEW st
  PROVE  LET a == Among(q, K, st)
             b == Among(q, DOMAIN q \ K, st)
         IN  a \in Nat /\ b \in Nat /\ Count(q, st) = a + b
<1> DEFINE A == {k \in K : q[k].state = st}
           B == {k \in DOMAIN q \ K : q[k].state = st}
<1>1. IsFiniteSet(InState(q, st))
  BY InStateFinite
<1>2. A \in SUBSET InState(q, st) /\ B \in SUBSET InState(q, st)
  BY DEF InState
<1>3. InState(q, st) = A \cup B
  BY DEF InState
<1>4. A \cap B = {}
  OBVIOUS
<1> HIDE DEF A, B
<1>5. IsFiniteSet(A) /\ IsFiniteSet(B)
  BY <1>1, <1>2, FS_Subset
<1>6. Cardinality(A) \in Nat /\ Cardinality(B) \in Nat
  BY <1>5, FS_CardinalityType
<1>7. Cardinality(A \cup B) = Cardinality(A) + Cardinality(B) - Cardinality(A \cap B)
  BY <1>5, FS_Union
<1>8. Cardinality(A \cap B) = 0
  BY <1>4, FS_EmptySet
<1>9. Count(q, st) = Cardinality(A \cup B)
  BY <1>3 DEF Count
<1>10. Count(q, st) = Cardinality(A) + Cardinality(B)
  BY <1>6, <1>7, <1>8, <1>9
<1>11. QED
  BY <1>6, <1>10 DEF A, B, Among

(* unified_truncate on the requests: the ones behind len leave the list and its *)
(* counters, and what is cut keeps at least a byte.                             *)
LEMMA TruncateLaw ==
  ASSUME NEW S, Sound(S), Matched(S, States), CacheSize \in Nat \ {0}, Fits(S.d.requests),
         NEW len \in Nat
  PROVE  LET T == TruncateRequests(S, len)
         IN  Thinned(S, T) /\ Same(S, T) /\ Matched(T, States)
<1> DEFINE q == S.d.requests
           within(k) == q[k].offset < len /\ End(q[k]) <= len
           visited(k) == \A j \in k .. Len(q) : ~within(j)
           left == {k \in DOMAIN q : visited(k) => q[k].offset < len}
           gone(st) == Among(q, DOMAIN q \ left, st)
           some(st) == Among(q, left, st)
           cut == [k \in DOMAIN q |-> IF k \in left /\ visited(k)
                     THEN [q[k] EXCEPT !.data = SubSeq(@, 1, len - q[k].offset)] ELSE q[k]]
           A == DelMembers(S, "PARTIAL", gone("PARTIAL"))
           B == DelMembers(A, "DP", gone("DP"))
           C == DelMembers(B, "IP", gone("IP"))
           D == SetRequests(C, cut)
           T == TruncateRequests(S, len)
<1>1. T = KeepRequests(D, left)
  BY DEF TruncateRequests, Among
<1>2. /\ q \in Seq(Request) /\ S.d.in \in [States -> Nat]
      /\ \A st \in States : S.d.in[st] = Count(q, st)
  BY DEF Sound, IsPair, IsPriv, Matched
<1>3. \A k \in DOMAIN q : Len(q[k].data) \in 1 .. CacheSize
  BY DEF Fits
<1>4. "IP" \in States /\ "DP" \in States /\ "PARTIAL" \in States
  BY DEF States
<1> HIDE DEF q, T
<1>5. DOMAIN q = 1 .. Len(q) /\ Len(q) \in Nat
  BY <1>2, LenProperties
<1>6. left \in SUBSET (DOMAIN q)
  OBVIOUS
<1>7. ASSUME NEW k \in DOMAIN q
      PROVE  cut[k] \in Request /\ cut[k].state = q[k].state /\ Len(cut[k].data) \in 1 .. CacheSize
  <2>1. q[k] \in Request
    BY <1>2, ElementOfSeq
  <2>2. q[k].offset \in Nat /\ q[k].data \in Seq(Nat) /\ Len(q[k].data) \in Nat
    BY <2>1, RequestLaw
  <2>3. CASE k \in left /\ visited(k)
    <3> DEFINE n == len - q[k].offset
               d == SubSeq(q[k].data, 1, n)
    <3>1. cut[k] = [q[k] EXCEPT !.data = d]
      BY <2>3
    <3>2. q[k].offset < len
      BY <2>3
    <3>3. ~within(k)
      BY <1>5, <2>3
    <3>4. ~(q[k].offset + Len(q[k].data) <= len)
      BY <3>2, <3>3 DEF End
    <3> HIDE DEF cut, left, visited, within
    <3>5. n \in Nat /\ n >= 1 /\ n <= Len(q[k].data)
      BY <2>2, <3>2, <3>4
    <3> HIDE DEF n
    <3>6. d \in Seq(Nat) /\ Len(d) = n
      BY <2>2, <3>5, CutLaw
    <3> HIDE DEF d
    <3>7. cut[k] \in Request /\ cut[k].state = q[k].state /\ cut[k].data = d
      BY <2>1, <3>1, <3>6, RequestLaw
    <3>8. Len(q[k].data) \in 1 .. CacheSize
      BY <1>3
    <3>9. QED
      BY <2>2, <3>5, <3>6, <3>7, <3>8
  <2>4. CASE ~(k \in left /\ visited(k))
    <3>1. cut[k] = q[k]
      BY <2>4
    <3> HIDE DEF cut, left, visited, within
    <3>2. QED
      BY <1>3, <2>1, <3>1
  <2>5. QED
    BY <2>3, <2>4
<1>8. DOMAIN cut = DOMAIN q
  OBVIOUS
<1> HIDE DEF left, visited, within
<1>9. cut \in Seq(Request) /\ Len(cut) = Len(q)
  <2>1. cut \in [1 .. Len(q) -> Request]
    BY <1>5, <1>7
  <2> HIDE DEF cut
  <2>2. QED
    BY <1>5, <2>1
<1> HIDE DEF cut
<1>10. \A st : some(st) \in Nat /\ gone(st) \in Nat /\ Count(q, st) = some(st) + gone(st)
  <2> TAKE st
  <2>1. QED
    BY <1>2, <1>6, CountSplit
<1>11. \A st : Among(cut, left, st) = some(st)
  <2> TAKE st
  <2>1. {k \in left : cut[k].state = st} = {k \in left : q[k].state = st}
    BY <1>6, <1>7
  <2>2. QED
    BY <2>1 DEF Among
<1> HIDE DEF gone, some
<1>12. \A st \in States : gone(st) \in Nat /\ gone(st) <= S.d.in[st]
  BY <1>2, <1>10
<1>13. /\ Sound(A) /\ Same(S, A) /\ A.d.requests = q /\ A.g.cache = S.g.cache
       /\ A.d.in["PARTIAL"] = S.d.in["PARTIAL"] - gone("PARTIAL")
       /\ \A st \in States : st # "PARTIAL" => A.d.in[st] = S.d.in[st]
  BY <1>4, <1>12, DelMembersLaw DEF q
<1> HIDE DEF A
<1>14. /\ Sound(B) /\ Same(A, B) /\ B.d.requests = q /\ B.g.cache = A.g.cache
       /\ B.d.in["DP"] = A.d.in["DP"] - gone("DP")
       /\ \A st \in States : st # "DP" => B.d.in[st] = A.d.in[st]
  <2>1. gone("DP") \in Nat /\ gone("DP") <= A.d.in["DP"]
    BY <1>4, <1>12, <1>13
  <2>2. QED
    BY <1>4, <1>13, <2>1, DelMembersLaw
<1> HIDE DEF B
<1>15. /\ Sound(C) /\ Same(B, C) /\ C.d.requests = q /\ C.g.cache = B.g.cache
       /\ C.d.in["IP"] = B.d.in["IP"] - gone("IP")
       /\ \A st \in States : st # "IP" => C.d.in[st] = B.d.in[st]
  <2>1. gone("IP") \in Nat /\ gone("IP") <= B.d.in["IP"]
    BY <1>4, <1>12, <1>13, <1>14
  <2>2. QED
    BY <1>4, <1>14, <2>1, DelMembersLaw
<1> HIDE DEF C
<1>16. C.d.in["IP"] = some("IP")
  <2>1. C.d.in["IP"] = S.d.in["IP"] - gone("IP")
    BY <1>4, <1>13, <1>14, <1>15
  <2>2. /\ some("IP") \in Nat /\ gone("IP") \in Nat
        /\ S.d.in["IP"] = some("IP") + gone("IP")
    BY <1>2, <1>4, <1>10
  <2>3. QED
    BY <2>1, <2>2
<1>17. C.d.in["DP"] = some("DP")
  <2>1. C.d.in["DP"] = S.d.in["DP"] - gone("DP")
    BY <1>4, <1>13, <1>14, <1>15
  <2>2. /\ some("DP") \in Nat /\ gone("DP") \in Nat
        /\ S.d.in["DP"] = some("DP") + gone("DP")
    BY <1>2, <1>4, <1>10
  <2>3. QED
    BY <2>1, <2>2
<1>18. C.d.in["PARTIAL"] = some("PARTIAL")
  <2>1. C.d.in["PARTIAL"] = S.d.in["PARTIAL"] - gone("PARTIAL")
    BY <1>4, <1>13, <1>14, <1>15
  <2>2. /\ some("PARTIAL") \in Nat /\ gone("PARTIAL") \in Nat
        /\ S.d.in["PARTIAL"] = some("PARTIAL") + gone("PARTIAL")
    BY <1>2, <1>4, <1>10
  <2>3. QED
    BY <2>1, <2>2
<1>19. /\ Sound(D) /\ Same(C, D) /\ D.d.requests = cut /\ D.d.in = C.d.in /\ D.g.cache = C.g.cache
  BY <1>9, <1>15, SetRequestsLaw
<1> HIDE DEF D
<1>20. Fits(D.d.requests) /\ left \in SUBSET (DOMAIN D.d.requests)
  BY <1>6, <1>7, <1>8, <1>19 DEF Fits
<1>21. /\ Thinned(D, T) /\ Same(D, T) /\ T.d.in = D.d.in
       /\ \A st : Count(T.d.requests, st) = Among(D.d.requests, left, st)
  BY <1>1, <1>19, <1>20, KeepLaw
<1>22. \A st : Count(T.d.requests, st) = some(st)
  BY <1>11, <1>19, <1>21
<1>23. Matched(T, States)
  BY <1>16, <1>17, <1>18, <1>19, <1>21, <1>22 DEF Matched, States
<1>24. Same(S, T)
  BY <1>13, <1>14, <1>15, <1>19, <1>21 DEF Same
<1>25. D.g.cache = S.g.cache /\ Len(D.d.requests) = Len(q)
  BY <1>9, <1>13, <1>14, <1>15, <1>19
<1>26. /\ Sound(T) /\ Fits(T.d.requests) /\ Len(T.d.requests) <= Len(D.d.requests)
       /\ T.g.cache - Len(T.d.requests) = D.g.cache - Len(D.d.requests)
       /\ \A k \in DOMAIN T.d.requests :
            \E j \in DOMAIN D.d.requests : T.d.requests[k].state = D.d.requests[j].state
  BY <1>21 DEF Thinned
<1>27. \A k \in DOMAIN T.d.requests : \E j \in DOMAIN q : T.d.requests[k].state = q[j].state
  BY <1>7, <1>8, <1>19, <1>26
<1>28. Thinned(S, T)
  BY <1>24, <1>25, <1>26, <1>27 DEF Thinned, Same, q
<1>29. QED
  BY <1>23, <1>24, <1>28 DEF T

=============================================================================
