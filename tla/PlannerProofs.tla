----------------------------- MODULE PlannerProofs -----------------------------
(* For every scan, selection and face: buildForest's one walk over the sorted *)
(* items finds exactly what contains what, and what the forest being exact    *)
(* gives the plan: nothing surface-only goes, every pick is drafted or        *)
(* answered, skips and Includes tell the truth, and what a face offers can be *)
(* planned. The walk is a recursion over the nodes; what its stack holds      *)
(* after each is shown by the least node at which it would be wrong. The sums *)
(* of the ledger and of the plan are shown to be the bytes of disjoint sets,  *)
(* so that what is exclusive to the items inside one, and what the actions    *)
(* take, add up to what is there.                                             *)
EXTENDS Planner, SequenceTheorems, FiniteSetTheorems, WellFoundedInduction, TLAPS

----------------------------------------------------------------------------
(* Sequences of numbers, and how they compare. *)

\* A set of naturals that is not empty has a least element.
LEMMA Least ==
  ASSUME NEW T, T \subseteq Nat, T # {}
  PROVE  \E k \in T : \A m \in T : k <= m
<1>1. PICK k \in T : \A m \in T : ~(<<m, k>> \in OpToRel(<, Nat))
  BY NatLessThanWellFounded, WFMin
<1>2. \A m \in T : ~(m < k)
  BY <1>1 DEF OpToRel
<1> QED
  BY <1>2

\* One sequence starts with another if it agrees with it all along.
LEMMA PrefixIs ==
  ASSUME NEW s \in Seq(Nat), NEW t \in Seq(Nat)
  PROVE  IsPrefix(s, t) <=> Len(s) <= Len(t) /\ \A m \in 1..Len(s) : s[m] = t[m]
<1>1. Len(s) \in Nat /\ Len(t) \in Nat
  OBVIOUS
<1>2. SubSeq(s, 1, Len(s)) = s
  OBVIOUS
<1>3. ASSUME Len(s) <= Len(t)
      PROVE  SubSeq(t, 1, Len(s)) = [m \in 1..Len(s) |-> t[m]]
  BY <1>1, <1>3
<1>4. s = [m \in 1..Len(s) |-> s[m]]
  OBVIOUS
<1>5. ASSUME Len(s) <= Len(t), SubSeq(s, 1, Len(s)) = SubSeq(t, 1, Len(s))
      PROVE  \A m \in 1..Len(s) : s[m] = t[m]
  <2>1. s = [m \in 1..Len(s) |-> t[m]]
    BY <1>2, <1>3, <1>5
  <2> DEFINE f == [m \in 1..Len(s) |-> t[m]]
  <2>2. \A m \in 1..Len(s) : f[m] = t[m]
    OBVIOUS
  <2>3. f = s
    BY <2>1
  <2> HIDE DEF f
  <2> QED
    BY <2>2, <2>3
<1>6. ASSUME Len(s) <= Len(t), \A m \in 1..Len(s) : s[m] = t[m]
      PROVE  SubSeq(s, 1, Len(s)) = SubSeq(t, 1, Len(s))
  BY <1>2, <1>3, <1>4, <1>6
<1> QED
  BY <1>5, <1>6 DEF IsPrefix

\* The first place where s and t differ, and s is the smaller.
Differ(s, t, k) == /\ k \in 1..Len(s) /\ k \in 1..Len(t) /\ s[k] < t[k]
                   /\ \A m \in 1..(k - 1) : s[m] = t[m]

LEMMA LessIs ==
  ASSUME NEW s \in Seq(Nat), NEW t \in Seq(Nat)
  PROVE  Less(s, t) <=> (IsPrefix(s, t) /\ s # t) \/ \E k \in Nat : Differ(s, t, k)
<1>1. DOMAIN s = 1..Len(s) /\ DOMAIN t = 1..Len(t) /\ Len(s) \in Nat /\ Len(t) \in Nat
  OBVIOUS
<1>2. \A k \in DOMAIN s \cap DOMAIN t : k \in Nat /\ k \in 1..Len(s) /\ k \in 1..Len(t)
  BY <1>1
<1> QED
  BY <1>1, <1>2 DEF Less, IsStrictPrefix, Differ

\* Prefixes of one sequence are prefixes of one another.
LEMMA PrefixOrder ==
  ASSUME NEW s \in Seq(Nat), NEW t \in Seq(Nat), NEW u \in Seq(Nat)
  PROVE  /\ IsPrefix(s, s)
         /\ IsPrefix(s, t) /\ IsPrefix(t, u) => IsPrefix(s, u)
         /\ IsPrefix(s, t) /\ IsPrefix(t, s) => s = t
         /\ IsPrefix(s, u) /\ IsPrefix(t, u) => IsPrefix(s, t) \/ IsPrefix(t, s)
<1>1. Len(s) \in Nat /\ Len(t) \in Nat /\ Len(u) \in Nat
  OBVIOUS
<1>2. IsPrefix(s, s)
  BY <1>1, PrefixIs
<1>3. IsPrefix(s, t) /\ IsPrefix(t, u) => IsPrefix(s, u)
  BY <1>1, PrefixIs
<1>4. IsPrefix(s, t) /\ IsPrefix(t, s) => s = t
  <2> SUFFICES ASSUME IsPrefix(s, t), IsPrefix(t, s) PROVE s = t
    OBVIOUS
  <2>1. Len(s) = Len(t) /\ \A m \in 1..Len(s) : s[m] = t[m]
    BY <1>1, PrefixIs
  <2> QED
    BY <2>1, SeqEqual
<1>5. IsPrefix(s, u) /\ IsPrefix(t, u) => IsPrefix(s, t) \/ IsPrefix(t, s)
  <2> SUFFICES ASSUME IsPrefix(s, u), IsPrefix(t, u) PROVE IsPrefix(s, t) \/ IsPrefix(t, s)
    OBVIOUS
  <2>1. /\ \A m \in 1..Len(s) : s[m] = u[m]
        /\ \A m \in 1..Len(t) : t[m] = u[m]
    BY PrefixIs
  <2>2. CASE Len(s) <= Len(t)
    <3>1. \A m \in 1..Len(s) : m \in 1..Len(t)
      BY <1>1, <2>2
    <3> QED
      BY <2>1, <2>2, <3>1, PrefixIs
  <2>3. CASE Len(t) <= Len(s)
    <3>1. \A m \in 1..Len(t) : m \in 1..Len(s)
      BY <1>1, <2>3
    <3>2. \A m \in 1..Len(t) : t[m] = s[m]
      BY <2>1, <3>1
    <3> QED
      BY <2>3, <3>2, PrefixIs
  <2> QED
    BY <1>1, <2>2, <2>3
<1> QED
  BY <1>2, <1>3, <1>4, <1>5

\* Of two different sequences one is less, and none is less than itself.
LEMMA LessTotal ==
  ASSUME NEW s \in Seq(Nat), NEW t \in Seq(Nat)
  PROVE  s = t \/ Less(s, t) \/ Less(t, s)
<1> DEFINE T == {k \in Nat : k \in 1..Len(s) /\ k \in 1..Len(t) /\ s[k] # t[k]}
<1>1. Len(s) \in Nat /\ Len(t) \in Nat
  OBVIOUS
<1>2. CASE T = {}
  <2>1. \A k \in Nat : k \in 1..Len(s) /\ k \in 1..Len(t) => s[k] = t[k]
    BY <1>2
  <2>2. IsPrefix(s, t) \/ IsPrefix(t, s)
    <3>1. CASE Len(s) <= Len(t)
      <4>1. \A m \in 1..Len(s) : m \in Nat /\ m \in 1..Len(t)
        BY <1>1, <3>1
      <4> QED
        BY <2>1, <3>1, <4>1, PrefixIs
    <3>2. CASE Len(t) <= Len(s)
      <4>1. \A m \in 1..Len(t) : m \in Nat /\ m \in 1..Len(s)
        BY <1>1, <3>2
      <4>2. \A m \in 1..Len(t) : t[m] = s[m]
        BY <2>1, <4>1
      <4> QED
        BY <3>2, <4>2, PrefixIs
    <3> QED
      BY <1>1, <3>1, <3>2
  <2> QED
    BY <2>2, LessIs
<1>3. CASE T # {}
  <2> HIDE DEF T
  <2>1. PICK k \in T : \A m \in T : k <= m
    BY <1>3, Least DEF T
  <2>2. k \in Nat /\ k \in 1..Len(s) /\ k \in 1..Len(t) /\ s[k] # t[k]
    BY <2>1 DEF T
  <2>3. \A m \in 1..(k - 1) : s[m] = t[m]
    <3> SUFFICES ASSUME NEW m \in 1..(k - 1), s[m] # t[m] PROVE FALSE
      OBVIOUS
    <3>1. m \in Nat /\ m \in 1..Len(s) /\ m \in 1..Len(t) /\ ~(k <= m)
      BY <1>1, <2>2
    <3>2. m \in T
      BY <3>1 DEF T
    <3> QED
      BY <2>1, <3>1, <3>2
  <2>4. s[k] \in Nat /\ t[k] \in Nat
    BY <2>2
  <2>n. \A a, b \in Nat : a # b => a < b \/ b < a
    OBVIOUS
  <2>5. s[k] < t[k] \/ t[k] < s[k]
    BY <2>2, <2>4, <2>n
  <2>6. Differ(s, t, k) \/ Differ(t, s, k)
    BY <2>2, <2>3, <2>5 DEF Differ
  <2> QED
    BY <2>2, <2>6, LessIs
<1> QED
  BY <1>2, <1>3

LEMMA LessStrict ==
  ASSUME NEW s \in Seq(Nat)
  PROVE  ~Less(s, s)
<1>1. ASSUME NEW k \in Nat, Differ(s, s, k) PROVE FALSE
  <2>1. s[k] \in Nat /\ s[k] < s[k]
    BY <1>1 DEF Differ
  <2> QED
    BY <2>1
<1> QED
  BY <1>1, LessIs

\* What is between a sequence and one it starts, starts with it too.
LEMMA Between ==
  ASSUME NEW s \in Seq(Nat), NEW t \in Seq(Nat), NEW u \in Seq(Nat),
         s = t \/ Less(s, t), t = u \/ Less(t, u), IsPrefix(s, u)
  PROVE  IsPrefix(s, t)
<1>0. Len(s) \in Nat /\ Len(t) \in Nat /\ Len(u) \in Nat
  OBVIOUS
<1>1. CASE s = t
  BY <1>1, PrefixOrder
<1>2. ASSUME NEW k \in Nat, Differ(s, t, k) PROVE FALSE
  <2>1. /\ k \in 1..Len(s) /\ k \in 1..Len(t) /\ k \in 1..Len(u)
        /\ \A m \in 1..k : u[m] = s[m]
    BY <1>0, <1>2, PrefixIs, SMTT(20) DEF Differ
  <2>v. s[k] \in Nat /\ t[k] \in Nat /\ u[k] = s[k] /\ s[k] < t[k]
    BY <1>2, <2>1, SMTT(20) DEF Differ
  <2>2. t # u
    BY <2>v
  <2>3. CASE IsPrefix(t, u)
    <3>1. t[k] = u[k]
      BY <2>1, <2>3, PrefixIs
    <3> QED
      BY <2>v, <3>1
  <2>4. ASSUME NEW j \in Nat, Differ(t, u, j) PROVE FALSE
    <3>1. j \in 1..Len(t) /\ j \in 1..Len(u) /\ t[j] < u[j] /\ \A m \in 1..(j - 1) : t[m] = u[m]
      BY <2>4 DEF Differ
    <3>2. CASE j < k
      <4>1. j \in 1..(k - 1) /\ j \in 1..k
        BY <1>0, <2>1, <3>1, <3>2
      <4>2. s[j] = t[j] /\ u[j] = s[j]
        BY <1>2, <2>1, <4>1 DEF Differ
      <4>3. t[j] \in Nat
        BY <3>1
      <4> QED
        BY <3>1, <4>2, <4>3
    <3>3. CASE j = k
      BY <2>v, <3>1, <3>3
    <3>4. CASE j > k
      <4>1. k \in 1..(j - 1)
        BY <2>1, <3>1, <3>4
      <4> QED
        BY <2>v, <3>1, <4>1
    <3> QED
      BY <3>2, <3>3, <3>4
  <2> QED
    BY <2>2, <2>3, <2>4, LessIs
<1> QED
  BY <1>1, <1>2, LessIs

LEMMA LessTrans ==
  ASSUME NEW s \in Seq(Nat), NEW t \in Seq(Nat), NEW u \in Seq(Nat), Less(s, t), Less(t, u)
  PROVE  Less(s, u)
<1>0. Len(s) \in Nat /\ Len(t) \in Nat /\ Len(u) \in Nat
  OBVIOUS
<1>1. s # u
  <2> SUFFICES ASSUME s = u PROVE FALSE
    OBVIOUS
  <2>1. IsPrefix(s, t) /\ IsPrefix(t, s)
    BY Between, PrefixOrder
  <2>2. s = t
    BY <2>1, PrefixOrder
  <2> QED
    BY <2>2, LessStrict
<1>2. CASE IsPrefix(s, t)
  <2>1. CASE IsPrefix(t, u)
    BY <1>1, <1>2, <2>1, PrefixOrder, LessIs
  <2>2. ASSUME NEW j \in Nat, Differ(t, u, j) PROVE Less(s, u)
    <3>1. j \in 1..Len(t) /\ j \in 1..Len(u) /\ t[j] < u[j] /\ \A m \in 1..(j - 1) : t[m] = u[m]
      BY <2>2 DEF Differ
    <3>2. Len(s) <= Len(t) /\ \A m \in 1..Len(s) : s[m] = t[m]
      BY <1>2, PrefixIs
    <3>3. CASE j <= Len(s)
      <4>1. j \in 1..Len(s) /\ s[j] = t[j] /\ \A m \in 1..(j - 1) : s[m] = u[m]
        BY <1>0, <3>1, <3>2, <3>3
      <4>2. Differ(s, u, j)
        BY <3>1, <4>1 DEF Differ
      <4> QED
        BY <4>2, LessIs
    <3>4. CASE Len(s) < j
      <4>1. Len(s) <= Len(u) /\ \A m \in 1..Len(s) : s[m] = u[m]
        BY <1>0, <3>1, <3>2, <3>4
      <4>2. IsPrefix(s, u)
        BY <4>1, PrefixIs
      <4> QED
        BY <1>1, <4>2, LessIs
    <3> QED
      BY <1>0, <3>1, <3>3, <3>4
  <2> QED
    BY <2>1, <2>2, LessIs
<1>3. ASSUME NEW k \in Nat, Differ(s, t, k) PROVE Less(s, u)
  <2>1. k \in 1..Len(s) /\ k \in 1..Len(t) /\ s[k] < t[k] /\ \A m \in 1..(k - 1) : s[m] = t[m]
    BY <1>3 DEF Differ
  <2>k. k \in 1..Len(s) /\ k \in 1..Len(t)
    BY <2>1
  <2>2. CASE IsPrefix(t, u)
    <3>1. Len(t) <= Len(u) /\ \A m \in 1..Len(t) : t[m] = u[m]
      BY <2>2, PrefixIs
    <3>2. k \in 1..Len(u) /\ t[k] = u[k] /\ \A m \in 1..(k - 1) : s[m] = u[m]
      BY <1>0, <2>1, <3>1, SMTT(20)
    <3>3. Differ(s, u, k)
      BY <2>1, <3>2 DEF Differ
    <3> QED
      BY <3>3, LessIs
  <2>3. ASSUME NEW j \in Nat, Differ(t, u, j) PROVE Less(s, u)
    <3>1. j \in 1..Len(t) /\ j \in 1..Len(u) /\ t[j] < u[j] /\ \A m \in 1..(j - 1) : t[m] = u[m]
      BY <2>3 DEF Differ
    <3>j. j \in 1..Len(t) /\ j \in 1..Len(u)
      BY <3>1
    <3>2. CASE k < j
      <4>0. k \in 1..(j - 1) /\ k \in 1..Len(u) /\ \A m \in 1..(k - 1) : m \in 1..(j - 1)
        BY <1>0, <2>k, <3>j, <3>2, SMTT(20)
      <4>1. t[k] = u[k] /\ \A m \in 1..(k - 1) : s[m] = u[m]
        BY <2>1, <3>1, <4>0
      <4>2. Differ(s, u, k)
        BY <2>1, <4>0, <4>1 DEF Differ
      <4> QED
        BY <4>2, LessIs
    <3>3. CASE k = j
      <4>1. k \in 1..Len(u) /\ t[k] < u[k] /\ \A m \in 1..(k - 1) : t[m] = u[m]
        BY <3>1, <3>3
      <4>2. s[k] \in Nat /\ t[k] \in Nat /\ u[k] \in Nat
        BY <2>k, <4>1, ElementOfSeq
      <4>n. \A a, b, c \in Nat : a < b /\ b < c => a < c
        OBVIOUS
      <4>3. s[k] < u[k] /\ \A m \in 1..(k - 1) : s[m] = u[m]
        BY <2>1, <4>1, <4>2, <4>n
      <4>4. Differ(s, u, k)
        BY <2>1, <4>1, <4>3 DEF Differ
      <4> QED
        BY <4>4, LessIs
    <3>4. CASE k > j
      <4>0. j \in 1..(k - 1) /\ j \in 1..Len(s) /\ \A m \in 1..(j - 1) : m \in 1..(k - 1)
        BY <1>0, <2>k, <3>j, <3>4, SMTT(20)
      <4>1. s[j] = t[j] /\ \A m \in 1..(j - 1) : s[m] = u[m]
        BY <2>1, <3>1, <4>0
      <4>2. Differ(s, u, j)
        BY <3>1, <4>0, <4>1 DEF Differ
      <4> QED
        BY <4>2, LessIs
    <3> QED
      BY <2>1, <3>1, <3>2, <3>3, <3>4
  <2> QED
    BY <2>2, <2>3, LessIs
<1> QED
  BY <1>2, <1>3, LessIs

----------------------------------------------------------------------------
(* The scan's items and their order. *)

\* The positions of a sequence are naturals from 1, and what is there is typed.
LEMMA SeqTyped ==
  ASSUME NEW X, NEW s \in Seq(X)
  PROVE  DOMAIN s \subseteq Nat \ {0} /\ \A k \in DOMAIN s : s[k] \in X
<1>1. DOMAIN s = 1..Len(s) /\ Len(s) \in Nat
  BY LenProperties
<1>2. 1..Len(s) \subseteq Nat \ {0}
  BY <1>1
<1>3. \A k \in 1..Len(s) : s[k] \in X
  BY ElementOfSeq
<1> QED
  BY <1>1, <1>2, <1>3

\* The scan's findings are a sequence, its items too, and paths are sequences.
Scanned == findings \in Scans

LEMMA ScanTyped ==
  ASSUME Scanned
  PROVE  /\ DOMAIN findings \subseteq Nat \ {0}
         /\ \A i \in DOMAIN findings : DOMAIN findings[i].items \subseteq Nat
         /\ \A r \in Refs : r = <<r[1], r[2]>> /\ r[1] \in Nat \ {0} /\ r[2] \in Nat
         /\ \A r \in Refs : PathOf(r) \in Seq(Nat) /\ r \in RefsOf(r[1])
<1> DEFINE Finding == [rule : Rule, items : Seq([path : Seq(Nat), key : Seq(Nat)]), failed : BOOLEAN]
<1>1. findings \in Seq(Finding)
  BY PlannerAssumption DEF Scanned
<1> HIDE DEF Finding
<1>2. DOMAIN findings \subseteq Nat \ {0} /\ \A i \in DOMAIN findings : findings[i] \in Finding
  BY <1>1, SeqTyped
<1>3. ASSUME NEW i \in DOMAIN findings
      PROVE  /\ DOMAIN findings[i].items \subseteq Nat
             /\ \A j \in DOMAIN findings[i].items : findings[i].items[j].path \in Seq(Nat)
  <2>1. findings[i].items \in Seq([path : Seq(Nat), key : Seq(Nat)])
    BY <1>2, <1>3 DEF Finding
  <2>2. DOMAIN findings[i].items \subseteq Nat
    BY <2>1, SeqTyped
  <2>3. \A j \in DOMAIN findings[i].items : findings[i].items[j] \in [path : Seq(Nat), key : Seq(Nat)]
    BY <2>1, SeqTyped
  <2> QED
    BY <2>2, <2>3
<1>4. ASSUME NEW r \in Refs
      PROVE  /\ r = <<r[1], r[2]>> /\ r[1] \in Nat \ {0} /\ r[2] \in Nat
             /\ PathOf(r) \in Seq(Nat) /\ r \in RefsOf(r[1])
  <2>1. PICK i \in DOMAIN findings : \E j \in DOMAIN findings[i].items : r = <<i, j>>
    BY DEF Refs, RefsOf
  <2> QED
    BY <2>1, <1>2, <1>3 DEF PathOf, ItemAt, RefsOf
<1> QED
  BY <1>2, <1>3, <1>4


\* NodeBefore is a strict total order of the items that have a path.
LEMMA NodeOrder ==
  ASSUME Scanned, NEW r \in Refs, NEW q \in Refs
  PROVE  /\ PathKey(PathOf(r)) \in Seq(Nat)
         /\ ~NodeBefore(r, r)
         /\ r = q \/ NodeBefore(r, q) \/ NodeBefore(q, r)
<1>1. /\ r = <<r[1], r[2]>> /\ q = <<q[1], q[2]>>
      /\ r[1] \in Nat /\ r[2] \in Nat /\ q[1] \in Nat /\ q[2] \in Nat
      /\ PathOf(r) \in Seq(Nat) /\ PathOf(q) \in Seq(Nat)
  BY ScanTyped
<1>2. PathKey(PathOf(r)) \in Seq(Nat) /\ PathKey(PathOf(q)) \in Seq(Nat)
  BY <1>1, PlannerAssumption DEF PathKey
<1>3. ~Less(PathKey(PathOf(r)), PathKey(PathOf(r)))
  BY <1>2, LessStrict
<1>4. ~(r[1] < r[1]) /\ ~(r[2] < r[2])
  BY <1>1
<1>5. ~NodeBefore(r, r)
  BY <1>3, <1>4 DEF NodeBefore, PathOf
<1>6. \/ PathKey(PathOf(r)) = PathKey(PathOf(q))
      \/ Less(PathKey(PathOf(r)), PathKey(PathOf(q)))
      \/ Less(PathKey(PathOf(q)), PathKey(PathOf(r)))
  BY <1>2, LessTotal
<1>7. (r[1] = q[1] \/ r[1] < q[1] \/ q[1] < r[1]) /\ (r[2] = q[2] \/ r[2] < q[2] \/ q[2] < r[2])
  BY <1>1
<1>8. r = q \/ NodeBefore(r, q) \/ NodeBefore(q, r)
  BY <1>1, <1>6, <1>7 DEF NodeBefore, PathOf
<1> QED
  BY <1>2, <1>5, <1>8

\* Before in the order, the key is the same or less.
LEMMA BeforeKey ==
  ASSUME NEW r, NEW q, NodeBefore(r, q)
  PROVE  PathKey(PathOf(r)) = PathKey(PathOf(q)) \/ Less(PathKey(PathOf(r)), PathKey(PathOf(q)))
BY DEF NodeBefore, PathOf

LEMMA NodeTrans ==
  ASSUME Scanned, NEW r \in Refs, NEW q \in Refs, NEW u \in Refs,
         NodeBefore(r, q), NodeBefore(q, u)
  PROVE  NodeBefore(r, u)
<1> DEFINE A == PathKey(PathOf(r))  B == PathKey(PathOf(q))  C == PathKey(PathOf(u))
<1>1. A \in Seq(Nat) /\ B \in Seq(Nat) /\ C \in Seq(Nat)
  BY NodeOrder
<1>2. /\ r[1] \in Nat /\ r[2] \in Nat /\ q[1] \in Nat /\ q[2] \in Nat
      /\ u[1] \in Nat /\ u[2] \in Nat
  BY ScanTyped
<1>3. /\ \/ Less(A, B)
         \/ A = B /\ r[1] < q[1]
         \/ A = B /\ r[1] = q[1] /\ r[2] < q[2]
      /\ \/ Less(B, C)
         \/ B = C /\ q[1] < u[1]
         \/ B = C /\ q[1] = u[1] /\ q[2] < u[2]
  BY DEF NodeBefore, PathOf
<1>4. Less(A, B) /\ Less(B, C) => Less(A, C)
  BY <1>1, LessTrans
<1> HIDE DEF A, B, C
<1>5. /\ r[1] < q[1] /\ q[1] < u[1] => r[1] < u[1]
      /\ r[2] < q[2] /\ q[2] < u[2] => r[2] < u[2]
  BY <1>2
<1>6. Less(A, C) \/ (A = C /\ r[1] < u[1]) \/ (A = C /\ r[1] = u[1] /\ r[2] < u[2])
  BY <1>3, <1>4, <1>5
<1> QED
  BY <1>6 DEF NodeBefore, PathOf, A, C

\* A scan has finitely many items.
LEMMA FiniteRefs ==
  ASSUME Scanned
  PROVE  IsFiniteSet(Refs)
<1> DEFINE Finding == [rule : Rule, items : Seq([path : Seq(Nat), key : Seq(Nat)]), failed : BOOLEAN]
<1>1. findings \in Seq(Finding)
  BY PlannerAssumption DEF Scanned
<1> HIDE DEF Finding
<1>2. Len(findings) \in Nat /\ DOMAIN findings = 1..Len(findings)
  BY <1>1, LenProperties
<1>3. ASSUME NEW i \in DOMAIN findings
      PROVE  IsFiniteSet(RefsOf(i))
  <2>1. findings[i] \in Finding
    BY <1>1, SeqTyped
  <2>2. findings[i].items \in Seq([path : Seq(Nat), key : Seq(Nat)])
    BY <2>1 DEF Finding
  <2>3. /\ Len(findings[i].items) \in Nat
        /\ DOMAIN findings[i].items = 1..Len(findings[i].items)
    BY <2>2, LenProperties
  <2>4. IsFiniteSet(DOMAIN findings[i].items)
    BY <2>3, FS_Interval
  <2>5. RefsOf(i) \subseteq {i} \X (DOMAIN findings[i].items)
    BY DEF RefsOf
  <2>6. IsFiniteSet({i} \X (DOMAIN findings[i].items))
    BY <2>4, FS_Singleton, FS_Product
  <2> QED
    BY <2>5, <2>6, FS_Subset
<1>4. IsFiniteSet(DOMAIN findings)
  BY <1>2, FS_Interval
<1> DEFINE f == [i \in DOMAIN findings |-> RefsOf(i)]
           T == {RefsOf(i) : i \in DOMAIN findings}
<1>5. f \in Surjection(DOMAIN findings, T)
  BY DEF Surjection
<1>6. IsFiniteSet(T)
  <2> HIDE DEF f, T
  <2> QED
    BY <1>4, <1>5, FS_Surjection
<1> QED
  BY <1>3, <1>6, FS_UNION DEF Refs

Rank(r) == Cardinality({q \in Located : NodeBefore(q, r)})

\* Each node is at its place: sorted, and none left out.
LEMMA SortedRight ==
  ASSUME Scanned
  PROVE  /\ Cardinality(Located) \in Nat
         /\ Sorted(Located) \in [1..Cardinality(Located) -> Located]
         /\ \A i, j \in 1..Cardinality(Located) : i < j => NodeBefore(Sorted(Located)[i], Sorted(Located)[j])
         /\ \A r \in Located : \E k \in 1..Cardinality(Located) : Sorted(Located)[k] = r
<1> DEFINE n == Cardinality(Located)
           R == [r \in Located |-> Rank(r) + 1]
<1>1. Located \subseteq Refs /\ IsFiniteSet(Located) /\ n \in Nat
  BY FiniteRefs, FS_Subset, FS_CardinalityType DEF Located
<1>2. ASSUME NEW r \in Located
      PROVE  Rank(r) \in Nat /\ Rank(r) < n
  <2> DEFINE B == {q \in Located : NodeBefore(q, r)}
  <2>1. B \subseteq Located /\ r \notin B
    BY <1>1, NodeOrder
  <2>2. IsFiniteSet(B) /\ Cardinality(B) <= n /\ (n = Cardinality(B) => Located = B)
    BY <1>1, <2>1, FS_Subset
  <2>3. Cardinality(B) \in Nat
    BY <2>2, FS_CardinalityType
  <2>4. Cardinality(B) # n
    BY <2>1, <2>2
  <2> HIDE DEF B
  <2>5. Rank(r) = Cardinality(B)
    BY DEF Rank, B
  <2> QED
    BY <1>1, <2>2, <2>3, <2>4, <2>5
<1>3. ASSUME NEW r \in Located, NEW u \in Located, NodeBefore(r, u)
      PROVE  Rank(r) < Rank(u)
  <2> DEFINE B == {q \in Located : NodeBefore(q, r)}
             C == {q \in Located : NodeBefore(q, u)}
  <2>1. B \subseteq C /\ r \in C /\ r \notin B
    BY <1>1, <1>3, NodeOrder, NodeTrans
  <2>2. IsFiniteSet(C)
    BY <1>1, FS_Subset
  <2>3. Cardinality(B) <= Cardinality(C) /\ (Cardinality(C) = Cardinality(B) => C = B)
    BY <2>1, <2>2, FS_Subset
  <2>4. Rank(r) = Cardinality(B) /\ Rank(u) = Cardinality(C)
    BY DEF Rank
  <2>5. Cardinality(B) # Cardinality(C)
    BY <2>1, <2>3
  <2> HIDE DEF B, C
  <2>6. Rank(r) \in Nat /\ Rank(u) \in Nat
    BY <1>2
  <2> QED
    BY <2>3, <2>4, <2>5, <2>6
<1>4. R \in [Located -> 1..n]
  BY <1>1, <1>2
<1>5. ASSUME NEW r \in Located, NEW u \in Located, R[r] = R[u]
      PROVE  r = u
  <2>1. Rank(r) = Rank(u) /\ Rank(r) \in Nat
    BY <1>2, <1>5
  <2>2. ~NodeBefore(r, u) /\ ~NodeBefore(u, r)
    BY <1>3, <2>1
  <2> QED
    BY <1>1, <2>2, NodeOrder
<1>6. R \in Injection(Located, 1..n)
  BY <1>4, <1>5 DEF Injection, IsInjective
<1>7. IsFiniteSet(1..n) /\ Cardinality(1..n) = n
  BY <1>1, FS_Interval
<1>8. R \in Surjection(Located, 1..n)
  <2> HIDE DEF R
  <2> QED
    BY <1>6, <1>7, FS_Injection
<1>9. ASSUME NEW k \in 1..n
      PROVE  /\ Sorted(Located)[k] \in Located /\ Rank(Sorted(Located)[k]) = k - 1
  <2>1. PICK r \in Located : R[r] = k
    BY <1>8 DEF Surjection
  <2>2. Rank(r) = k - 1
    BY <1>2, <2>1
  <2>3. Sorted(Located)[k] = CHOOSE q \in Located : Cardinality({p \in Located : NodeBefore(p, q)}) = k - 1
    BY DEF Sorted
  <2>4. \E q \in Located : Cardinality({p \in Located : NodeBefore(p, q)}) = k - 1
    BY <2>2 DEF Rank
  <2> QED
    BY <2>3, <2>4 DEF Rank
<1>10. Sorted(Located) \in [1..n -> Located]
  BY <1>9 DEF Sorted
<1>11. ASSUME NEW i \in 1..n, NEW j \in 1..n, i < j
       PROVE  NodeBefore(Sorted(Located)[i], Sorted(Located)[j])
  <2> DEFINE a == Sorted(Located)[i]  b == Sorted(Located)[j]
  <2>1. a \in Located /\ b \in Located /\ Rank(a) = i - 1 /\ Rank(b) = j - 1
    BY <1>9
  <2> HIDE DEF a, b
  <2>2. a # b /\ ~NodeBefore(b, a)
    BY <1>3, <1>11, <2>1
  <2>3. NodeBefore(a, b)
    BY <1>1, <2>1, <2>2, NodeOrder
  <2> QED
    BY <2>3 DEF a, b
<1>12. ASSUME NEW r \in Located
       PROVE  \E k \in 1..n : Sorted(Located)[k] = r
  <2>1. R[r] \in 1..n /\ R[r] = Rank(r) + 1
    BY <1>4
  <2>2. PICK k \in 1..n : k = Rank(r) + 1
    BY <2>1
  <2>3. Rank(Sorted(Located)[k]) = Rank(r) /\ Sorted(Located)[k] \in Located
    BY <1>2, <1>9, <2>2
  <2>4. R[Sorted(Located)[k]] = R[r]
    BY <2>3
  <2>5. Sorted(Located)[k] = r
    BY <1>5, <2>3, <2>4
  <2> QED
    BY <2>5
<1> QED
  BY <1>1, <1>10, <1>11, <1>12

\* The stack after each of the first m nodes.
Stacks(nodes, m, f) == f = [k \in 0..m |->
  IF k = 0 THEN <<>> ELSE Append(Popped(f[k - 1], nodes[k]), nodes[k])]

LEMMA StacksStep ==
  ASSUME NEW nodes, NEW m \in Nat, NEW f, Stacks(nodes, m, f)
  PROVE  \E g : Stacks(nodes, m + 1, g)
<1> DEFINE step(h, k) == Append(Popped(h, nodes[k]), nodes[k])
           g == [k \in 0..(m + 1) |-> IF k = m + 1 THEN step(f[m], m + 1) ELSE f[k]]
<1> HIDE DEF step
<1>1. f = [k \in 0..m |-> IF k = 0 THEN <<>> ELSE step(f[k - 1], k)]
  BY DEF Stacks, step
<1>2. \A k \in 0..m : f[k] = IF k = 0 THEN <<>> ELSE step(f[k - 1], k)
  BY <1>1
<1>3. ASSUME NEW k \in 0..(m + 1)
      PROVE  g[k] = IF k = 0 THEN <<>> ELSE step(g[k - 1], k)
  <2>1. CASE k = m + 1
    <3>1. g[k] = step(f[m], m + 1) /\ g[k - 1] = f[m] /\ k # 0
      BY <2>1
    <3> QED
      BY <2>1, <3>1
  <2>2. CASE k # m + 1 /\ k # 0
    <3>1. k \in 0..m /\ k - 1 \in 0..m /\ k - 1 \in 0..(m + 1) /\ k - 1 # m + 1
      BY <2>2
    <3>2. g[k] = f[k] /\ g[k - 1] = f[k - 1]
      BY <2>2, <3>1
    <3> QED
      BY <1>2, <2>2, <3>1, <3>2
  <2>3. CASE k = 0
    <3>1. k \in 0..m /\ k # m + 1
      BY <2>3
    <3> QED
      BY <1>2, <2>3, <3>1
  <2> QED
    BY <2>1, <2>2, <2>3
<1>4. g = [k \in 0..(m + 1) |-> g[k]]
  OBVIOUS
<1> HIDE DEF g
<1>5. g = [k \in 0..(m + 1) |-> IF k = 0 THEN <<>> ELSE step(g[k - 1], k)]
  BY <1>3, <1>4
<1>6. Stacks(nodes, m + 1, g)
  BY <1>5 DEF Stacks, step
<1> QED
  BY <1>6

\* There is such a sequence of stacks, so the recursion says what it is.
LEMMA StacksExist ==
  ASSUME NEW nodes, NEW n \in Nat
  PROVE  \E f : Stacks(nodes, n, f)
<1> DEFINE T == {m \in Nat : ~\E f : Stacks(nodes, m, f)}
<1> SUFFICES ASSUME T # {} PROVE FALSE
  OBVIOUS
<1>1. PICK m \in T : \A l \in T : m <= l
  <2>1. T \subseteq Nat
    OBVIOUS
  <2> HIDE DEF T
  <2> QED
    BY <2>1, Least
<1>2. m # 0
  <2>1. Stacks(nodes, 0, [k \in 0..0 |-> <<>>])
    BY DEF Stacks
  <2> QED
    BY <2>1
<1>3. m \in Nat /\ m - 1 \in Nat /\ ~(m <= m - 1)
  BY <1>2
<1>4. m - 1 \notin T
  BY <1>1, <1>3
<1>5. PICK f : Stacks(nodes, m - 1, f)
  BY <1>3, <1>4
<1>6. \E g : Stacks(nodes, (m - 1) + 1, g)
  BY <1>3, <1>5, StacksStep
<1>7. (m - 1) + 1 = m
  BY <1>3
<1> QED
  BY <1>6, <1>7

Nodes == Sorted({r \in Refs : ItemAt(r).path # NoPath})
StackOf == CHOOSE f : Stacks(Nodes, Len(Nodes), f)

LEMMA NodesAre ==
  ASSUME Scanned
  PROVE  Nodes = Sorted(Located) /\ Len(Nodes) = Cardinality(Located)
<1>1. Nodes = Sorted(Located)
  BY DEF Nodes, Located, PathOf
<1>2. Len(Sorted(Located)) = Cardinality(Located)
  BY SortedRight
<1> QED
  BY <1>1, <1>2

LEMMA StackIs ==
  ASSUME Scanned
  PROVE  /\ StackOf[0] = <<>>
         /\ \A k \in 1..Cardinality(Located) :
              StackOf[k] = Append(Popped(StackOf[k - 1], Nodes[k]), Nodes[k])
<1> DEFINE n == Cardinality(Located)
<1>1. n \in Nat /\ Len(Nodes) = n
  BY SortedRight, NodesAre
<1>2. Stacks(Nodes, n, StackOf)
  BY <1>1, StacksExist DEF StackOf
<1> HIDE DEF n
<1>3. \A k \in 0..n : StackOf[k] =
        IF k = 0 THEN <<>> ELSE Append(Popped(StackOf[k - 1], Nodes[k]), Nodes[k])
  BY <1>2 DEF Stacks
<1>4. 0 \in 0..n /\ \A k \in 1..n : k \in 0..n /\ k # 0
  BY <1>1
<1> QED
  BY <1>3, <1>4 DEF n

LEMMA ForestIs ==
  BuildForest = [r \in Refs |->
    IF ItemAt(r).path = NoPath THEN <<>>
    ELSE Front(StackOf[CHOOSE k \in DOMAIN Nodes : Nodes[k] = r])]
BY Zenon DEF BuildForest, StackOf, Stacks, Nodes

Anc(r) == {a \in Located \ {r} : Inside(PathOf(r), PathOf(a)) /\ NodeBefore(a, r)}

\* A stack that holds r and what r is inside, outermost first.
Column(st, r) == /\ st \in Seq(Located)
                 /\ ToSet(st) = Anc(r) \cup {r}
                 /\ \A i, j \in DOMAIN st : i < j => NodeBefore(st[i], st[j])

\* A bounded set of naturals that is not empty has a greatest element.
LEMMA Greatest ==
  ASSUME NEW n \in Nat, NEW T, T \subseteq 0..n, T # {}
  PROVE  Max(T) \in T /\ \A k \in T : k <= Max(T)
<1> DEFINE U == {m \in Nat : n - m \in T}
<1>1. PICK t \in T : TRUE
  OBVIOUS
<1>2. t \in 0..n /\ n - t \in Nat /\ n - (n - t) = t
  BY <1>1
<1>3. n - t \in U
  BY <1>1, <1>2
<1>4. PICK u \in U : \A m \in U : u <= m
  <2>1. U \subseteq Nat /\ U # {}
    BY <1>3
  <2> HIDE DEF U
  <2> QED
    BY <2>1, Least
<1>5. n - u \in T /\ u \in Nat
  BY <1>4
<1>6. ASSUME NEW k \in T
      PROVE  n - u >= k /\ k \in Int
  <2>1. k \in 0..n /\ n - k \in Nat /\ n - (n - k) = k
    BY <1>6
  <2>2. n - k \in U
    BY <2>1, <1>6
  <2>3. u <= n - k
    BY <1>4, <2>2
  <2> HIDE DEF U
  <2> QED
    BY <1>5, <2>1, <2>3
<1> HIDE DEF U
<1>7. Max(T) \in T /\ \A k \in T : Max(T) >= k
  BY <1>5, <1>6 DEF Max
<1>8. Max(T) \in Int
  BY <1>6, <1>7
<1> QED
  BY <1>6, <1>7, <1>8

\* Of two items that hold a third, the later is inside the earlier.
LEMMA InsideChain ==
  ASSUME Scanned, NEW a \in Refs, NEW b \in Refs, NEW r \in Refs,
         Inside(PathOf(r), PathOf(a)), Inside(PathOf(r), PathOf(b)), NodeBefore(a, b)
  PROVE  Inside(PathOf(b), PathOf(a))
<1> DEFINE A == PathKey(PathOf(a))  B == PathKey(PathOf(b))  C == PathKey(PathOf(r))
<1>1. A \in Seq(Nat) /\ B \in Seq(Nat) /\ C \in Seq(Nat)
  BY NodeOrder
<1>2. IsPrefix(A, C) /\ IsPrefix(B, C)
  BY DEF Inside
<1>3. A = B \/ Less(A, B)
  BY BeforeKey
<1> HIDE DEF A, B, C
<1>4. IsPrefix(A, B) \/ IsPrefix(B, A)
  BY <1>1, <1>2, PrefixOrder
<1>5. CASE IsPrefix(B, A)
  <2>1. B = A \/ Less(B, A)
    BY <1>1, <1>5, LessIs
  <2>2. ~(Less(A, B) /\ Less(B, A))
    BY <1>1, LessTrans, LessStrict
  <2>3. A = B
    BY <1>3, <2>1, <2>2
  <2> QED
    BY <1>5, <2>3 DEF Inside, A, B
<1>6. CASE IsPrefix(A, B)
  BY <1>6 DEF Inside, A, B
<1> QED
  BY <1>4, <1>5, <1>6

LEMMA InsideTrans ==
  ASSUME Scanned, NEW a \in Refs, NEW b \in Refs, NEW r \in Refs,
         Inside(PathOf(b), PathOf(a)), Inside(PathOf(r), PathOf(b))
  PROVE  Inside(PathOf(r), PathOf(a))
<1>1. /\ PathKey(PathOf(a)) \in Seq(Nat) /\ PathKey(PathOf(b)) \in Seq(Nat)
      /\ PathKey(PathOf(r)) \in Seq(Nat)
  BY NodeOrder
<1> QED
  BY <1>1, PrefixOrder DEF Inside

\* Popping leaves of a column that which holds the next node.
LEMMA PoppedRight ==
  ASSUME Scanned, NEW r \in Located, NEW st \in Seq(Located),
         \A i, j \in DOMAIN st : i < j => NodeBefore(st[i], st[j]),
         NEW q \in Located, \A i \in DOMAIN st : Inside(PathOf(q), PathOf(st[i]))
  PROVE  /\ Popped(st, r) \in Seq(Located)
         /\ ToSet(Popped(st, r)) = {a \in ToSet(st) : Inside(PathOf(r), PathOf(a))}
         /\ \A i, j \in DOMAIN Popped(st, r) : i < j => NodeBefore(Popped(st, r)[i], Popped(st, r)[j])
<1> DEFINE top == {k \in DOMAIN st : Inside(PathOf(r), PathOf(st[k]))}
           M == Max(top \cup {0})
<1>1. /\ Len(st) \in Nat /\ DOMAIN st = 1..Len(st)
      /\ \A i \in DOMAIN st : st[i] \in Located
  BY SeqTyped
<1>l. Located \subseteq Refs
  BY DEF Located
<1>2. M \in top \cup {0} /\ \A k \in top \cup {0} : k <= M
  <2>1. top \cup {0} \subseteq 0..Len(st) /\ top \cup {0} # {}
    BY <1>1
  <2> HIDE DEF top
  <2> QED
    BY <1>1, <2>1, Greatest
<1>3. Popped(st, r) = SubSeq(st, 1, M)
  BY DEF Popped, PathOf
<1>4. \A k \in top : k \in 1..Len(st)
  BY <1>1
<1>5. ASSUME NEW k \in 1..M
      PROVE  k \in top
  <2>1. M \in top
    BY <1>2, <1>5
  <2>2. M \in 1..Len(st) /\ k \in 1..Len(st) /\ (k = M \/ k < M)
    BY <1>1, <1>4, <1>5, <2>1
  <2>3. CASE k < M
    <3>1. NodeBefore(st[k], st[M])
      BY <1>1, <2>2, <2>3
    <3>2. Inside(PathOf(st[M]), PathOf(st[k]))
      BY <1>1, <1>l, <2>2, <3>1, InsideChain
    <3>3. Inside(PathOf(r), PathOf(st[M]))
      BY <2>1
    <3>4. Inside(PathOf(r), PathOf(st[k]))
      BY <1>1, <1>l, <2>2, <3>2, <3>3, InsideTrans
    <3> QED
      BY <1>1, <2>2, <3>4
  <2> QED
    BY <2>1, <2>2, <2>3
<1>6. M \in 0..Len(st)
  BY <1>1, <1>2, <1>4
<1>t. \A k \in top : k \in DOMAIN st /\ k \in 1..M
  BY <1>1, <1>2, <1>4, <1>6
<1>u. \A k \in DOMAIN st : Inside(PathOf(r), PathOf(st[k])) => k \in top
  OBVIOUS
<1>v. \A k \in top : Inside(PathOf(r), PathOf(st[k]))
  OBVIOUS
<1> HIDE DEF top, M
<1>7. /\ SubSeq(st, 1, M) \in Seq(Located) /\ DOMAIN SubSeq(st, 1, M) = 1..M
      /\ \A k \in 1..M : SubSeq(st, 1, M)[k] = st[k]
  <2>1. st \in Seq(Located) /\ M \in 0..Len(st) /\ Len(st) \in Nat
    BY <1>1, <1>6
  <2> HIDE DEF Located
  <2>2. /\ SubSeq(st, 1, M) \in Seq(Located) /\ Len(SubSeq(st, 1, M)) = M
        /\ \A k \in 1..M : SubSeq(st, 1, M)[k] = st[k]
    BY <2>1
  <2> QED
    BY <2>2, LenProperties
<1>8. ToSet(SubSeq(st, 1, M)) = {a \in ToSet(st) : Inside(PathOf(r), PathOf(a))}
  BY <1>5, <1>7, <1>t, <1>u, <1>v DEF ToSet
<1>9. \A i, j \in 1..M : i < j => NodeBefore(st[i], st[j])
  BY <1>5, <1>t
<1> QED
  BY <1>3, <1>7, <1>8, <1>9

\* A column of r's ancestors, with r pushed on.
LEMMA PushRight ==
  ASSUME NEW r \in Located, NEW st \in Seq(Located), ToSet(st) = Anc(r),
         \A i, j \in DOMAIN st : i < j => NodeBefore(st[i], st[j])
  PROVE  Column(Append(st, r), r) /\ Front(Append(st, r)) = st
<1> DEFINE ap == Append(st, r)
<1>1. Len(st) \in Nat /\ DOMAIN st = 1..Len(st) /\ \A i \in DOMAIN st : st[i] \in Located
  BY SeqTyped, LenProperties
<1>2. /\ ap \in Seq(Located) /\ Len(ap) = Len(st) + 1 /\ DOMAIN ap = 1..(Len(st) + 1)
      /\ \A i \in 1..Len(st) : ap[i] = st[i]
      /\ ap[Len(st) + 1] = r
  <2> HIDE DEF Located
  <2> QED
    BY <1>1, AppendProperties, LenProperties
<1> HIDE DEF ap
<1>3. \A i \in 1..(Len(st) + 1) : i \in 1..Len(st) \/ i = Len(st) + 1
  BY <1>1
<1>4. ToSet(ap) = Anc(r) \cup {r}
  <2>1. \A x \in ToSet(ap) : x \in Anc(r) \cup {r}
    BY <1>1, <1>2, <1>3 DEF ToSet
  <2>2. \A i \in 1..Len(st) : i \in DOMAIN ap
    BY <1>1, <1>2
  <2>3. Len(st) + 1 \in DOMAIN ap
    BY <1>1, <1>2
  <2>4. \A x \in Anc(r) \cup {r} : x \in ToSet(ap)
    BY <1>1, <1>2, <2>2, <2>3 DEF ToSet
  <2> QED
    BY <2>1, <2>4
<1>5. ASSUME NEW i \in DOMAIN ap, NEW j \in DOMAIN ap, i < j
      PROVE  NodeBefore(ap[i], ap[j])
  <2>1. i \in 1..Len(st)
    BY <1>1, <1>2, <1>5
  <2>2. CASE j \in 1..Len(st)
    BY <1>1, <1>2, <1>5, <2>1, <2>2
  <2>3. CASE j = Len(st) + 1
    <3>1. st[i] \in Anc(r)
      BY <1>1, <2>1 DEF ToSet
    <3> QED
      BY <1>2, <2>1, <2>3, <3>1 DEF Anc
  <2> QED
    BY <1>2, <1>3, <2>2, <2>3
<1>6. Front(ap) = st
  <2>1. Front(ap) = SubSeq(ap, 1, Len(st))
    BY <1>1, <1>2 DEF Front
  <2>2. /\ SubSeq(ap, 1, Len(st)) \in Seq(Located) /\ Len(SubSeq(ap, 1, Len(st))) = Len(st)
        /\ \A k \in 1..Len(st) : SubSeq(ap, 1, Len(st))[k] = ap[k]
    <3> HIDE DEF Located
    <3> QED
      BY <1>1, <1>2
  <2>3. SubSeq(ap, 1, Len(st)) = st
    BY <1>2, <2>2, SeqEqual
  <2> QED
    BY <2>1, <2>3
<1> QED
  BY <1>2, <1>4, <1>5, <1>6 DEF Column, ap

\* Nodes between which no other is.
Follows(q, r) == /\ NodeBefore(q, r)
                 /\ \A u \in Located : NodeBefore(u, r) => u = q \/ NodeBefore(u, q)

\* The column of a node is what is left of that of the node before, and the node.
LEMMA ColumnStep ==
  ASSUME Scanned, NEW q \in Located, NEW r \in Located, Follows(q, r),
         NEW st, Column(st, q)
  PROVE  /\ Popped(st, r) \in Seq(Located) /\ ToSet(Popped(st, r)) = Anc(r)
         /\ \A i, j \in DOMAIN Popped(st, r) : i < j => NodeBefore(Popped(st, r)[i], Popped(st, r)[j])
<1>l. Located \subseteq Refs
  BY DEF Located
<1>0. st \in Seq(Located) /\ ToSet(st) = Anc(q) \cup {q}
  BY DEF Column
<1>1. Inside(PathOf(q), PathOf(q))
  BY <1>l, NodeOrder, PrefixOrder DEF Inside
<1>2. ASSUME NEW i \in DOMAIN st PROVE Inside(PathOf(q), PathOf(st[i]))
  <2>1. st[i] \in Anc(q) \cup {q}
    BY <1>0 DEF ToSet
  <2> QED
    BY <1>1, <2>1 DEF Anc
<1>3. /\ Popped(st, r) \in Seq(Located)
      /\ ToSet(Popped(st, r)) = {a \in ToSet(st) : Inside(PathOf(r), PathOf(a))}
      /\ \A i, j \in DOMAIN Popped(st, r) : i < j => NodeBefore(Popped(st, r)[i], Popped(st, r)[j])
  BY <1>0, <1>2, PoppedRight DEF Column
<1>4. ASSUME NEW a \in ToSet(st), Inside(PathOf(r), PathOf(a)) PROVE a \in Anc(r)
  <2>1. a \in Located /\ (a = q \/ NodeBefore(a, q)) /\ NodeBefore(q, r)
    BY <1>0 DEF Anc, Follows
  <2>2. NodeBefore(a, r)
    BY <1>l, <2>1, NodeTrans
  <2>3. a # r
    BY <1>l, <2>2, NodeOrder
  <2> QED
    BY <1>4, <2>1, <2>2, <2>3 DEF Anc
<1>5. ASSUME NEW a \in Anc(r) PROVE a \in ToSet(st) /\ Inside(PathOf(r), PathOf(a))
  <2>1. a \in Located /\ NodeBefore(a, r) /\ Inside(PathOf(r), PathOf(a))
    BY DEF Anc
  <2>2. CASE a = q
    BY <1>0, <2>1, <2>2
  <2>3. CASE NodeBefore(a, q)
    <3> DEFINE A == PathKey(PathOf(a))  B == PathKey(PathOf(q))  C == PathKey(PathOf(r))
    <3>1. A \in Seq(Nat) /\ B \in Seq(Nat) /\ C \in Seq(Nat)
      BY <1>l, <2>1, NodeOrder
    <3>2. (A = B \/ Less(A, B)) /\ (B = C \/ Less(B, C))
      BY <2>3, BeforeKey DEF Follows
    <3>3. IsPrefix(A, C)
      BY <2>1 DEF Inside
    <3>4. IsPrefix(A, B)
      <4> HIDE DEF A, B, C
      <4> QED
        BY <3>1, <3>2, <3>3, Between
    <3>5. a # q
      BY <1>l, <2>3, NodeOrder
    <3>6. a \in Anc(q)
      BY <2>1, <2>3, <3>4, <3>5 DEF Anc, Inside
    <3> QED
      BY <1>0, <2>1, <3>6
  <2> QED
    BY <2>1, <2>2, <2>3 DEF Follows
<1> QED
  BY <1>3, <1>4, <1>5

\* What a node's column is made of.
LEMMA StackRight ==
  ASSUME Scanned, NEW k \in 1..Cardinality(Located)
  PROVE  /\ Popped(StackOf[k - 1], Nodes[k]) \in Seq(Located)
         /\ ToSet(Popped(StackOf[k - 1], Nodes[k])) = Anc(Nodes[k])
         /\ \A i, j \in DOMAIN Popped(StackOf[k - 1], Nodes[k]) : i < j =>
              NodeBefore(Popped(StackOf[k - 1], Nodes[k])[i], Popped(StackOf[k - 1], Nodes[k])[j])
<1> DEFINE n == Cardinality(Located)
           Good(m) == /\ Popped(StackOf[m - 1], Nodes[m]) \in Seq(Located)
                      /\ ToSet(Popped(StackOf[m - 1], Nodes[m])) = Anc(Nodes[m])
                      /\ \A i, j \in DOMAIN Popped(StackOf[m - 1], Nodes[m]) : i < j =>
                           NodeBefore(Popped(StackOf[m - 1], Nodes[m])[i], Popped(StackOf[m - 1], Nodes[m])[j])
           T == {m \in 1..n : ~Good(m)}
<1>l. Located \subseteq Refs
  BY DEF Located
<1>1. /\ n \in Nat
      /\ \A m \in 1..n : Nodes[m] \in Located
      /\ \A i, j \in 1..n : i < j => NodeBefore(Nodes[i], Nodes[j])
      /\ \A r \in Located : \E m \in 1..n : Nodes[m] = r
  BY SortedRight, NodesAre
<1>2. /\ StackOf[0] = <<>>
      /\ \A m \in 1..n : StackOf[m] = Append(Popped(StackOf[m - 1], Nodes[m]), Nodes[m])
  BY StackIs
<1> HIDE DEF n
<1> SUFFICES ASSUME T # {} PROVE FALSE
  BY DEF n
<1>3. PICK m \in T : \A i \in T : m <= i
  <2>1. T \subseteq Nat
    BY <1>1
  <2> HIDE DEF T
  <2> QED
    BY <2>1, Least
<1>4. m \in 1..n /\ ~Good(m) /\ m \in Nat
  BY <1>1, <1>3
<1> DEFINE r == Nodes[m]
<1>5. r \in Located
  BY <1>1, <1>4
<1>6. ASSUME NEW j \in 1..n, NodeBefore(Nodes[j], r) PROVE j < m
  <2>1. j # m /\ ~NodeBefore(r, Nodes[j])
    <3>1. ~NodeBefore(r, r)
      BY <1>5, <1>l, NodeOrder
    <3>2. ASSUME NodeBefore(r, Nodes[j]) PROVE FALSE
      <4>1. Nodes[j] \in Refs /\ r \in Refs
        BY <1>1, <1>5, <1>l
      <4>2. NodeBefore(r, r)
        BY <1>6, <3>2, <4>1, NodeTrans
      <4> QED
        BY <3>1, <4>2
    <3> QED
      BY <1>6, <3>1, <3>2
  <2>2. ~(m < j)
    BY <1>1, <1>4, <2>1
  <2> QED
    BY <1>1, <1>4, <2>1, <2>2
<1>7. CASE m = 1
  <2>1. Anc(r) = {}
    <3> SUFFICES ASSUME NEW a \in Anc(r) PROVE FALSE
      OBVIOUS
    <3>1. a \in Located /\ NodeBefore(a, r)
      BY DEF Anc
    <3>2. PICK j \in 1..n : Nodes[j] = a
      BY <1>1, <3>1
    <3>3. j < m /\ j \in 1..n
      BY <1>6, <3>1, <3>2
    <3> QED
      BY <1>1, <1>7, <3>3
  <2>2. StackOf[m - 1] = <<>>
    BY <1>2, <1>7
  <2> DEFINE st == <<>>
  <2>3. st \in Seq(Located) /\ DOMAIN st = {} /\ ToSet(st) = {}
    BY EmptySeq DEF ToSet
  <2> HIDE DEF st
  <2>4. /\ Popped(st, r) \in Seq(Located)
        /\ ToSet(Popped(st, r)) = {a \in ToSet(st) : Inside(PathOf(r), PathOf(a))}
        /\ \A i, j \in DOMAIN Popped(st, r) : i < j => NodeBefore(Popped(st, r)[i], Popped(st, r)[j])
    BY <1>5, <2>3, PoppedRight
  <2>5. ToSet(Popped(st, r)) = Anc(r)
    BY <2>1, <2>3, <2>4
  <2>6. st = StackOf[m - 1]
    BY <2>2 DEF st
  <2>7. Good(m)
    BY <2>4, <2>5, <2>6
  <2> QED
    BY <1>4, <2>7
<1>8. CASE m # 1
  <2> DEFINE q == Nodes[m - 1]
  <2>1. m - 1 \in 1..n /\ m - 1 < m /\ ~(m <= m - 1)
    BY <1>1, <1>4, <1>8
  <2>2. q \in Located
    BY <1>1, <2>1
  <2>3. Good(m - 1)
    BY <1>3, <2>1
  <2>4. Column(StackOf[m - 1], q)
    BY <1>2, <2>1, <2>2, <2>3, PushRight
  <2>5. Follows(q, r)
    <3>1. NodeBefore(q, r)
      BY <1>1, <1>4, <2>1
    <3>2. ASSUME NEW u \in Located, NodeBefore(u, r) PROVE u = q \/ NodeBefore(u, q)
      <4>1. PICK j \in 1..n : Nodes[j] = u
        BY <1>1
      <4>2. j < m
        BY <1>6, <3>2, <4>1
      <4>3. j = m - 1 \/ j < m - 1
        BY <1>1, <1>4, <4>2
      <4> QED
        BY <1>1, <2>1, <4>1, <4>3
    <3> QED
      BY <3>1, <3>2 DEF Follows
  <2>6. Good(m)
    <3>1. /\ Popped(StackOf[m - 1], r) \in Seq(Located) /\ ToSet(Popped(StackOf[m - 1], r)) = Anc(r)
          /\ \A i, j \in DOMAIN Popped(StackOf[m - 1], r) : i < j =>
               NodeBefore(Popped(StackOf[m - 1], r)[i], Popped(StackOf[m - 1], r)[j])
      BY <1>5, <2>2, <2>4, <2>5, ColumnStep
    <3> QED
      BY <3>1
  <2> QED
    BY <1>4, <2>6
<1> QED
  BY <1>7, <1>8

\* buildForest's one walk over the sorted nodes finds what contains what.
LEMMA BuildForestRight ==
  ASSUME Scanned, above = BuildForest
  PROVE  IsForest
<1>l. Located \subseteq Refs
  BY DEF Located
<1>1. ASSUME NEW r \in Refs, r \notin Located PROVE above[r] = <<>>
  BY <1>1, ForestIs DEF Located, PathOf
<1>2. ASSUME NEW r \in Located
      PROVE  /\ above[r] \in Seq(Located) /\ ToSet(above[r]) = Anc(r)
             /\ \A i, j \in DOMAIN above[r] : i < j => NodeBefore(above[r][i], above[r][j])
  <2> DEFINE n == Cardinality(Located)
             k == CHOOSE k \in DOMAIN Nodes : Nodes[k] = r
  <2>1. DOMAIN Nodes = 1..n /\ \E j \in 1..n : Nodes[j] = r
    BY SortedRight, NodesAre
  <2>2. k \in 1..n /\ Nodes[k] = r
    BY <2>1
  <2>3. above[r] = Front(StackOf[k])
    <3>1. r \in Refs /\ ItemAt(r).path # NoPath
      BY DEF Located, PathOf
    <3> QED
      BY <3>1, ForestIs
  <2> HIDE DEF k, n
  <2>4. StackOf[k] = Append(Popped(StackOf[k - 1], r), r)
    BY <2>2, StackIs DEF n
  <2> DEFINE p == Popped(StackOf[k - 1], r)
  <2>5. /\ p \in Seq(Located) /\ ToSet(p) = Anc(r)
        /\ \A i, j \in DOMAIN p : i < j => NodeBefore(p[i], p[j])
    BY <2>2, StackRight DEF n
  <2> HIDE DEF p
  <2>6. above[r] = p
    BY <2>3, <2>4, <2>5, PushRight DEF p
  <2> QED
    BY <2>5, <2>6
<1>3. ASSUME NEW r \in Refs, NEW k \in DOMAIN above[r]
      PROVE  Ancestors(above[r][k]) = {above[r][m] : m \in 1..(k - 1)}
  <2> DEFINE s == above[r]
  <2>1. r \in Located
    BY <1>1, <1>3, EmptySeq
  <2>2. s \in Seq(Located) /\ ToSet(s) = Anc(r) /\ \A i, j \in DOMAIN s : i < j => NodeBefore(s[i], s[j])
    BY <1>2, <2>1
  <2>3. DOMAIN s = 1..Len(s) /\ Len(s) \in Nat /\ k \in 1..Len(s) /\ \A i \in DOMAIN s : s[i] \in Located /\ s[i] \in Anc(r)
    BY <2>2, SeqTyped, LenProperties DEF ToSet
  <2>4. Ancestors(s[k]) = Anc(s[k])
    BY <1>2, <2>3 DEF Ancestors
  <2> HIDE DEF s
  <2>5. ASSUME NEW b \in Anc(s[k]) PROVE \E m \in 1..(k - 1) : b = s[m]
    <3>1. b \in Located /\ Inside(PathOf(s[k]), PathOf(b)) /\ NodeBefore(b, s[k]) /\ b # s[k]
      BY DEF Anc
    <3>2. s[k] \in Located /\ Inside(PathOf(r), PathOf(s[k])) /\ NodeBefore(s[k], r)
      BY <2>3 DEF Anc
    <3>3. Inside(PathOf(r), PathOf(b))
      BY <1>l, <2>1, <3>1, <3>2, InsideTrans
    <3>4. NodeBefore(b, r) /\ b # r
      BY <1>l, <2>1, <3>1, <3>2, NodeTrans, NodeOrder
    <3>5. b \in ToSet(s)
      BY <2>2, <3>1, <3>3, <3>4 DEF Anc
    <3>6. PICK m \in DOMAIN s : b = s[m]
      BY <3>5 DEF ToSet
    <3>7. ~(k < m)
      <4> SUFFICES ASSUME k < m PROVE FALSE
        OBVIOUS
      <4>1. NodeBefore(s[k], b)
        BY <2>2, <2>3, <3>6
      <4>2. NodeBefore(b, b)
        BY <1>l, <3>1, <3>2, <4>1, NodeTrans
      <4> QED
        BY <1>l, <3>1, <4>2, NodeOrder
    <3>8. m # k
      BY <3>1, <3>6
    <3>9. m \in 1..(k - 1)
      BY <2>3, <3>6, <3>7, <3>8
    <3> QED
      BY <3>6, <3>9
  <2>6. ASSUME NEW m \in 1..(k - 1) PROVE s[m] \in Anc(s[k])
    <3>1. m \in DOMAIN s /\ m < k /\ m \in Nat
      BY <2>3
    <3>2. NodeBefore(s[m], s[k]) /\ s[m] \in Located /\ s[k] \in Located
      BY <2>2, <2>3, <3>1
    <3>3. Inside(PathOf(r), PathOf(s[m])) /\ Inside(PathOf(r), PathOf(s[k]))
      BY <2>3, <3>1 DEF Anc
    <3>4. Inside(PathOf(s[k]), PathOf(s[m]))
      BY <1>l, <2>1, <3>2, <3>3, InsideChain
    <3>5. s[m] # s[k]
      BY <1>l, <3>2, NodeOrder
    <3> QED
      BY <3>2, <3>4, <3>5 DEF Anc
  <2>7. Anc(s[k]) = {s[m] : m \in 1..(k - 1)}
    BY <2>5, <2>6
  <2> QED
    BY <2>4, <2>7 DEF s
<1>4. \A r \in Refs : above[r] \in Seq(Located)
  BY <1>1, <1>2, EmptySeq
<1>5. \A r \in Located : Ancestors(r) = {a \in Located \ {r} : Inside(PathOf(r), PathOf(a)) /\ NodeBefore(a, r)}
  BY <1>2 DEF Ancestors, Anc
<1> QED
  BY <1>1, <1>3, <1>4, <1>5 DEF IsForest

\* Two items at one path, or one inside the other: the forest says which.
LEMMA InsideIsBelow ==
  ASSUME Scanned, IsForest, NEW r \in Located, NEW s \in Located, r # s,
         Inside(PathOf(s), PathOf(r))
  PROVE  s \in Descendants(r) \cup SharesPath(r)
<1> DEFINE p == PathOf(r)  q == PathOf(s)
<1>1. r \in Refs /\ s \in Refs /\ p \in Seq(Nat) /\ q \in Seq(Nat)
  BY ScanTyped DEF Located
<1>2. r[1] \in Nat /\ r[2] \in Nat /\ s[1] \in Nat /\ s[2] \in Nat /\ (r[1] # s[1] \/ r[2] # s[2])
  BY <1>1, ScanTyped
<1>3. CASE NodeBefore(r, s)
  <2>1. r \in Ancestors(s)
    BY <1>1, <1>3 DEF IsForest, Located
  <2> QED
    BY <2>1, <1>1 DEF Descendants
<1>4. CASE ~NodeBefore(r, s)
  <2>1. PathKey(p) = PathKey(q)
    BY <1>4 DEF NodeBefore, Less, IsStrictPrefix, Inside, PathOf
  <2>2. NodeBefore(s, r)
    BY <2>1, <1>2, <1>4 DEF NodeBefore, PathOf
  <2>3. p = q
    BY <2>1, <1>1, PlannerAssumption, AppendInjective DEF PathKey
  <2>4. Inside(PathOf(r), PathOf(s))
    BY <2>3
  <2>5. s \in Ancestors(r)
    BY <1>1, <2>2, <2>4 DEF IsForest, Located
  <2> QED
    BY <2>3, <2>5 DEF SharesPath, PathOf
<1> QED
  BY <1>3, <1>4


----------------------------------------------------------------------------
(* The inductive invariant: what holds of the drafts in the loop. *)

Selected == {r \in Refs : r \in Picked(r[1])}

\* A draft has items of its rule, one if it acts per item and all those picked
\* if not, that the planner may delete: nothing surface-only goes with them.
DraftOK(d) ==
  /\ d.items # {} /\ d.items \subseteq Picked(d.rule) /\ d.items \subseteq RefsOf(d.rule) /\ d.rule \in DOMAIN findings
  /\ d = Draft(d.rule, d.items)
  /\ PerItem(d.rule) => \E r \in d.items : d.items = {r}
  /\ ~PerItem(d.rule) => d.items = Picked(d.rule)
  /\ \A r \in d.items : Actionable(r[1]) /\ SurfaceOnlyConflicts(r) = {}

\* A skip of item r, or of its whole rule, and not because of nesting.
Refuses(s, r) == s.rule = r[1] /\ s.item \in {WholeRule, r[2]} /\ s.why # "inside"

\* A picked item of a rule already drafted has a draft or a refusal.
PickOK(r) == r \in Planned \/ \E s \in skipped : Refuses(s, r)

Drafted == \A r \in Selected : r[1] < next => PickOK(r)
Unplanned == phase # "planned" => PlanActions = {}

\* The plan acts on the kept drafts, and names each dropped one in a skip.
NamesDropped(d) ==
  \E s \in skipped : /\ s.rule = d.rule /\ s.why = "inside"
                    /\ s.item = IF PerItem(d.rule) THEN FirstItem(d)[2] ELSE WholeRule
Resolved ==
  phase = "planned" =>
    /\ next > Len(findings)
    /\ Acted = UNION {d.items : d \in Kept}
    /\ \A d \in drafts \ Kept : NamesDropped(d)

\* A skip that says "inside" names an item of a kept draft, which holds the
\* item skipped.
Covers(s) ==
  /\ \E d \in Kept : s.cover \in d.items
  /\ \E r \in Refs : /\ r[1] = s.rule /\ s.item \in {WholeRule, r[2]}
                    /\ Inside(PathOf(r), PathOf(s.cover))
Truthful == \A s \in skipped : s.why = "inside" => phase = "planned" /\ Covers(s)

\* A skip that says "partial" is of a whole-rule command some of whose items
\* were picked.
Partial(s) == s.why = "partial" => PartialPick(s.rule) /\ ~PerItem(s.rule) /\ Picked(s.rule) # {}

\* What a kept draft lists, and the one action there is for each.
Listed(d) == UNION {UnplannedInside(r) : r \in Uncovered(d)}
ActsFor(a, d) == a.rule = d.rule /\ a.items = d.items /\ a.includes = Listed(d)
OneEach ==
  phase = "planned" =>
    /\ \A a \in PlanActions : \E d \in Kept : ActsFor(a, d)
    /\ \A d \in Kept : \E a \in PlanActions : ActsFor(a, d)
    /\ \A a, b \in PlanActions : a.rule = b.rule /\ a.items = b.items => a = b

IInv ==
  /\ Scanned /\ IsForest /\ next \in Nat
  /\ phase = "scanned" => next = 1 /\ drafts = {} /\ skipped = {}
  /\ \A d \in drafts : DraftOK(d)
  /\ \A s \in skipped : Partial(s)
  /\ Drafted /\ Unplanned /\ Resolved /\ Truthful /\ OneEach

\* What drafting rule i adds: drafts that are right, and an answer to every
\* item picked of it.
Right(i, out) ==
  /\ \A d \in out.drafts : DraftOK(d)
  /\ \A s \in out.skips : s.why # "inside" /\ Partial(s)
  /\ \A r \in Picked(i) : \/ \E d \in out.drafts : r \in d.items
                         \/ \E s \in out.skips : Refuses(s, r)

LEMMA DraftsRight ==
  ASSUME Scanned, NEW i \in DOMAIN findings
  PROVE  Right(i, RuleDrafts(i))
<1>1. \A r \in Picked(i) : r \in RefsOf(i) /\ r[1] = i
  BY DEF Picked, RefsOf
<1>2. CASE ~Engaged(i)
  <2>1. Picked(i) = {}
    BY <1>2 DEF Picked, Engaged, Id, RefsOf
  <2>2. RuleDrafts(i) = Result({}, {})
    BY <1>2 DEF RuleDrafts
  <2>3. Right(i, Result({}, {}))
    BY <2>1 DEF Right, Result
  <2> QED
    BY <2>2, <2>3
<1>3. CASE Engaged(i) /\ ~Actionable(i)
  <2>1. RuleDrafts(i) = Result({}, {Skip(i, WholeRule, "surface-only")})
    BY <1>3 DEF RuleDrafts
  <2>2. \A r \in Picked(i) : Refuses(Skip(i, WholeRule, "surface-only"), r)
    BY <1>1 DEF Skip, Refuses
  <2>3. Right(i, Result({}, {Skip(i, WholeRule, "surface-only")}))
    BY <2>2 DEF Right, Result, Skip, Partial
  <2> QED
    BY <2>1, <2>3
<1>4. CASE Engaged(i) /\ Actionable(i) /\ Picked(i) = {}
  <2>1. RuleDrafts(i) = Result({}, {})
    BY <1>4 DEF RuleDrafts
  <2>2. Right(i, Result({}, {}))
    BY <1>4 DEF Right, Result
  <2> QED
    BY <2>1, <2>2
<1>5. CASE Engaged(i) /\ Actionable(i) /\ Picked(i) # {}
  <2> DEFINE all == IF PerItem(i) THEN PerItemDrafts(i, Picked(i)) ELSE WholeRuleDraft(i, Picked(i))
  <2> DEFINE free == {q \in Picked(i) : Refusal(i, q) = "none"}
  <2> DEFINE refused == {q \in Picked(i) : Refusal(i, q) # "none"}
  <2>1. ASSUME PerItem(i) PROVE Right(i, all)
    <3>1. /\ all.drafts = {Draft(i, {r}) : r \in free}
          /\ all.skips = {Skip(i, r[2], Refusal(i, r)) : r \in refused}
      BY <2>1 DEF PerItemDrafts, Result
    <3> HIDE DEF all
    <3>2. ASSUME NEW d \in all.drafts PROVE DraftOK(d)
      <4>1. PICK r \in free : d = Draft(i, {r})
        BY <3>1
      <4>2. SurfaceOnlyConflicts(r) = {}
        BY <4>1 DEF Refusal
      <4>3. r \in RefsOf(i) /\ r[1] = i
        BY <1>1, <4>1
      <4>4. d.rule = i /\ d.items = {r} /\ d = Draft(d.rule, d.items)
        BY <4>1 DEF Draft
      <4> QED
        BY <4>2, <4>3, <4>4, <1>5, <2>1 DEF DraftOK
    <3>3. ASSUME NEW r \in Picked(i)
          PROVE  (\E d \in all.drafts : r \in d.items) \/ \E s \in all.skips : Refuses(s, r)
      <4>1. CASE r \in free
        <5>1. Draft(i, {r}) \in all.drafts /\ r \in Draft(i, {r}).items
          BY <4>1, <3>1 DEF Draft
        <5> QED
          BY <5>1
      <4>2. CASE r \in refused
        <5>1. Skip(i, r[2], Refusal(i, r)) \in all.skips
          BY <4>2, <3>1
        <5>2. Refusal(i, r) # "inside"
          BY DEF Refusal
        <5>3. Refuses(Skip(i, r[2], Refusal(i, r)), r)
          BY <5>2, <1>1 DEF Skip, Refuses
        <5> QED
          BY <5>1, <5>3
      <4> QED
        BY <4>1, <4>2
    <3>4. ASSUME NEW s \in all.skips PROVE s.why # "inside" /\ Partial(s)
      <4>1. PICK r \in refused : s = Skip(i, r[2], Refusal(i, r))
        BY <3>1
      <4>2. Refusal(i, r) # "inside" /\ Refusal(i, r) # "partial"
        BY DEF Refusal
      <4> QED
        BY <4>1, <4>2 DEF Skip, Partial
    <3> QED
      BY <3>2, <3>3, <3>4 DEF Right
  <2>2. ASSUME ~PerItem(i) PROVE Right(i, all)
    <3>1. all = WholeRuleDraft(i, Picked(i))
      BY <2>2
    <3> HIDE DEF all
    <3>2. ASSUME NEW why, all = Result({}, {Skip(i, WholeRule, why)}), why # "inside",
                     Partial(Skip(i, WholeRule, why))
          PROVE Right(i, all)
      <4>1. \A r \in Picked(i) : Refuses(Skip(i, WholeRule, why), r)
        BY <3>2, <1>1 DEF Skip, Refuses
      <4> QED
        BY <3>2, <4>1 DEF Right, Result, Skip
    <3>3. CASE all = Result({Draft(i, Picked(i))}, {}) /\ \A r \in Picked(i) : SurfaceOnlyConflicts(r) = {}
      <4>1. DraftOK(Draft(i, Picked(i)))
        <5>1. Draft(i, Picked(i)).rule = i /\ Draft(i, Picked(i)).items = Picked(i)
          BY DEF Draft
        <5> QED
          BY <5>1, <3>3, <1>1, <1>5, <2>2 DEF DraftOK
      <4>2. Picked(i) = Draft(i, Picked(i)).items
        BY DEF Draft
      <4> QED
        BY <3>3, <4>1, <4>2 DEF Right, Result
    <3>4. CASE PartialPick(i) /\ all = Result({}, {Skip(i, WholeRule, "partial")})
      <4>1. Skip(i, WholeRule, "partial").rule = i
        BY DEF Skip
      <4>2. Partial(Skip(i, WholeRule, "partial"))
        BY <4>1, <3>4, <2>2, <1>5 DEF Partial
      <4> QED
        BY <3>2, <3>4, <4>2
    <3>5. CASE all = Result({}, {Skip(i, WholeRule, "contains")})
      <4>1. Partial(Skip(i, WholeRule, "contains"))
        BY DEF Skip, Partial
      <4> QED
        BY <3>2, <3>5, <4>1
    <3> QED
      BY <3>1, <3>3, <3>4, <3>5 DEF WholeRuleDraft
  <2>3. Right(i, all)
    BY <2>1, <2>2
  <2>4. CASE CannotRun(i) /\ all.drafts # {}
    <3>1. RuleDrafts(i) = Result({}, all.skips \cup RefusedSkips(i, all.drafts))
      BY <2>4, <1>5 DEF RuleDrafts
    <3> HIDE DEF all
    <3>2. ASSUME NEW r \in Picked(i) PROVE \E s \in all.skips \cup RefusedSkips(i, all.drafts) : Refuses(s, r)
      <4>1. CASE \E s \in all.skips : Refuses(s, r)
        BY <4>1
      <4>2. CASE \E d \in all.drafts : r \in d.items
        <5>1. Refuses(Skip(i, r[2], "cannot run"), r) /\ Refuses(Skip(i, WholeRule, "cannot run"), r)
          BY <1>1 DEF Skip, Refuses
        <5> QED
          BY <4>2, <5>1 DEF RefusedSkips
      <4> QED
        BY <2>3, <4>1, <4>2 DEF Right
    <3>4. \A s \in all.skips \cup RefusedSkips(i, all.drafts) : s.why # "inside" /\ Partial(s)
      <4>1. \A s \in RefusedSkips(i, all.drafts) : s.why # "inside" /\ Partial(s)
        <5>1. \A j : Skip(i, j, "cannot run").why # "inside" /\ Partial(Skip(i, j, "cannot run"))
          BY DEF Skip, Partial
        <5> QED
          BY <5>1 DEF RefusedSkips
      <4> QED
        BY <2>3, <4>1 DEF Right
    <3>3. Right(i, Result({}, all.skips \cup RefusedSkips(i, all.drafts)))
      BY <3>2, <3>4 DEF Right, Result
    <3> QED
      BY <3>1, <3>3
  <2>5. CASE ~(CannotRun(i) /\ all.drafts # {})
    <3>1. RuleDrafts(i) = all
      BY <2>5, <1>5 DEF RuleDrafts
    <3> HIDE DEF all
    <3> QED
      BY <3>1, <2>3
  <2> QED
    BY <2>4, <2>5
<1> QED
  BY <1>2, <1>3, <1>4, <1>5

LEMMA ActionFields ==
  \A d : Action(d).rule = d.rule /\ Action(d).items = d.items /\ Action(d).includes = Listed(d)
  BY DEF Action, Listed

LEMMA NestedSkipFields ==
  \A d : /\ NestedSkip(d).rule = d.rule /\ NestedSkip(d).why = "inside"
        /\ NestedSkip(d).item = IF PerItem(d.rule) THEN FirstItem(d)[2] ELSE WholeRule
  BY DEF NestedSkip

\* The forest of a scan stays as it was built.
LEMMA ForestKept ==
  ASSUME IsForest, UNCHANGED <<findings, above>>
  PROVE  IsForest'
<1>1. Refs' = Refs /\ Located' = Located /\ above' = above
  BY DEF Refs, RefsOf, Located, PathOf, ItemAt
<1>2. \A r, q : (Inside(PathOf(r), PathOf(q)) /\ NodeBefore(q, r))' = (Inside(PathOf(r), PathOf(q)) /\ NodeBefore(q, r))
  BY DEF PathOf, ItemAt, NodeBefore
<1>3. \A r : Ancestors(r)' = Ancestors(r)
  BY <1>1 DEF Ancestors
<1> SUFFICES ASSUME NEW r \in Refs'
             PROVE  (/\ above[r] \in Seq(Located)
                     /\ r \notin Located => above[r] = <<>>
                     /\ r \in Located =>
                          Ancestors(r) = {a \in Located \ {r} : Inside(PathOf(r), PathOf(a)) /\ NodeBefore(a, r)}
                     /\ \A k \in DOMAIN above[r] : Ancestors(above[r][k]) = {above[r][m] : m \in 1..(k - 1)})'
  BY Zenon DEF IsForest
<1>5. r \in Refs
  BY <1>1
<1>6. (above[r] \in Seq(Located) /\ (r \notin Located => above[r] = <<>>))'
  BY <1>1, <1>5 DEF IsForest
<1>7. (r \in Located =>
         Ancestors(r) = {a \in Located \ {r} : Inside(PathOf(r), PathOf(a)) /\ NodeBefore(a, r)})'
  BY <1>1, <1>2, <1>3, <1>5 DEF IsForest
<1>8. (\A k \in DOMAIN above[r] : Ancestors(above[r][k]) = {above[r][m] : m \in 1..(k - 1)})'
  <2> DEFINE Nested(f) == \A k \in DOMAIN f[r] : ToSet(f[f[r][k]]) = {f[r][m] : m \in 1..(k - 1)}
  <2>1. Nested(above)
    BY <1>5 DEF IsForest, Ancestors
  <2> HIDE DEF Nested
  <2>2. Nested(above')
    BY <2>1, <1>1
  <2> QED
    BY <2>2, Zenon DEF Nested, Ancestors
<1> QED
  BY <1>6, <1>7, <1>8

LEMMA PlannedRefs ==
  ASSUME IInv
  PROVE  Planned \subseteq Refs /\ \A d \in drafts : d.items # {} /\ d.items \subseteq RefsOf(d.rule) \cap Planned
<1>1. \A d \in drafts : d.items # {} /\ d.items \subseteq RefsOf(d.rule) /\ d.rule \in DOMAIN findings
  BY DEF IInv, DraftOK
<1> QED
  BY <1>1 DEF Planned, Refs

\* An item's ancestors are located, and hold it.
LEMMA AncestorsHold ==
  ASSUME IInv, NEW r \in Refs
  PROVE  /\ above[r] \in Seq(Located) /\ DOMAIN above[r] = 1..Len(above[r]) /\ Len(above[r]) \in Nat
         /\ Ancestors(r) = {above[r][k] : k \in DOMAIN above[r]}
         /\ \A a \in Ancestors(r) : a \in Located /\ r \in Located /\ Inside(PathOf(r), PathOf(a)) /\ NodeBefore(a, r)
<1>0. IsForest
  BY DEF IInv
<1>1. above[r] \in Seq(Located)
  BY <1>0 DEF IsForest
<1>2. DOMAIN above[r] = 1..Len(above[r]) /\ Len(above[r]) \in Nat
  BY <1>1, LenProperties
<1>3. Ancestors(r) = {above[r][k] : k \in DOMAIN above[r]}
  BY DEF Ancestors, ToSet
<1>4. ASSUME NEW a \in Ancestors(r)
      PROVE  a \in Located /\ r \in Located /\ Inside(PathOf(r), PathOf(a)) /\ NodeBefore(a, r)
  <2>1. DOMAIN above[r] # {}
    BY <1>3, <1>4
  <2>2. r \in Located
    BY <1>0, <2>1, EmptySeq DEF IsForest
  <2> QED
    BY <1>0, <1>4, <2>2 DEF IsForest
<1> QED
  BY <1>1, <1>2, <1>3, <1>4

\* An item with a planned ancestor is inside one whose own action stays: the
\* outermost planned one has no planned ancestor itself.
LEMMA Topmost ==
  ASSUME IInv, NEW r \in Refs, HasPlannedAncestor(r)
  PROVE  \E k \in DOMAIN above[r] :
           /\ above[r][k] \in Located /\ Inside(PathOf(r), PathOf(above[r][k]))
           /\ above[r][k] \in Planned /\ ~HasPlannedAncestor(above[r][k])
           /\ \E d \in Kept : above[r][k] \in d.items
<1> DEFINE K == {k \in DOMAIN above[r] : above[r][k] \in Planned}
<1>0. IsForest
  BY DEF IInv
<1>1. DOMAIN above[r] = 1..Len(above[r]) /\ Len(above[r]) \in Nat
  BY AncestorsHold
<1>2. Ancestors(r) = {above[r][k] : k \in DOMAIN above[r]}
  BY AncestorsHold
<1>3. K # {}
  BY <1>2 DEF HasPlannedAncestor
<1>4. K \subseteq Nat
  BY <1>1
<1>5. PICK k \in K : \A m \in K : k <= m
  BY <1>3, <1>4, Least
<1> DEFINE a == above[r][k]
<1>6. a \in Ancestors(r) /\ a \in Planned /\ k \in 1..Len(above[r])
  BY <1>1, <1>2, <1>5
<1>7. a \in Located /\ Inside(PathOf(r), PathOf(a))
  BY <1>6, AncestorsHold
<1>8. ~HasPlannedAncestor(a)
  <2>1. Ancestors(a) = {above[r][m] : m \in 1..(k - 1)}
    BY <1>0, <1>5 DEF IsForest
  <2>2. 1..(k - 1) \subseteq 1..Len(above[r]) /\ \A m \in 1..(k - 1) : ~(k <= m)
    BY <1>1, <1>6
  <2>3. \A m \in 1..(k - 1) : above[r][m] \notin Planned
    BY <1>1, <1>5, <2>2
  <2> QED
    BY <2>1, <2>3 DEF HasPlannedAncestor
<1>9. PICK d \in drafts : a \in d.items
  BY <1>6 DEF Planned
<1>10. d \in Kept
  BY <1>8, <1>9 DEF Kept, Uncovered
<1> QED
  BY <1>5, <1>6, <1>7, <1>8, <1>9, <1>10

\* The first item of a draft is one of its items.
LEMMA FirstIsItem ==
  ASSUME IInv, NEW d \in drafts
  PROVE  FirstItem(d) \in d.items
<1> DEFINE T == {r[2] : r \in d.items}
<1>1. d.items # {} /\ d.items \subseteq Refs
  BY PlannedRefs
<1>2. \A r \in d.items : r[2] \in Nat
  BY <1>1, ScanTyped DEF IInv
<1>3. T # {} /\ T \subseteq Nat
  BY <1>1, <1>2
<1>4. PICK k \in T : \A m \in T : k <= m
  BY <1>3, Least
<1>5. PICK r \in d.items : r[2] = k
  BY <1>4
<1>6. \A q \in d.items : r[2] <= q[2]
  BY <1>4, <1>5
<1> QED
  BY <1>5, <1>6 DEF FirstItem

\* The item a nested skip names is deleted, and holds the item skipped.
LEMMA CoverRight ==
  ASSUME IInv, NEW d \in drafts \ Kept
  PROVE  Covers(NestedSkip(d))
<1> DEFINE r == FirstItem(d)  s == NestedSkip(d)  c == RunningAncestor(r)
           planned == {k \in DOMAIN above[r] : above[r][k] \in Planned}
           running == {k \in planned : \E e \in Kept : above[r][k] \in e.items}
<1>1. r \in d.items /\ r \in Refs /\ r \in RefsOf(d.rule)
  BY FirstIsItem, PlannedRefs
<1>2. HasPlannedAncestor(r)
  BY <1>1 DEF Kept, Uncovered
<1>3. running # {}
  BY <1>1, <1>2, Topmost
<1>4. running \subseteq 0..Len(above[r]) /\ Len(above[r]) \in Nat
  BY <1>1, AncestorsHold
<1>5. Max(running) \in running
  <2> HIDE DEF running, r
  <2> QED
    BY <1>3, <1>4, Greatest
<1>6. c = above[r][Max(running)]
  BY <1>3 DEF RunningAncestor
<1>7. \E e \in Kept : c \in e.items
  BY <1>5, <1>6
<1>8. Inside(PathOf(r), PathOf(c))
  <2>1. c \in Ancestors(r)
    BY <1>1, <1>5, <1>6, AncestorsHold, ZenonT(30)
  <2> QED
    BY <1>1, <2>1, AncestorsHold
<1>9. s.rule = d.rule /\ s.cover = c /\ s.item = IF PerItem(d.rule) THEN r[2] ELSE WholeRule
  BY DEF NestedSkip
<1>10. r[1] = d.rule
  BY <1>1 DEF RefsOf
<1> HIDE DEF r, s, c
<1> QED
  BY <1>1, <1>7, <1>8, <1>9, <1>10 DEF Covers, s

\* What is said of drafts depends on the scan, the forest and the selection.
LEMMA DraftsKept ==
  ASSUME UNCHANGED <<findings, above, selected>>
  PROVE  \A d : (DraftOK(d)' <=> DraftOK(d)) /\ (Partial(d)' <=> Partial(d))
<1> SUFFICES ASSUME NEW d PROVE (DraftOK(d)' <=> DraftOK(d)) /\ (Partial(d)' <=> Partial(d))
  OBVIOUS
<1>1. \A i : RefsOf(i)' = RefsOf(i) /\ (PerItem(i)' <=> PerItem(i)) /\ (Actionable(i)' <=> Actionable(i))
  BY DEF RefsOf, PerItem, RuleOf, Actionable
<1>2. \A i : Picked(i)' = Picked(i)
  BY DEF Picked, RefsOf, Id, ItemAt
<1>3. \A r : SurfaceOnlyConflicts(r)' = SurfaceOnlyConflicts(r)
  BY DEF SurfaceOnlyConflicts, Descendants, SharesPath, Ancestors, Refs, RefsOf, ItemAt, Actionable, RuleOf
<1>4. \A i, refs : Draft(i, refs)' = Draft(i, refs)
  BY DEF Draft, RuleOf
<1>5. \A i : PartialPick(i)' <=> PartialPick(i)
  BY <1>1, <1>2 DEF PartialPick
<1>6. Partial(d)' <=> Partial(d)
  BY <1>1, <1>2, <1>5 DEF Partial
<1> QED
  BY <1>1, <1>2, <1>3, <1>4, <1>6 DEF DraftOK

\* What stays, and what it covers and lists, depends on the drafts, too.
LEMMA NestingKept ==
  ASSUME UNCHANGED <<findings, above, drafts>>
  PROVE  /\ Kept' = Kept
         /\ \A d : Listed(d)' = Listed(d)
         /\ \A s : Covers(s)' <=> Covers(s)
         /\ \A a, d : ActsFor(a, d)' <=> ActsFor(a, d)
<1>1. \A d : Uncovered(d)' = Uncovered(d)
  BY DEF Uncovered, HasPlannedAncestor, Ancestors, Planned
<1>2. Kept' = Kept
  BY <1>1 DEF Kept
<1>3. \A r : UnplannedInside(r)' = UnplannedInside(r)
  BY DEF UnplannedInside, SharesPath, Descendants, Ancestors, Planned, Refs, RefsOf, ItemAt
<1>4. \A d : Listed(d)' = Listed(d)
  BY <1>1, <1>3 DEF Listed
<1>5. Refs' = Refs /\ \A r, q : Inside(PathOf(r), PathOf(q))' <=> Inside(PathOf(r), PathOf(q))
  BY DEF Refs, RefsOf, PathOf, ItemAt
<1>6. \A s : Covers(s)' <=> Covers(s)
  BY <1>2, <1>5 DEF Covers
<1> QED
  BY <1>2, <1>4, <1>6 DEF ActsFor

LEMMA InitInv == Init => IInv
<1> SUFFICES ASSUME Init PROVE IInv
  OBVIOUS
<1>1. Scanned /\ next = 1 /\ phase = "scanned" /\ drafts = {} /\ skipped = {}
  BY DEF Init, Scanned
<1>4. IsForest
  BY <1>1, BuildForestRight DEF Init
<1>2. Drafted
  BY <1>1, ScanTyped DEF Drafted, Selected
<1>3. Unplanned /\ Resolved /\ Truthful /\ OneEach
  BY <1>1 DEF Init, Unplanned, Resolved, PlanActions, Truthful, OneEach
<1> QED
  BY <1>1, <1>2, <1>3, <1>4 DEF IInv

LEMMA BuildPlanInv == IInv /\ BuildPlan => IInv'
<1> SUFFICES ASSUME IInv, BuildPlan PROVE IInv'
  OBVIOUS
<1>1. /\ UNCHANGED <<findings, options, above, next, drafts, skipped, actions>>
      /\ phase = "scanned" /\ phase' = "drafting" /\ next = 1 /\ drafts = {}
  BY DEF BuildPlan, IInv
<1>2. Scanned' /\ IsForest' /\ next' \in Nat
  BY <1>1, ForestKept DEF IInv, Scanned
<1>3. \A d \in drafts' : DraftOK(d)'
  BY <1>1 DEF IInv
<1>4. Drafted'
  <2>1. Refs' = Refs
    BY <1>1 DEF Refs, RefsOf
  <2>2. \A r \in Refs : r[1] \in Nat \ {0}
    BY ScanTyped DEF IInv
  <2> QED
    BY <1>1, <2>1, <2>2 DEF Drafted, Selected
<1>5. Unplanned' /\ Resolved' /\ Truthful' /\ OneEach'
  BY <1>1 DEF IInv, Unplanned, Resolved, PlanActions, Truthful, OneEach
<1> QED
  BY <1>1, <1>2, <1>3, <1>4, <1>5 DEF IInv

LEMMA DraftRuleInv == IInv /\ DraftRule => IInv'
<1> SUFFICES ASSUME IInv, DraftRule PROVE IInv'
  OBVIOUS
<1> DEFINE res == RuleDrafts(next)
<1>1. /\ UNCHANGED <<findings, selected, options, above, actions, phase>>
      /\ phase = "drafting" /\ next \in DOMAIN findings /\ next' = next + 1
      /\ drafts' = drafts \cup res.drafts /\ skipped' = skipped \cup res.skips
  BY DEF DraftRule
<1>2. Right(next, res)
  BY <1>1, DraftsRight DEF IInv
<1> HIDE DEF res
<1>3. Scanned' /\ IsForest' /\ next' \in Nat
  BY <1>1, ForestKept DEF IInv, Scanned
<1>4. \A d \in drafts' : DraftOK(d)'
  <2>1. \A d \in drafts' : DraftOK(d)
    BY <1>1, <1>2 DEF IInv, Right
  <2>2. \A d : DraftOK(d)' <=> DraftOK(d)
    BY <1>1, DraftsKept
  <2> QED
    BY <2>1, <2>2
<1>5. Drafted'
  <2> SUFFICES ASSUME NEW r \in Selected', r[1] < next' PROVE PickOK(r)'
    BY DEF Drafted
  <2>1. Selected' = Selected
    BY <1>1 DEF Selected, Refs, RefsOf, Picked, Id, ItemAt
  <2>2. r \in Refs /\ r \in Picked(r[1]) /\ r[1] \in Nat /\ next \in Nat
    BY <2>1, ScanTyped DEF Selected, IInv
  <2>3. CASE r[1] < next
    <3>1. PickOK(r)
      BY <2>1, <2>3 DEF IInv, Drafted
    <3> QED
      BY <3>1, <1>1 DEF PickOK, Planned, Refuses
  <2>4. CASE r[1] = next
    <3>1. (\E d \in res.drafts : r \in d.items) \/ \E s \in res.skips : Refuses(s, r)
      BY <1>2, <2>2, <2>4 DEF Right
    <3> QED
      BY <3>1, <1>1 DEF PickOK, Planned, Refuses
  <2> QED
    BY <1>1, <2>2, <2>3, <2>4
<1>6. Unplanned' /\ Resolved' /\ Truthful' /\ OneEach'
  BY <1>1, <1>2 DEF IInv, Unplanned, Resolved, PlanActions, Truthful, OneEach, Right
<1>7. \A s \in skipped' : Partial(s)'
  <2>1. \A s \in skipped' : Partial(s)
    BY <1>1, <1>2 DEF IInv, Right
  <2> QED
    BY <1>1, <2>1, DraftsKept
<1> QED
  BY <1>1, <1>3, <1>4, <1>5, <1>6, <1>7 DEF IInv

LEMMA ResolveInv == IInv /\ ResolveNesting => IInv'
<1> SUFFICES ASSUME IInv, ResolveNesting PROVE IInv'
  OBVIOUS
<1> DEFINE named == {NestedSkip(d) : d \in drafts \ Kept}
<1> DEFINE plan == Actions
<1>1. /\ UNCHANGED <<findings, selected, options, above, next, drafts>>
      /\ phase' = "planned" /\ next > Len(findings)
      /\ actions' = plan /\ skipped' = skipped \cup named
  BY DEF ResolveNesting
<1>2. plan.first \cup plan.rest = {Action(d) : d \in Kept}
  BY DEF Actions, Kept
<1>3. \A d \in drafts \ Kept : \E s \in named : /\ s.rule = d.rule /\ s.why = "inside"
                                         /\ s.item = IF PerItem(d.rule) THEN FirstItem(d)[2] ELSE WholeRule
  BY NestedSkipFields
<1> HIDE DEF named, plan
<1>4. Scanned' /\ IsForest' /\ next' \in Nat
  BY <1>1, ForestKept DEF IInv, Scanned
<1>5. \A d \in drafts' : DraftOK(d)'
  BY <1>1, DraftsKept DEF IInv
<1>6. Drafted'
  <2>1. Selected' = Selected
    BY <1>1 DEF Selected, Refs, RefsOf, Picked, Id, ItemAt
  <2> QED
    BY <1>1, <2>1 DEF IInv, Drafted, PickOK, Planned, Refuses
<1>7. Kept' = Kept
  BY <1>1, NestingKept
<1>8. Acted' = UNION {d.items : d \in Kept}
  <2>1. Acted' = UNION {a.items : a \in {Action(d) : d \in Kept}}
    BY <1>1, <1>2 DEF Acted, PlanActions
  <2> QED
    BY <2>1, ActionFields
<1>9. \A d \in drafts' \ Kept' : NamesDropped(d)'
  BY <1>1, <1>3, <1>7 DEF NamesDropped, PerItem, RuleOf, FirstItem
<1>10. Unplanned' /\ Resolved'
  BY <1>1, <1>7, <1>8, <1>9 DEF Unplanned, Resolved
<1>11. Truthful'
  <2> SUFFICES ASSUME NEW s \in skipped', s.why = "inside" PROVE Covers(s)
    BY <1>1, NestingKept DEF Truthful
  <2>1. s \notin skipped
    BY <1>1 DEF IInv, Truthful, ResolveNesting
  <2>2. PICK d \in drafts \ Kept : s = NestedSkip(d)
    BY <1>1, <2>1 DEF named
  <2> QED
    BY <2>2, CoverRight
<1>12. OneEach'
  <2>1. PlanActions' = {Action(d) : d \in Kept}
    BY <1>1, <1>2 DEF PlanActions
  <2>2. \A d \in Kept : ActsFor(Action(d), d)
    BY ActionFields DEF ActsFor
  <2>3. ASSUME NEW d \in Kept, NEW e \in Kept, Action(d).rule = Action(e).rule, Action(d).items = Action(e).items
        PROVE  d = e
    <3>1. d.rule = e.rule /\ d.items = e.items
      BY <2>3, ActionFields
    <3>2. DraftOK(d) /\ DraftOK(e)
      BY DEF IInv, Kept
    <3> QED
      BY <3>1, <3>2 DEF DraftOK
  <2> QED
    BY <1>1, <1>7, <2>1, <2>2, <2>3, NestingKept DEF OneEach
<1>13. \A s \in skipped' : Partial(s)'
  <2>1. \A s \in named : Partial(s)
    BY NestedSkipFields DEF named, Partial
  <2>2. \A s \in skipped : Partial(s)
    BY DEF IInv
  <2> QED
    BY <1>1, <2>1, <2>2, DraftsKept
<1> QED
  BY <1>1, <1>4, <1>5, <1>6, <1>10, <1>11, <1>12, <1>13 DEF IInv

LEMMA StutterInv == IInv /\ UNCHANGED vars => IInv'
<1> SUFFICES ASSUME IInv, UNCHANGED vars PROVE IInv'
  OBVIOUS
<1>1. UNCHANGED <<findings, selected, options, above, next, drafts, skipped, actions, phase>>
  BY DEF vars
<1>2. Scanned' /\ IsForest' /\ next' \in Nat
  BY <1>1, ForestKept DEF IInv, Scanned
<1>3. \A d \in drafts' : DraftOK(d)'
  BY <1>1, DraftsKept DEF IInv
<1>4. Drafted'
  <2>1. Selected' = Selected
    BY <1>1 DEF Selected, Refs, RefsOf, Picked, Id, ItemAt
  <2> QED
    BY <1>1, <2>1 DEF IInv, Drafted, PickOK, Planned, Refuses
<1>5. Unplanned' /\ Acted' = Acted
  BY <1>1 DEF IInv, Unplanned, PlanActions, Acted
<1>6. Kept' = Kept
  BY <1>1, NestingKept
<1>7. \A d : NamesDropped(d)' = NamesDropped(d)
  BY <1>1 DEF NamesDropped, PerItem, RuleOf, FirstItem
<1>8. Resolved'
  BY <1>1, <1>5, <1>6, <1>7 DEF IInv, Resolved
<1>9. Truthful'
  BY <1>1, <1>6, NestingKept DEF IInv, Truthful
<1>10. OneEach'
  <2>1. PlanActions' = PlanActions
    BY <1>1 DEF PlanActions
  <2> QED
    BY <1>1, <1>6, <2>1, NestingKept DEF IInv, OneEach
<1>11. \A s \in skipped' : Partial(s)'
  BY <1>1, DraftsKept DEF IInv
<1> QED
  BY <1>1, <1>2, <1>3, <1>4, <1>5, <1>8, <1>9, <1>10, <1>11 DEF IInv

\* IInv is inductive, so it holds of every plan being built.
THEOREM Invariance == Spec => []IInv
<1>1. IInv /\ [Next]_vars => IInv'
  BY StutterInv, BuildPlanInv, DraftRuleInv, ResolveInv DEF Next
<1> QED
  BY <1>1, InitInv, PTL DEF Spec

\* Whatever the scan, the one walk over the sorted items finds the exact
\* containment of their paths, and it stays so while the plan is made
\* (buildForest).
THEOREM ForestIsExact == Spec => []ForestExact
<1>1. IInv => ForestExact
  BY DEF IInv, ForestExact
<1> QED
  BY <1>1, Invariance, PTL

----------------------------------------------------------------------------
(* What the plan never does, and never forgets. *)

LEMMA ActedPlanned ==
  ASSUME IInv, NEW r \in Acted
  PROVE  \E d \in Kept : r \in d.items /\ DraftOK(d)
<1>1. phase = "planned"
  BY DEF IInv, Unplanned, Acted
<1>2. Acted = UNION {d.items : d \in Kept}
  BY <1>1 DEF IInv, Resolved
<1> QED
  BY <1>2 DEF IInv, Kept

\* Whatever the scan, the selection and the face, no action of the plan deletes
\* a surface-only item, holds one, or shares its path with one.
THEOREM SurfaceOnlySafe == Spec => []NeverSurfaceOnly
<1>1. IInv => NeverSurfaceOnly
  <2> SUFFICES ASSUME IInv, NEW r \in Acted
               PROVE  /\ Actionable(r[1])
                      /\ \A s \in Located : ~Actionable(s[1]) /\ r \in Located => ~Inside(PathOf(s), PathOf(r))
    BY DEF NeverSurfaceOnly
  <2>1. Actionable(r[1]) /\ SurfaceOnlyConflicts(r) = {}
    BY ActedPlanned DEF DraftOK
  <2>2. ASSUME NEW s \in Located, ~Actionable(s[1]), r \in Located, Inside(PathOf(s), PathOf(r)) PROVE FALSE
    <3>1. r # s
      BY <2>1, <2>2
    <3>2. s \in Descendants(r) \cup SharesPath(r)
      BY <2>2, <3>1, InsideIsBelow DEF IInv
    <3> QED
      BY <2>1, <2>2, <3>2 DEF SurfaceOnlyConflicts
  <2> QED
    BY <2>1, <2>2
<1> QED
  BY <1>1, Invariance, PTL

\* An item with a planned ancestor is inside something the plan deletes.
LEMMA Covered ==
  ASSUME IInv, phase = "planned", NEW r \in Planned, HasPlannedAncestor(r)
  PROVE  \E a \in Acted \cap Located : Inside(PathOf(r), PathOf(a))
<1>1. r \in Refs
  BY PlannedRefs
<1>2. PICK k \in DOMAIN above[r] :
        /\ above[r][k] \in Located /\ Inside(PathOf(r), PathOf(above[r][k]))
        /\ \E d \in Kept : above[r][k] \in d.items
  BY <1>1, Topmost
<1> QED
  BY <1>2 DEF IInv, Resolved

\* Whatever was picked is deleted, or a skip says why not, and one that says
\* "inside" is inside something the plan deletes.
THEOREM PicksAnswered == Spec => []EveryPickAnswered
<1>1. IInv => EveryPickAnswered
  <2> SUFFICES ASSUME IInv, phase = "planned", NEW i \in DOMAIN findings, NEW r \in Picked(i)
               PROVE  \/ r \in Acted
                      \/ \E s \in skipped :
                           /\ s.rule = i /\ s.item \in {WholeRule, r[2]}
                           /\ s.why = "inside" => \E a \in Acted \cap Located : Inside(PathOf(r), PathOf(a))
    BY DEF EveryPickAnswered
  <2>1. r \in RefsOf(i) /\ r[1] = i /\ r \in Selected
    BY DEF Picked, RefsOf, Selected, Refs
  <2>2. i < next
    <3>1. findings \in Seq([rule : Rule, items : Seq([path : Seq(Nat), key : Seq(Nat)]), failed : BOOLEAN])
      BY PlannerAssumption DEF IInv, Scanned
    <3>2. Len(findings) \in Nat /\ DOMAIN findings = 1..Len(findings)
      BY <3>1, LenProperties
    <3>3. next > Len(findings) /\ next \in Nat
      BY DEF IInv, Resolved
    <3> QED
      BY <3>2, <3>3
  <2>3. PickOK(r)
    BY <2>1, <2>2 DEF IInv, Drafted
  <2>4. CASE \E s \in skipped : Refuses(s, r)
    BY <2>1, <2>4 DEF Refuses
  <2>5. CASE r \in Planned
    <3>1. PICK d \in drafts : r \in d.items /\ DraftOK(d)
      BY <2>5 DEF Planned, IInv
    <3>2. CASE d \in Kept
      BY <3>1, <3>2 DEF IInv, Resolved
    <3>3. CASE d \notin Kept
      <4>1. NamesDropped(d)
        BY <3>3 DEF IInv, Resolved
      <4>2. d.rule = i
        BY <2>1, <3>1 DEF DraftOK, RefsOf
      <4>3. PerItem(d.rule) => FirstItem(d) = r
        BY <3>1 DEF DraftOK, FirstItem
      <4>4. HasPlannedAncestor(r)
        BY <3>1, <3>3 DEF Kept, Uncovered
      <4>5. \E a \in Acted \cap Located : Inside(PathOf(r), PathOf(a))
        BY <2>5, <4>4, Covered
      <4> QED
        BY <4>1, <4>2, <4>3, <4>5 DEF NamesDropped
    <3> QED
      BY <3>2, <3>3
  <2> QED
    BY <2>3, <2>4, <2>5 DEF PickOK
<1> QED
  BY <1>1, Invariance, PTL

\* A skip names something the plan deletes, and which holds the item skipped.
LEMMA SkipsRight == IInv => SkipNamesWhatRuns
<1> SUFFICES ASSUME IInv, NEW s \in skipped, s.why = "inside"
             PROVE  /\ s.cover \in Acted
                    /\ \E r \in Refs : /\ r[1] = s.rule /\ s.item \in {WholeRule, r[2]}
                                      /\ Inside(PathOf(r), PathOf(s.cover))
  BY DEF SkipNamesWhatRuns
<1>1. phase = "planned" /\ Covers(s)
  BY DEF IInv, Truthful
<1>2. Acted = UNION {d.items : d \in Kept}
  BY <1>1 DEF IInv, Resolved
<1> QED
  BY <1>1, <1>2 DEF Covers

\* No two drafts have an item in common.
LEMMA DraftsApart ==
  ASSUME IInv, NEW d \in drafts, NEW e \in drafts, NEW r \in d.items, r \in e.items
  PROVE  d = e
<1>1. DraftOK(d) /\ DraftOK(e)
  BY DEF IInv
<1>2. d.rule = e.rule
  BY <1>1 DEF DraftOK, RefsOf
<1>3. d.items = e.items
  BY <1>1, <1>2 DEF DraftOK
<1> QED
  BY <1>1, <1>2, <1>3 DEF DraftOK

\* A located item is inside itself.
LEMMA InsideSelf ==
  ASSUME Scanned, NEW r \in Refs
  PROVE  Inside(PathOf(r), PathOf(r))
BY NodeOrder, PrefixOrder DEF Inside

\* What an item lists is unplanned and inside it.
LEMMA ListedInside ==
  ASSUME IInv, NEW r \in Refs, NEW v \in UnplannedInside(r)
  PROVE  v \in Located /\ r \in Located /\ v \notin Planned /\ Inside(PathOf(v), PathOf(r))
<1>1. CASE v \in SharesPath(r) \ Planned
  <2>1. v \in Ancestors(r) /\ PathOf(v) = PathOf(r)
    BY <1>1 DEF SharesPath, PathOf
  <2>2. v \in Located /\ r \in Located
    BY <2>1, AncestorsHold
  <2> QED
    BY <1>1, <2>1, <2>2, InsideSelf DEF IInv
<1>2. CASE v \in Descendants(r) \ Planned
  <2>1. v \in Refs /\ r \in Ancestors(v)
    BY <1>2 DEF Descendants
  <2> QED
    BY <1>2, <2>1, AncestorsHold
<1> QED
  BY <1>1, <1>2 DEF UnplannedInside

\* Two items that a plan acts on, and neither is inside another planned one,
\* hold nothing in common.
LEMMA HeldOnce ==
  ASSUME IInv, NEW r \in Located \cap Planned, NEW q \in Located \cap Planned, NEW v \in Located,
         ~HasPlannedAncestor(r), ~HasPlannedAncestor(q),
         Inside(PathOf(v), PathOf(r)), Inside(PathOf(v), PathOf(q))
  PROVE  r = q
<1>1. Located \subseteq Refs /\ Scanned /\ IsForest
  BY DEF Located, IInv
<1>2. ASSUME NEW a \in Located \cap Planned, NEW b \in Located, NodeBefore(a, b),
             Inside(PathOf(v), PathOf(a)), Inside(PathOf(v), PathOf(b))
      PROVE  HasPlannedAncestor(b)
  <2>1. Inside(PathOf(b), PathOf(a))
    BY <1>1, <1>2, InsideChain
  <2>2. a # b
    BY <1>1, <1>2, NodeOrder
  <2>3. a \in Ancestors(b)
    BY <1>1, <1>2, <2>1, <2>2 DEF IsForest
  <2> QED
    BY <2>3 DEF HasPlannedAncestor
<1>3. ~NodeBefore(r, q) /\ ~NodeBefore(q, r)
  BY <1>2
<1> QED
  BY <1>1, <1>3, NodeOrder

\* What is inside a planned item, and not planned, is inside what that lists:
\* the outermost unplanned item between the two, or the item itself.
LEMMA ListsAll ==
  ASSUME IInv, NEW r \in Located \cap Planned, NEW u \in Located \ Planned, Inside(PathOf(u), PathOf(r))
  PROVE  \E v \in UnplannedInside(r) : Inside(PathOf(u), PathOf(v))
<1>1. Located \subseteq Refs /\ Scanned /\ IsForest
  BY DEF Located, IInv
<1>2. u \in Descendants(r) \cup SharesPath(r)
  BY <1>1, InsideIsBelow
<1>3. CASE u \in SharesPath(r)
  <2>1. u \in UnplannedInside(r)
    BY <1>3 DEF UnplannedInside
  <2> QED
    BY <2>1, <1>1, InsideSelf
<1>4. CASE u \in Descendants(r)
  <2> DEFINE s == above[u]
             T == {m \in DOMAIN s : s[m] \notin Planned /\ r \in Ancestors(s[m])}
  <2>1. DOMAIN s = 1..Len(s) /\ Len(s) \in Nat /\ Ancestors(u) = {s[k] : k \in DOMAIN s}
    BY <1>1, AncestorsHold
  <2>2. CASE T = {}
    <3>1. \A a \in Ancestors(u) : r \in Ancestors(a) => a \in Planned
      BY <2>1, <2>2
    <3>2. u \in UnplannedInside(r)
      BY <1>4, <3>1 DEF UnplannedInside
    <3> QED
      BY <3>2, <1>1, InsideSelf
  <2>3. CASE T # {}
    <3>1. T \subseteq Nat
      BY <2>1
    <3>2. PICK k \in T : \A m \in T : k <= m
      BY <2>3, <3>1, Least
    <3> DEFINE v == s[k]
    <3>3. k \in 1..Len(s) /\ v \notin Planned /\ r \in Ancestors(v) /\ v \in Ancestors(u)
      BY <2>1, <3>2
    <3>4. v \in Located /\ Inside(PathOf(u), PathOf(v))
      BY <1>1, <3>3, AncestorsHold
    <3>5. Ancestors(v) = {s[m] : m \in 1..(k - 1)}
      BY <1>1, <2>1, <3>3 DEF IsForest
    <3>6. 1..(k - 1) \subseteq 1..Len(s) /\ \A m \in 1..(k - 1) : ~(k <= m)
      BY <2>1, <3>3
    <3>7. \A m \in 1..(k - 1) : r \in Ancestors(s[m]) => s[m] \in Planned
      BY <2>1, <3>2, <3>6
    <3>8. v \in Descendants(r)
      BY <1>1, <3>3, <3>4 DEF Descendants
    <3>9. v \in UnplannedInside(r)
      BY <3>3, <3>5, <3>7, <3>8 DEF UnplannedInside
    <3> QED
      BY <3>4, <3>9
  <2> QED
    BY <2>2, <2>3
<1> QED
  BY <1>2, <1>3, <1>4

LEMMA IncludesRight == IInv => IncludesExact
<1> SUFFICES ASSUME IInv, phase = "planned" PROVE IncludesExact
  BY DEF IncludesExact
<1>1. Located \subseteq Refs /\ Scanned
  BY DEF Located, IInv
<1>2. /\ \A a \in PlanActions : \E d \in Kept : ActsFor(a, d)
      /\ \A d \in Kept : \E a \in PlanActions : ActsFor(a, d)
      /\ \A a, b \in PlanActions : a.rule = b.rule /\ a.items = b.items => a = b
  BY DEF IInv, OneEach
<1>3. \A d \in Kept : d \in drafts /\ \A r \in Uncovered(d) :
         r \in Refs /\ r \in d.items /\ r \in Planned /\ ~HasPlannedAncestor(r)
  <2>1. \A d \in Kept : d \in drafts
    BY DEF Kept
  <2>2. \A d \in Kept : \A r \in Uncovered(d) : r \in d.items /\ ~HasPlannedAncestor(r)
    BY DEF Uncovered
  <2>3. \A d \in drafts : d.items \subseteq Refs \cap Planned
    BY PlannedRefs
  <2> QED
    BY <2>1, <2>2, <2>3
<1>4. ASSUME NEW a \in PlanActions, NEW v \in a.includes
      PROVE  \E d \in Kept : ActsFor(a, d) /\ \E r \in Uncovered(d) : v \in UnplannedInside(r)
  <2>1. PICK d \in Kept : ActsFor(a, d)
    BY <1>2
  <2> QED
    BY <2>1 DEF ActsFor, Listed
<1>5. ASSUME NEW a \in PlanActions, NEW v \in a.includes
      PROVE  v \notin Planned /\ \E r \in a.items \cap Located : Inside(PathOf(v), PathOf(r))
  <2>1. PICK d \in Kept : ActsFor(a, d) /\ \E r \in Uncovered(d) : v \in UnplannedInside(r)
    BY <1>4, <1>5
  <2>2. PICK r \in Uncovered(d) : v \in UnplannedInside(r)
    BY <2>1
  <2>3. r \in Refs /\ r \in a.items
    BY <1>3, <2>1, <2>2 DEF ActsFor
  <2> QED
    BY <2>2, <2>3, ListedInside
<1>6. ASSUME NEW a \in PlanActions, NEW b \in PlanActions, NEW v \in a.includes, v \in b.includes
      PROVE  a = b
  <2>1. PICK d \in Kept : ActsFor(a, d) /\ \E r \in Uncovered(d) : v \in UnplannedInside(r)
    BY <1>4, <1>6
  <2>2. PICK r \in Uncovered(d) : v \in UnplannedInside(r)
    BY <2>1
  <2>3. PICK e \in Kept : ActsFor(b, e) /\ \E q \in Uncovered(e) : v \in UnplannedInside(q)
    BY <1>4, <1>6
  <2>4. PICK q \in Uncovered(e) : v \in UnplannedInside(q)
    BY <2>3
  <2>5. /\ r \in Refs /\ r \in d.items /\ r \in Planned /\ ~HasPlannedAncestor(r)
        /\ q \in Refs /\ q \in e.items /\ q \in Planned /\ ~HasPlannedAncestor(q)
        /\ d \in drafts /\ e \in drafts
    BY <1>3, <2>2, <2>4
  <2>6. /\ v \in Located /\ r \in Located /\ Inside(PathOf(v), PathOf(r))
        /\ q \in Located /\ Inside(PathOf(v), PathOf(q))
    BY <2>2, <2>4, <2>5, ListedInside
  <2>7. r = q
    BY <2>5, <2>6, HeldOnce
  <2>8. d = e
    BY <2>5, <2>7, DraftsApart
  <2> QED
    BY <1>2, <2>1, <2>3, <2>8 DEF ActsFor
<1>7. ASSUME NEW u \in Located \ Planned, NEW r \in Acted \cap Located, Inside(PathOf(u), PathOf(r))
      PROVE  \E a \in PlanActions : \E v \in a.includes : Inside(PathOf(u), PathOf(v))
  <2>1. PICK d \in Kept : r \in d.items
    BY <1>7 DEF IInv, Resolved
  <2>2. \E q \in Located \cap Planned : /\ Inside(PathOf(u), PathOf(q)) /\ ~HasPlannedAncestor(q)
                                        /\ \E e \in Kept : q \in e.items
    <3>1. r \in Planned
      BY <2>1 DEF Kept, Planned
    <3>2. CASE ~HasPlannedAncestor(r)
      BY <1>7, <2>1, <3>1, <3>2
    <3>3. CASE HasPlannedAncestor(r)
      <4>1. PICK k \in DOMAIN above[r] :
              /\ above[r][k] \in Located /\ Inside(PathOf(r), PathOf(above[r][k]))
              /\ above[r][k] \in Planned /\ ~HasPlannedAncestor(above[r][k])
              /\ \E e \in Kept : above[r][k] \in e.items
        BY <1>1, <3>3, Topmost
      <4>2. Inside(PathOf(u), PathOf(above[r][k]))
        BY <1>1, <1>7, <4>1, InsideTrans
      <4> QED
        BY <4>1, <4>2
    <3> QED
      BY <3>2, <3>3
  <2>3. PICK q \in Located \cap Planned : /\ Inside(PathOf(u), PathOf(q)) /\ ~HasPlannedAncestor(q)
                                          /\ \E e \in Kept : q \in e.items
    BY <2>2
  <2>4. PICK e \in Kept : q \in e.items
    BY <2>3
  <2>5. PICK v \in UnplannedInside(q) : Inside(PathOf(u), PathOf(v))
    BY <2>3, ListsAll
  <2>6. q \in Uncovered(e)
    BY <2>3, <2>4 DEF Uncovered
  <2>7. v \in Listed(e)
    BY <2>5, <2>6 DEF Listed
  <2>8. PICK a \in PlanActions : ActsFor(a, e)
    BY <1>2
  <2> QED
    BY <2>5, <2>7, <2>8 DEF ActsFor
<1> QED
  BY <1>5, <1>6, <1>7 DEF IncludesExact

\* Whatever the scan, the selection and the face: a skip names something the
\* plan deletes and which holds the item skipped, and Includes names exactly
\* what else goes, each thing in one action (runningAncestor, unplannedInside).
THEOREM PlanIsHonest == Spec => []PlanSaysTrue
<1>1. IInv => PlanSaysTrue
  BY SkipsRight, IncludesRight DEF PlanSaysTrue
<1> QED
  BY <1>1, Invariance, PTL

----------------------------------------------------------------------------
(* What the faces offer. *)

LEMMA IdParts == \A r, q : Id(r) = Id(q) => r[1] = q[1] /\ ItemAt(r).key = ItemAt(q).key
  BY DEF Id

LEMMA RefParts ==
  ASSUME Scanned, NEW r \in Refs
  PROVE  r \in RefsOf(r[1]) /\ r[1] \in DOMAIN findings /\ findings[r[1]].items # <<>>
<1>1. PICK i \in DOMAIN findings : \E j \in DOMAIN findings[i].items : r = <<i, j>>
  BY DEF Refs, RefsOf
<1>2. r[1] = i
  BY <1>1
<1>3. DOMAIN <<>> = {}
  OBVIOUS
<1>4. findings[i].items # <<>>
  BY <1>1, <1>3
<1> QED
  BY <1>2, <1>4, ScanTyped

\* What is read of an item depends on its path and its key, which items of one
\* rule share together.
LEMMA SameKeyRead ==
  ASSUME Scanned, NEW r \in Refs, NEW q \in Refs, Id(r) = Id(q), ~Unreadable(ItemAt(q))
  PROVE  ~Unreadable(ItemAt(r))
<1>1. r[1] = q[1] /\ ItemAt(r).key = ItemAt(q).key
  BY IdParts
<1>2. r \in RefsOf(r[1]) /\ q \in RefsOf(q[1]) /\ r[1] \in DOMAIN findings
  BY RefParts
<1>3. r[2] \in DOMAIN findings[r[1]].items /\ q[2] \in DOMAIN findings[r[1]].items
  BY <1>1, <1>2 DEF RefsOf
<1>4. ItemAt(r).path = ItemAt(q).path
  BY <1>1, <1>2, <1>3, PlannerAssumption DEF Scanned, ItemAt
<1> QED
  BY <1>1, <1>4 DEF Unreadable, Readable, Holds

\* The rows of the safe rules, ticked, are where every face starts.
LEMMA DefaultIsRows ==
  ASSUME Scanned
  PROVE  {r \in Refs : r[1] \in DefaultSelection.rules \/ Id(r) \in DefaultSelection.items} = RowsOfSafeRules
<1> DEFINE offered == {i \in DOMAIN findings : /\ findings[i].rule.risk = "safe" /\ ~findings[i].failed
                                               /\ findings[i].items # <<>>}
<1>1. /\ DefaultSelection.rules = {i \in offered : AllRead(i)}
      /\ DefaultSelection.items = UNION {{Id(r) : r \in ReadRefs(i)} : i \in {q \in offered : ~AllRead(q) /\ PerItem(q)}}
  BY DEF DefaultSelection
<1> HIDE DEF offered
<1> SUFFICES ASSUME NEW r \in Refs
             PROVE  (r[1] \in DefaultSelection.rules \/ Id(r) \in DefaultSelection.items) <=>
                      /\ RuleOf(r[1]).risk = "safe"
                      /\ r[1] \in Selectable(r[1]).rules \/ Id(r) \in Selectable(r[1]).items
  BY DEF RowsOfSafeRules
<1> DEFINE i == r[1]  ids == {Id(q) : q \in ReadRefs(i)}
<1>2. r \in RefsOf(i) /\ i \in DOMAIN findings /\ findings[i].items # <<>>
  BY RefParts
<1>3. i \in offered <=> RuleOf(i).risk = "safe" /\ ~findings[i].failed
  BY <1>2 DEF offered, RuleOf
<1>4. Id(r) \in DefaultSelection.items <=> i \in offered /\ ~AllRead(i) /\ PerItem(i) /\ Id(r) \in ids
  <2>1. \A j : \A q \in ReadRefs(j) : q[1] = j
    BY DEF ReadRefs, RefsOf
  <2>2. ASSUME NEW j \in offered, ~AllRead(j), PerItem(j), NEW q \in ReadRefs(j), Id(r) = Id(q) PROVE j = i
    BY <2>1, <2>2, IdParts
  <2> QED
    BY <1>1, <2>2
<1>5. ASSUME RuleOf(i).risk # "safe"
      PROVE  ~(i \in DefaultSelection.rules \/ Id(r) \in DefaultSelection.items)
  BY <1>1, <1>3, <1>4, <1>5
<1>6. ASSUME findings[i].failed
      PROVE  /\ ~(i \in DefaultSelection.rules \/ Id(r) \in DefaultSelection.items)
             /\ ~(i \in Selectable(i).rules \/ Id(r) \in Selectable(i).items)
  <2>1. Selectable(i) = Nothing
    BY <1>6 DEF Selectable
  <2> QED
    BY <1>1, <1>3, <1>4, <1>6, <2>1 DEF Nothing
<1>7. ASSUME RuleOf(i).risk = "safe", ~findings[i].failed
      PROVE  (i \in DefaultSelection.rules \/ Id(r) \in DefaultSelection.items) <=>
               (i \in Selectable(i).rules \/ Id(r) \in Selectable(i).items)
  <2>1. i \in offered /\ Actionable(i)
    BY <1>3, <1>7 DEF Actionable, RuleOf
  <2>2. (i \in DefaultSelection.rules \/ Id(r) \in DefaultSelection.items) <=>
          AllRead(i) \/ (PerItem(i) /\ Id(r) \in ids)
    BY <1>1, <1>4, <2>1
  <2>3. CASE PerItem(i) /\ ReadRefs(i) # {}
    <3>1. Selectable(i) = [rules |-> {}, items |-> ids]
      BY <1>2, <1>7, <2>1, <2>3 DEF Selectable
    <3>2. AllRead(i) => Id(r) \in ids
      BY <1>2 DEF AllRead
    <3> QED
      BY <2>2, <2>3, <3>1, <3>2
  <2>4. CASE ~(PerItem(i) /\ ReadRefs(i) # {})
    <3>1. Selectable(i) = [rules |-> IF AllRead(i) THEN {i} ELSE {}, items |-> {}]
      BY <1>2, <1>7, <2>1, <2>4 DEF Selectable
    <3>2. Selectable(i).items = {} /\ (i \in Selectable(i).rules <=> AllRead(i))
      BY <3>1
    <3>3. ~(PerItem(i) /\ Id(r) \in ids)
      BY <2>4
    <3> QED
      BY <2>2, <3>2, <3>3
  <2> QED
    BY <2>3, <2>4
<1> QED
  BY <1>5, <1>6, <1>7

\* Of what is offered, a rule is offered whole only if all of it was read, and
\* an item only if it was, of a rule that acts per item and is not offered too.
LEMMA OfferedRight ==
  ASSUME Scanned, FromOffered
  PROVE  /\ \A i \in selected.rules : i \in DOMAIN findings /\ AllRead(i)
         /\ \A x \in selected.items : \E i \in DOMAIN findings \ selected.rules :
              PerItem(i) /\ \E q \in ReadRefs(i) : x = Id(q)
<1>1. CASE selected = DefaultSelection
  BY <1>1 DEF DefaultSelection
<1>2. CASE selected.rules \subseteq Offered.rules /\ selected.items \subseteq Offered.items
  <2>1. ASSUME NEW i, NEW j \in Selectable(i).rules
        PROVE  j = i /\ AllRead(i) /\ ~(PerItem(i) /\ ReadRefs(i) # {})
    BY <2>1 DEF Selectable, Nothing
  <2>2. ASSUME NEW i, NEW x \in Selectable(i).items
        PROVE  PerItem(i) /\ \E q \in ReadRefs(i) : x = Id(q)
    BY <2>2 DEF Selectable, Nothing
  <2>3. /\ Offered.rules = UNION {Selectable(i).rules : i \in DOMAIN findings}
        /\ Offered.items = UNION {Selectable(i).items : i \in DOMAIN findings}
    BY DEF Offered
  <2>4. \A i \in selected.rules : i \in DOMAIN findings /\ AllRead(i) /\ ~(PerItem(i) /\ ReadRefs(i) # {})
    BY <1>2, <2>1, <2>3
  <2>5. ASSUME NEW x \in selected.items
        PROVE  \E i \in DOMAIN findings : PerItem(i) /\ \E q \in ReadRefs(i) : x = Id(q)
    BY <1>2, <2>2, <2>3, <2>5
  <2> QED
    BY <2>4, <2>5
<1> QED
  BY <1>1, <1>2 DEF FromOffered

\* What a face starts from is what ticking the rows of the safe rules gives; a
\* selection taken from what is offered addresses something with every atom, is
\* refused for no part of a rule, and plans no item nothing of which could be
\* measured (Selectable, DefaultSelection).
THEOREM OffersPlanCleanly == Spec => []OfferedPlans
<1>1. IInv => OfferedPlans
  <2> SUFFICES ASSUME IInv, FromOffered
               PROVE  /\ Unmatched = {}
                      /\ \A s \in skipped : s.why # "partial"
                      /\ \A r \in Planned : ~Unreadable(ItemAt(r))
    <3>1. IInv => Scanned
      BY DEF IInv
    <3> QED
      BY <3>1, DefaultIsRows DEF OfferedPlans
  <2>1. Scanned
    BY DEF IInv
  <2>2. \A i \in selected.rules : i \in DOMAIN findings /\ AllRead(i)
    BY <2>1, OfferedRight
  <2>3. ASSUME NEW x \in selected.items
        PROVE  \E q \in Refs : /\ x = Id(q) /\ q[1] \notin selected.rules /\ PerItem(q[1])
                               /\ ~Unreadable(ItemAt(q))
    <3>1. PICK i \in DOMAIN findings \ selected.rules : PerItem(i) /\ \E q \in ReadRefs(i) : x = Id(q)
      BY <2>1, <2>3, OfferedRight
    <3>2. PICK q \in ReadRefs(i) : x = Id(q)
      BY <3>1
    <3>3. q \in RefsOf(i) /\ ~Unreadable(ItemAt(q)) /\ q[1] = i
      BY <3>2 DEF ReadRefs, RefsOf
    <3>4. q \in Refs
      BY <3>1, <3>3 DEF Refs
    <3> QED
      BY <3>1, <3>2, <3>3, <3>4
  <2>4. Unmatched = {}
    <3>1. selected.items \ Matched = {}
      BY <2>3 DEF Matched
    <3>2. selected.rules \ DOMAIN findings = {}
      BY <2>2
    <3> QED
      BY <3>1, <3>2 DEF Unmatched
  <2>5. ASSUME NEW s \in skipped, s.why = "partial" PROVE FALSE
    <3>1. s.rule \notin selected.rules /\ ~PerItem(s.rule) /\ Picked(s.rule) # {}
      BY <2>5 DEF IInv, Partial, PartialPick
    <3>2. PICK r \in RefsOf(s.rule) : Id(r) \in selected.items
      BY <3>1 DEF Picked
    <3>3. PICK q \in Refs : Id(r) = Id(q) /\ PerItem(q[1])
      BY <2>3, <3>2
    <3>4. r[1] = s.rule /\ r[1] = q[1]
      BY <3>2, <3>3, IdParts DEF RefsOf
    <3> QED
      BY <3>1, <3>3, <3>4
  <2>6. ASSUME NEW r \in Planned PROVE ~Unreadable(ItemAt(r))
    <3>1. PICK d \in drafts : r \in d.items
      BY <2>6 DEF Planned
    <3>2. r \in Picked(d.rule) /\ r \in RefsOf(d.rule) /\ r \in Refs
      BY <3>1, PlannedRefs DEF IInv, DraftOK
    <3>3. CASE d.rule \in selected.rules
      BY <2>2, <3>2, <3>3 DEF AllRead, ReadRefs
    <3>4. CASE Id(r) \in selected.items
      <4>1. PICK q \in Refs : Id(r) = Id(q) /\ ~Unreadable(ItemAt(q))
        BY <2>3, <3>4
      <4> QED
        BY <2>1, <3>2, <4>1, SameKeyRead
    <3> QED
      BY <3>2, <3>3, <3>4 DEF Picked
  <2> QED
    BY <2>4, <2>5, <2>6
<1> QED
  BY <1>1, Invariance, PTL
----------------------------------------------------------------------------
(* Sums. What MapThenSumSet adds up here are the files of sets that have      *)
(* nothing in common. Each operator summed has a lemma of its own: the provers *)
(* take no operator as a parameter.                                           *)

\* The function MapThenSumSet recurs by, over the subsets of D.
Adds(f, D, T) == f = [s \in SUBSET D |->
  IF s = {} THEN 0 ELSE Cardinality(T[CHOOSE x \in s : TRUE]) + f[s \ {CHOOSE x \in s : TRUE}]]

\* Two sets with nothing in common have as many elements as both together.
LEMMA TwoParts ==
  ASSUME NEW A, IsFiniteSet(A), NEW B, IsFiniteSet(B), A \cap B = {}
  PROVE  Cardinality(A \cup B) = Cardinality(A) + Cardinality(B)
<1>1. Cardinality(A \cup B) = Cardinality(A) + Cardinality(B) - Cardinality(A \cap B)
  BY FS_Union
<1>2. Cardinality(A) \in Nat /\ Cardinality(B) \in Nat
  BY FS_CardinalityType
<1>3. Cardinality(A \cap B) = 0
  BY FS_EmptySet
<1> QED
  BY <1>1, <1>2, <1>3

\* A sum over sets that have nothing in common counts what is in any of them:
\* the count is one such function, and the least set on which another differed
\* would have an element less.
LEMMA AddsUp ==
  ASSUME NEW D, IsFiniteSet(D), NEW U, IsFiniteSet(U), NEW T \in [D -> SUBSET U],
         \A x, y \in D : x # y => T[x] \cap T[y] = {}
  PROVE  /\ \E f : Adds(f, D, T)
         /\ \A f : Adds(f, D, T) => f[D] = Cardinality(UNION {T[x] : x \in D})
<1> DEFINE Of(s) == UNION {T[x] : x \in s}
           c(s) == CHOOSE x \in s : TRUE
           g == [s \in SUBSET D |-> Cardinality(Of(s))]
<1>1. \A s \in SUBSET D : Of(s) \subseteq U /\ IsFiniteSet(Of(s)) /\ IsFiniteSet(s) /\ Cardinality(Of(s)) \in Nat
  <2>1. \A s \in SUBSET D : Of(s) \subseteq U
    OBVIOUS
  <2> HIDE DEF Of
  <2> QED
    BY <2>1, FS_Subset, FS_CardinalityType
<1>2. ASSUME NEW s \in SUBSET D, s # {}
      PROVE  Cardinality(Of(s)) = Cardinality(T[c(s)]) + Cardinality(Of(s \ {c(s)}))
  <2>1. c(s) \in s
    BY <1>2
  <2> HIDE DEF c
  <2>2. Of(s) = T[c(s)] \cup Of(s \ {c(s)})
    BY <2>1
  <2>3. T[c(s)] \cap Of(s \ {c(s)}) = {}
    BY <2>1
  <2>4. IsFiniteSet(T[c(s)])
    BY <2>1, FS_Subset
  <2>5. IsFiniteSet(Of(s \ {c(s)}))
    BY <1>1
  <2> HIDE DEF Of
  <2> QED
    BY <2>2, <2>3, <2>4, <2>5, TwoParts
<1>3. Cardinality(Of({})) = 0
  <2>1. Of({}) = {}
    OBVIOUS
  <2> HIDE DEF Of
  <2> QED BY <2>1, FS_EmptySet
<1>4. Adds(g, D, T)
  <2>1. ASSUME NEW s \in SUBSET D
        PROVE  Cardinality(Of(s)) = IF s = {} THEN 0 ELSE Cardinality(T[c(s)]) + g[s \ {c(s)}]
    <3>1. s \ {c(s)} \in SUBSET D
      OBVIOUS
    <3>2. g[s \ {c(s)}] = Cardinality(Of(s \ {c(s)}))
      <4> HIDE DEF Of, c
      <4> QED BY <3>1
    <3> HIDE DEF Of, c, g
    <3> QED BY <1>2, <1>3, <3>2
  <2>2. g = [s \in SUBSET D |-> IF s = {} THEN 0 ELSE Cardinality(T[c(s)]) + g[s \ {c(s)}]]
    <3> DEFINE h(s) == IF s = {} THEN 0 ELSE Cardinality(T[c(s)]) + g[s \ {c(s)}]
    <3>1. \A s \in SUBSET D : Cardinality(Of(s)) = h(s)
      BY <2>1
    <3>2. [s \in SUBSET D |-> Cardinality(Of(s))] = [s \in SUBSET D |-> h(s)]
      <4> HIDE DEF Of, h
      <4> QED BY <3>1
    <3> QED BY <3>2, Zenon
  <2> QED
    BY <2>2, Zenon DEF Adds
<1>5. ASSUME NEW f, Adds(f, D, T) PROVE f[D] = Cardinality(Of(D))
  <2> DEFINE Bad == {n \in Nat : \E s \in SUBSET D : Cardinality(s) = n /\ f[s] # Cardinality(Of(s))}
  <2>1. SUFFICES Bad = {}
    <3>1. D \in SUBSET D /\ Cardinality(D) \in Nat
      BY FS_CardinalityType
    <3> HIDE DEF Of
    <3> QED BY <2>1, <3>1
  <2>2. SUFFICES ASSUME Bad # {} PROVE FALSE
    OBVIOUS
  <2>3. PICK n \in Bad : \A m \in Bad : n <= m
    <3> HIDE DEF Bad
    <3>0. Bad \subseteq Nat BY DEF Bad
    <3> QED BY <2>2, <3>0, Least
  <2>4. PICK s \in SUBSET D : Cardinality(s) = n /\ f[s] # Cardinality(Of(s))
    <3> HIDE DEF Of
    <3> QED
    OBVIOUS
  <2>5. f[s] = IF s = {} THEN 0 ELSE Cardinality(T[c(s)]) + f[s \ {c(s)}]
    <3> DEFINE h(t) == IF t = {} THEN 0 ELSE Cardinality(T[c(t)]) + f[t \ {c(t)}]
    <3>1. f = [t \in SUBSET D |-> h(t)]
      BY <1>5, Zenon DEF Adds
    <3> HIDE DEF h
    <3>2. f[s] = h(s)
      BY <3>1
    <3> QED
      BY <3>2 DEF h
  <2>6. s # {}
    <3> HIDE DEF Of, c
    <3> QED
    BY <2>4, <2>5, <1>3
  <2>7. s \ {c(s)} \in SUBSET D /\ IsFiniteSet(s) /\ c(s) \in s
    BY <1>1, <2>6
  <2> DEFINE t == s \ {c(s)}
  <2>8. Cardinality(t) = n - 1 /\ n \in Nat /\ n - 1 \in Nat
    <3>1. Cardinality(t) = Cardinality(s) - 1 /\ IsFiniteSet(t)
      <4> HIDE DEF c
      <4> QED
      BY <2>7, FS_RemoveElement
    <3> HIDE DEF t, c, Of
    <3>2. Cardinality(t) \in Nat /\ n \in Nat
      BY <3>1, FS_CardinalityType
    <3> QED
      BY <2>4, <3>1, <3>2
  <2>9. n - 1 \notin Bad
    <3> HIDE DEF Bad
    <3> QED BY <2>3, <2>8
  <2>10. f[t] = Cardinality(Of(t))
    <3> HIDE DEF Of, c
    <3> QED BY <2>7, <2>8, <2>9
  <2>11. f[s] = Cardinality(Of(s))
    <3> HIDE DEF Of, c
    <3> QED BY <2>5, <2>6, <2>10, <1>2
  <2> QED
    BY <2>4, <2>11
<1> QED
  BY <1>4, <1>5

\* The sums the ledger and the plan are made of.
BytesIn(S) == MapThenSumSet(Bytes, S)
ActionsIn(S) == MapThenSumSet(LAMBDA a : a.bytes, S)
ExclusiveIn(S) == MapThenSumSet(Exclusive, S)
IdsIn(S) == MapThenSumSet(ExclusiveOf, S)
SharesIn(S) == MapThenSumSet(Share, S)
TotalsIn(S) == MapThenSumSet(Total, S)

\* The bytes of items that hold nothing in common are what they hold together.
LEMMA SumOfBytes ==
  ASSUME NEW S, IsFiniteSet(S), NEW T \in [S -> SUBSET Files],
         \A x, y \in S : x # y => T[x] \cap T[y] = {},
         \A x \in S : Bytes(x) = Cardinality(T[x])
  PROVE  BytesIn(S) = Cardinality(UNION {T[x] : x \in S})
<1> DEFINE Rec(f) == f = [s \in SUBSET S |->
             IF s = {} THEN 0 ELSE Bytes(CHOOSE x \in s : TRUE) + f[s \ {CHOOSE x \in s : TRUE}]]
           it == CHOOSE f : Rec(f)
           n == Cardinality(UNION {T[x] : x \in S})
<1>1. BytesIn(S) = it[S]
  BY Zenon DEF BytesIn, MapThenSumSet, MapThenFoldSet
<1>2. ASSUME NEW s \in SUBSET S, s # {} PROVE (CHOOSE x \in s : TRUE) \in S
  BY <1>2
<1>3. ASSUME NEW f PROVE Rec(f) <=> Adds(f, S, T)
  <2> DEFINE A(s) == IF s = {} THEN 0 ELSE Bytes(CHOOSE x \in s : TRUE) + f[s \ {CHOOSE x \in s : TRUE}]
             B(s) == IF s = {} THEN 0 ELSE Cardinality(T[CHOOSE x \in s : TRUE]) + f[s \ {CHOOSE x \in s : TRUE}]
  <2>1. \A s \in SUBSET S : A(s) = B(s)
    BY <1>2
  <2> HIDE DEF A, B
  <2>2. [s \in SUBSET S |-> A(s)] = [s \in SUBSET S |-> B(s)]
    BY <2>1
  <2> QED
    BY <2>2, Zenon DEF Adds, A, B
<1>4. (\E f : Adds(f, S, T)) /\ (\A f : Adds(f, S, T) => f[S] = n)
  BY ToolsOwnThings, AddsUp
<1> HIDE DEF Rec, n
<1>5. Adds(it, S, T)
  BY <1>3, <1>4
<1> HIDE DEF it
<1> QED
  BY <1>1, <1>4, <1>5 DEF n

\* So are those of actions,
LEMMA SumOfActions ==
  ASSUME NEW S, IsFiniteSet(S), NEW T \in [S -> SUBSET Files],
         \A x, y \in S : x # y => T[x] \cap T[y] = {},
         \A x \in S : (x).bytes = Cardinality(T[x])
  PROVE  ActionsIn(S) = Cardinality(UNION {T[x] : x \in S})
<1> DEFINE Rec(f) == f = [s \in SUBSET S |->
             IF s = {} THEN 0 ELSE (CHOOSE x \in s : TRUE).bytes + f[s \ {CHOOSE x \in s : TRUE}]]
           it == CHOOSE f : Rec(f)
           n == Cardinality(UNION {T[x] : x \in S})
<1>1. ActionsIn(S) = it[S]
  BY Zenon DEF ActionsIn, MapThenSumSet, MapThenFoldSet
<1>2. ASSUME NEW s \in SUBSET S, s # {} PROVE (CHOOSE x \in s : TRUE) \in S
  BY <1>2
<1>3. ASSUME NEW f PROVE Rec(f) <=> Adds(f, S, T)
  <2> DEFINE A(s) == IF s = {} THEN 0 ELSE (CHOOSE x \in s : TRUE).bytes + f[s \ {CHOOSE x \in s : TRUE}]
             B(s) == IF s = {} THEN 0 ELSE Cardinality(T[CHOOSE x \in s : TRUE]) + f[s \ {CHOOSE x \in s : TRUE}]
  <2>1. \A s \in SUBSET S : A(s) = B(s)
    BY <1>2
  <2> HIDE DEF A, B
  <2>2. [s \in SUBSET S |-> A(s)] = [s \in SUBSET S |-> B(s)]
    BY <2>1
  <2> QED
    BY <2>2, Zenon DEF Adds, A, B
<1>4. (\E f : Adds(f, S, T)) /\ (\A f : Adds(f, S, T) => f[S] = n)
  BY ToolsOwnThings, AddsUp
<1> HIDE DEF Rec, n
<1>5. Adds(it, S, T)
  BY <1>3, <1>4
<1> HIDE DEF it
<1> QED
  BY <1>1, <1>4, <1>5 DEF n

\* the exclusive shares of items,
LEMMA SumOfExclusive ==
  ASSUME NEW S, IsFiniteSet(S), NEW T \in [S -> SUBSET Files],
         \A x, y \in S : x # y => T[x] \cap T[y] = {},
         \A x \in S : Exclusive(x) = Cardinality(T[x])
  PROVE  ExclusiveIn(S) = Cardinality(UNION {T[x] : x \in S})
<1> DEFINE Rec(f) == f = [s \in SUBSET S |->
             IF s = {} THEN 0 ELSE Exclusive(CHOOSE x \in s : TRUE) + f[s \ {CHOOSE x \in s : TRUE}]]
           it == CHOOSE f : Rec(f)
           n == Cardinality(UNION {T[x] : x \in S})
<1>1. ExclusiveIn(S) = it[S]
  BY Zenon DEF ExclusiveIn, MapThenSumSet, MapThenFoldSet
<1>2. ASSUME NEW s \in SUBSET S, s # {} PROVE (CHOOSE x \in s : TRUE) \in S
  BY <1>2
<1>3. ASSUME NEW f PROVE Rec(f) <=> Adds(f, S, T)
  <2> DEFINE A(s) == IF s = {} THEN 0 ELSE Exclusive(CHOOSE x \in s : TRUE) + f[s \ {CHOOSE x \in s : TRUE}]
             B(s) == IF s = {} THEN 0 ELSE Cardinality(T[CHOOSE x \in s : TRUE]) + f[s \ {CHOOSE x \in s : TRUE}]
  <2>1. \A s \in SUBSET S : A(s) = B(s)
    BY <1>2
  <2> HIDE DEF A, B
  <2>2. [s \in SUBSET S |-> A(s)] = [s \in SUBSET S |-> B(s)]
    BY <2>1
  <2> QED
    BY <2>2, Zenon DEF Adds, A, B
<1>4. (\E f : Adds(f, S, T)) /\ (\A f : Adds(f, S, T) => f[S] = n)
  BY ToolsOwnThings, AddsUp
<1> HIDE DEF Rec, n
<1>5. Adds(it, S, T)
  BY <1>3, <1>4
<1> HIDE DEF it
<1> QED
  BY <1>1, <1>4, <1>5 DEF n

\* those of ids,
LEMMA SumOfIds ==
  ASSUME NEW S, IsFiniteSet(S), NEW T \in [S -> SUBSET Files],
         \A x, y \in S : x # y => T[x] \cap T[y] = {},
         \A x \in S : ExclusiveOf(x) = Cardinality(T[x])
  PROVE  IdsIn(S) = Cardinality(UNION {T[x] : x \in S})
<1> DEFINE Rec(f) == f = [s \in SUBSET S |->
             IF s = {} THEN 0 ELSE ExclusiveOf(CHOOSE x \in s : TRUE) + f[s \ {CHOOSE x \in s : TRUE}]]
           it == CHOOSE f : Rec(f)
           n == Cardinality(UNION {T[x] : x \in S})
<1>1. IdsIn(S) = it[S]
  BY Zenon DEF IdsIn, MapThenSumSet, MapThenFoldSet
<1>2. ASSUME NEW s \in SUBSET S, s # {} PROVE (CHOOSE x \in s : TRUE) \in S
  BY <1>2
<1>3. ASSUME NEW f PROVE Rec(f) <=> Adds(f, S, T)
  <2> DEFINE A(s) == IF s = {} THEN 0 ELSE ExclusiveOf(CHOOSE x \in s : TRUE) + f[s \ {CHOOSE x \in s : TRUE}]
             B(s) == IF s = {} THEN 0 ELSE Cardinality(T[CHOOSE x \in s : TRUE]) + f[s \ {CHOOSE x \in s : TRUE}]
  <2>1. \A s \in SUBSET S : A(s) = B(s)
    BY <1>2
  <2> HIDE DEF A, B
  <2>2. [s \in SUBSET S |-> A(s)] = [s \in SUBSET S |-> B(s)]
    BY <2>1
  <2> QED
    BY <2>2, Zenon DEF Adds, A, B
<1>4. (\E f : Adds(f, S, T)) /\ (\A f : Adds(f, S, T) => f[S] = n)
  BY ToolsOwnThings, AddsUp
<1> HIDE DEF Rec, n
<1>5. Adds(it, S, T)
  BY <1>3, <1>4
<1> HIDE DEF it
<1> QED
  BY <1>1, <1>4, <1>5 DEF n

\* the shares of rules,
LEMMA SumOfShares ==
  ASSUME NEW S, IsFiniteSet(S), NEW T \in [S -> SUBSET Files],
         \A x, y \in S : x # y => T[x] \cap T[y] = {},
         \A x \in S : Share(x) = Cardinality(T[x])
  PROVE  SharesIn(S) = Cardinality(UNION {T[x] : x \in S})
<1> DEFINE Rec(f) == f = [s \in SUBSET S |->
             IF s = {} THEN 0 ELSE Share(CHOOSE x \in s : TRUE) + f[s \ {CHOOSE x \in s : TRUE}]]
           it == CHOOSE f : Rec(f)
           n == Cardinality(UNION {T[x] : x \in S})
<1>1. SharesIn(S) = it[S]
  BY Zenon DEF SharesIn, MapThenSumSet, MapThenFoldSet
<1>2. ASSUME NEW s \in SUBSET S, s # {} PROVE (CHOOSE x \in s : TRUE) \in S
  BY <1>2
<1>3. ASSUME NEW f PROVE Rec(f) <=> Adds(f, S, T)
  <2> DEFINE A(s) == IF s = {} THEN 0 ELSE Share(CHOOSE x \in s : TRUE) + f[s \ {CHOOSE x \in s : TRUE}]
             B(s) == IF s = {} THEN 0 ELSE Cardinality(T[CHOOSE x \in s : TRUE]) + f[s \ {CHOOSE x \in s : TRUE}]
  <2>1. \A s \in SUBSET S : A(s) = B(s)
    BY <1>2
  <2> HIDE DEF A, B
  <2>2. [s \in SUBSET S |-> A(s)] = [s \in SUBSET S |-> B(s)]
    BY <2>1
  <2> QED
    BY <2>2, Zenon DEF Adds, A, B
<1>4. (\E f : Adds(f, S, T)) /\ (\A f : Adds(f, S, T) => f[S] = n)
  BY ToolsOwnThings, AddsUp
<1> HIDE DEF Rec, n
<1>5. Adds(it, S, T)
  BY <1>3, <1>4
<1> HIDE DEF it
<1> QED
  BY <1>1, <1>4, <1>5 DEF n

\* and the buckets.
LEMMA SumOfTotals ==
  ASSUME NEW S, IsFiniteSet(S), NEW T \in [S -> SUBSET Files],
         \A x, y \in S : x # y => T[x] \cap T[y] = {},
         \A x \in S : Total(x) = Cardinality(T[x])
  PROVE  TotalsIn(S) = Cardinality(UNION {T[x] : x \in S})
<1> DEFINE Rec(f) == f = [s \in SUBSET S |->
             IF s = {} THEN 0 ELSE Total(CHOOSE x \in s : TRUE) + f[s \ {CHOOSE x \in s : TRUE}]]
           it == CHOOSE f : Rec(f)
           n == Cardinality(UNION {T[x] : x \in S})
<1>1. TotalsIn(S) = it[S]
  BY Zenon DEF TotalsIn, MapThenSumSet, MapThenFoldSet
<1>2. ASSUME NEW s \in SUBSET S, s # {} PROVE (CHOOSE x \in s : TRUE) \in S
  BY <1>2
<1>3. ASSUME NEW f PROVE Rec(f) <=> Adds(f, S, T)
  <2> DEFINE A(s) == IF s = {} THEN 0 ELSE Total(CHOOSE x \in s : TRUE) + f[s \ {CHOOSE x \in s : TRUE}]
             B(s) == IF s = {} THEN 0 ELSE Cardinality(T[CHOOSE x \in s : TRUE]) + f[s \ {CHOOSE x \in s : TRUE}]
  <2>1. \A s \in SUBSET S : A(s) = B(s)
    BY <1>2
  <2> HIDE DEF A, B
  <2>2. [s \in SUBSET S |-> A(s)] = [s \in SUBSET S |-> B(s)]
    BY <2>1
  <2> QED
    BY <2>2, Zenon DEF Adds, A, B
<1>4. (\E f : Adds(f, S, T)) /\ (\A f : Adds(f, S, T) => f[S] = n)
  BY ToolsOwnThings, AddsUp
<1> HIDE DEF Rec, n
<1>5. Adds(it, S, T)
  BY <1>3, <1>4
<1> HIDE DEF it
<1> QED
  BY <1>1, <1>4, <1>5 DEF n

----------------------------------------------------------------------------
(* No byte is promised twice. *)

\* A file inside an item is inside whatever holds the item, and of two items
\* that hold it the later is inside the earlier.
LEMMA FileInside ==
  ASSUME Scanned, NEW a \in Refs, NEW b \in Refs, NEW f \in Files, Inside(f, PathOf(b))
  PROVE  /\ Inside(PathOf(b), PathOf(a)) => Inside(f, PathOf(a))
         /\ Inside(f, PathOf(a)) /\ NodeBefore(a, b) => Inside(PathOf(b), PathOf(a))
<1> DEFINE A == PathKey(PathOf(a))  B == PathKey(PathOf(b))  C == PathKey(f)
<1>1. A \in Seq(Nat) /\ B \in Seq(Nat) /\ C \in Seq(Nat)
  <2>1. C \in Seq(Nat)
    BY ToolsOwnThings, PlannerAssumption DEF PathKey
  <2> QED
    BY <2>1, NodeOrder
<1>2. IsPrefix(B, C)
  BY DEF Inside
<1>3. NodeBefore(a, b) => A = B \/ Less(A, B)
  BY BeforeKey
<1> HIDE DEF A, B, C
<1>4. IsPrefix(A, B) => IsPrefix(A, C)
  BY <1>1, <1>2, PrefixOrder
<1>5. ASSUME IsPrefix(A, C), NodeBefore(a, b) PROVE IsPrefix(A, B)
  <2>1. IsPrefix(A, B) \/ IsPrefix(B, A)
    BY <1>1, <1>2, <1>5, PrefixOrder
  <2>2. CASE IsPrefix(B, A)
    <3>1. B = A \/ Less(B, A)
      BY <1>1, <2>2, LessIs
    <3>2. ~(Less(A, B) /\ Less(B, A))
      BY <1>1, LessTrans, LessStrict
    <3> QED
      BY <1>3, <1>5, <2>2, <3>1, <3>2
  <2> QED
    BY <2>1, <2>2
<1> QED
  BY <1>4, <1>5 DEF Inside, A, B, C

\* What was read of an item.
Read(r) == Readable(ItemAt(r))

LEMMA ReadFiles ==
  ASSUME NEW r \in Refs
  PROVE  /\ Read(r) \subseteq Files /\ IsFiniteSet(Read(r)) /\ Bytes(r) = Cardinality(Read(r)) /\ Bytes(r) \in Nat
         /\ r \in Located => Read(r) = {f \in Files \ Locked : Inside(f, PathOf(r))}
<1>1. Read(r) \subseteq Files
  BY DEF Read, Readable, Holds
<1>2. IsFiniteSet(Read(r))
  BY <1>1, ToolsOwnThings, FS_Subset
<1>3. Bytes(r) = Cardinality(Read(r)) /\ Bytes(r) \in Nat
  BY <1>2, FS_CardinalityType DEF Bytes, Read
<1>4. r \in Located => Read(r) = {f \in Files \ Locked : Inside(f, PathOf(r))}
  BY DEF Located, Read, Readable, Holds, PathOf
<1> QED
  BY <1>1, <1>2, <1>3, <1>4

\* Of two items one file is in, one is inside the other.
LEMMA OneInsideOther ==
  ASSUME Scanned, IsForest, NEW r \in Refs, NEW q \in Refs, r # q, NEW f \in Read(r), f \in Read(q)
  PROVE  /\ r \in Located /\ q \in Located
         /\ r \in Ancestors(q) \/ q \in Ancestors(r)
<1>1. ASSUME NEW a \in Refs, NEW b \in Refs, a # b, f \in Read(a), f \in Read(b) PROVE a \in Located
  <2>1. a = <<a[1], a[2]>> /\ b = <<b[1], b[2]>>
    BY ScanTyped
  <2>2. /\ a[1] \in DOMAIN findings /\ a[2] \in DOMAIN findings[a[1]].items
        /\ b[1] \in DOMAIN findings /\ b[2] \in DOMAIN findings[b[1]].items
    BY RefParts DEF RefsOf
  <2>3. a[1] # b[1] \/ a[2] # b[2]
    BY <1>1, <2>1
  <2>4. f \in Holds(ItemAt(a)) \cap Holds(ItemAt(b))
    BY <1>1 DEF Read, Readable
  <2>5. \A i, k \in DOMAIN findings : \A j \in DOMAIN findings[i].items : \A m \in DOMAIN findings[k].items :
          (i # k \/ j # m) /\ findings[i].items[j].path = NoPath =>
            Holds(findings[i].items[j]) \cap Holds(findings[k].items[m]) = {}
    BY ToolsOwnThings DEF IInv, Scanned
  <2>6. ItemAt(a).path # NoPath
    <3> SUFFICES ASSUME ItemAt(a).path = NoPath PROVE Holds(ItemAt(a)) \cap Holds(ItemAt(b)) = {}
      BY <2>4
    <3> QED
      BY <2>2, <2>3, <2>5, Zenon DEF ItemAt
  <2> QED
    BY <2>6 DEF Located, PathOf
<1>2. r \in Located /\ q \in Located
  BY <1>1
<1>3. f \in Files /\ Inside(f, PathOf(r)) /\ Inside(f, PathOf(q))
  BY <1>2, ReadFiles
<1>4. ASSUME NEW a \in Located, NEW b \in Located, a # b, NodeBefore(a, b),
             Inside(f, PathOf(a)), Inside(f, PathOf(b))
      PROVE  a \in Ancestors(b)
  <2>1. a \in Refs /\ b \in Refs
    BY DEF Located
  <2>2. Inside(PathOf(b), PathOf(a))
    BY <1>3, <1>4, <2>1, FileInside
  <2> QED
    BY <1>4, <2>1, <2>2 DEF IsForest
<1> QED
  BY <1>2, <1>3, <1>4, NodeOrder

\* What an action counts: what was read of its items that are in no other's.
Takes(d) == UNION {Read(r) : r \in Uncovered(d)}

\* An action's bytes are what it takes.
LEMMA ActionCounts ==
  ASSUME IInv, NEW d \in Kept
  PROVE  Action(d).bytes = Cardinality(Takes(d))
<1> DEFINE S == Uncovered(d)
           T == [r \in S |-> Read(r)]
<1>1. S \subseteq Refs /\ S \subseteq Planned /\ \A r \in S : ~HasPlannedAncestor(r)
  <2>1. d \in drafts
    BY DEF Kept
  <2>2. d.items \subseteq Refs \cap Planned
    BY <2>1, PlannedRefs DEF Planned
  <2> QED
    BY <2>2 DEF Uncovered
<1>2. IsFiniteSet(S)
  BY <1>1, FiniteRefs, FS_Subset DEF IInv
<1>3. T \in [S -> SUBSET Files]
  BY <1>1, ReadFiles
<1>4. \A x \in S : Bytes(x) = Cardinality(T[x])
  BY <1>1, ReadFiles
<1>5. ASSUME NEW x \in S, NEW y \in S, x # y PROVE T[x] \cap T[y] = {}
  <2> SUFFICES ASSUME NEW f \in Read(x), f \in Read(y) PROVE FALSE
    OBVIOUS
  <2>1. x \in Ancestors(y) \/ y \in Ancestors(x)
    BY <1>1, <1>5, OneInsideOther DEF IInv
  <2> QED
    BY <1>1, <1>5, <2>1 DEF HasPlannedAncestor
<1>6. BytesIn(S) = Cardinality(UNION {T[x] : x \in S})
  <2> HIDE DEF S, T
  <2>1. \A x, y \in S : x # y => T[x] \cap T[y] = {}
    BY <1>5
  <2> QED
    BY <1>2, <1>3, <1>4, <2>1, SumOfBytes
<1>7. UNION {T[x] : x \in S} = Takes(d)
  BY DEF Takes
<1>8. Action(d).bytes = BytesIn(S)
  BY DEF Action, BytesIn
<1> HIDE DEF S, T
<1> QED
  BY <1>6, <1>7, <1>8

\* Every action of the plan counts what it takes.
Measured == phase = "planned" => \A a \in PlanActions : a.bytes = Cardinality(Takes(a))

LEMMA TakesKept ==
  ASSUME UNCHANGED <<findings, above, drafts>>
  PROVE  \A d, e : e.items = d.items => Takes(e)' = Takes(d)
<1>1. \A d, e : e.items = d.items => Uncovered(e)' = Uncovered(d)
  BY DEF Uncovered, HasPlannedAncestor, Ancestors, Planned
<1>2. \A r : Read(r)' = Read(r)
  BY DEF Read, Readable, Holds, ItemAt
<1> QED
  BY <1>1, <1>2 DEF Takes

LEMMA MeasuredStep == ASSUME IInv, Measured, [Next]_vars PROVE Measured'
<1>1. CASE BuildPlan
  BY <1>1 DEF BuildPlan, Measured
<1>2. CASE DraftRule
  BY <1>2 DEF DraftRule, Measured
<1>3. CASE UNCHANGED vars
  <2>1. UNCHANGED <<findings, above, drafts>> /\ phase' = phase /\ PlanActions' = PlanActions
    BY <1>3 DEF vars, PlanActions
  <2> QED
    BY <2>1, TakesKept DEF Measured
<1>4. CASE ResolveNesting
  <2> DEFINE plan == Actions
  <2>1. UNCHANGED <<findings, above, drafts>> /\ actions' = plan
    BY <1>4 DEF ResolveNesting
  <2>2. plan.first \cup plan.rest = {Action(d) : d \in Kept}
    BY DEF Actions, Kept
  <2> HIDE DEF plan
  <2>3. PlanActions' = {Action(d) : d \in Kept}
    BY <2>1, <2>2 DEF PlanActions
  <2> SUFFICES ASSUME NEW a \in PlanActions' PROVE a.bytes = Cardinality(Takes(a)')
    BY DEF Measured
  <2>4. PICK d \in Kept : a = Action(d)
    BY <2>3
  <2>5. a.bytes = Cardinality(Takes(d)) /\ a.items = d.items
    BY <2>4, ActionCounts, ActionFields
  <2>6. Takes(a)' = Takes(d)
    BY <2>1, <2>5, TakesKept
  <2> QED
    BY <2>5, <2>6
<1> QED
  BY <1>1, <1>2, <1>3, <1>4 DEF Next

\* What a plan's action frees is the bytes its outermost chosen items hold
\* beneath them, each byte once, whatever else is chosen inside them
\* (resolveNesting).
THEOREM ActionsMeasured == Spec => []Measured
<1>1. Init => Measured
  BY DEF Init, Measured
<1> QED
  BY <1>1, MeasuredStep, Invariance, PTL DEF Spec

\* The plan has no more actions than there are items to pick of each rule.
LEMMA FinitePlan == ASSUME IInv, phase = "planned" PROVE IsFiniteSet(PlanActions)
<1> DEFINE f == [a \in PlanActions |-> <<a.rule, a.items>>]
           X == (DOMAIN findings) \X (SUBSET Refs)
<1>1. /\ \A a \in PlanActions : \E d \in Kept : ActsFor(a, d)
      /\ \A a, b \in PlanActions : a.rule = b.rule /\ a.items = b.items => a = b
  BY DEF IInv, OneEach
<1>2. ASSUME NEW a \in PlanActions PROVE a.rule \in DOMAIN findings /\ a.items \subseteq Refs
  <2>1. PICK d \in Kept : ActsFor(a, d)
    BY <1>1
  <2>2. DraftOK(d)
    BY DEF IInv, Kept
  <2> QED
    BY <2>1, <2>2 DEF ActsFor, DraftOK, Refs
<1>3. f \in Injection(PlanActions, X)
  BY <1>1, <1>2 DEF Injection, IsInjective
<1>4. IsFiniteSet(DOMAIN findings)
  <2>1. findings \in Seq([rule : Rule, items : Seq([path : Seq(Nat), key : Seq(Nat)]), failed : BOOLEAN])
    BY PlannerAssumption DEF IInv, Scanned
  <2>2. Len(findings) \in Nat /\ DOMAIN findings = 1..Len(findings)
    BY <2>1, LenProperties
  <2> QED
    BY <2>2, FS_Interval
<1>5. IsFiniteSet(X)
  BY <1>4, FiniteRefs, FS_SUBSET, FS_Product DEF IInv
<1> HIDE DEF f, X
<1> QED
  BY <1>3, <1>5, FS_Injection

\* Action bytes are disjoint, and add up to what the plan deletes.
LEMMA PlanSums == ASSUME IInv, Measured PROVE CountedOnce
<1> SUFFICES ASSUME phase = "planned"
             PROVE  MapThenSumSet(LAMBDA a : a.bytes, PlanActions)
                      = Cardinality(UNION {Readable(ItemAt(r)) : r \in Acted})
  BY DEF CountedOnce
<1> DEFINE P == PlanActions
           T == [a \in P |-> Takes(a)]
<1>1. /\ \A a \in P : \E d \in Kept : ActsFor(a, d)
      /\ \A d \in Kept : \E a \in P : ActsFor(a, d)
      /\ \A a, b \in P : a.rule = b.rule /\ a.items = b.items => a = b
  BY DEF IInv, OneEach
<1>2. IsFiniteSet(P)
  BY FinitePlan
<1>3. ASSUME NEW a \in P
      PROVE  \E d \in drafts : /\ a.rule = d.rule /\ a.items = d.items
                              /\ \A r \in Uncovered(a) : r \in d.items /\ r \in Refs /\ r \in Planned /\ ~HasPlannedAncestor(r)
  <2>1. PICK d \in Kept : ActsFor(a, d)
    BY <1>1
  <2>2. d \in drafts /\ a.rule = d.rule /\ a.items = d.items
    BY <2>1 DEF Kept, ActsFor
  <2>3. d.items \subseteq Refs \cap Planned
    BY <2>2, PlannedRefs DEF Planned
  <2> QED
    BY <2>2, <2>3 DEF Uncovered
<1>4. ASSUME NEW a \in P PROVE Takes(a) \subseteq Files
  BY <1>3, ReadFiles DEF Takes
<1>5. T \in [P -> SUBSET Files]
  BY <1>4
<1>6. ASSUME NEW a \in P, NEW b \in P, a # b PROVE Takes(a) \cap Takes(b) = {}
  <2> SUFFICES ASSUME NEW f \in Takes(a), f \in Takes(b) PROVE FALSE
    OBVIOUS
  <2>1. PICK r \in Uncovered(a) : f \in Read(r)
    BY DEF Takes
  <2>2. PICK q \in Uncovered(b) : f \in Read(q)
    BY DEF Takes
  <2>3. PICK d \in drafts : /\ a.rule = d.rule /\ a.items = d.items
                            /\ r \in d.items /\ r \in Refs /\ r \in Planned /\ ~HasPlannedAncestor(r)
    BY <1>3, <2>1
  <2>4. PICK e \in drafts : /\ b.rule = e.rule /\ b.items = e.items
                            /\ q \in e.items /\ q \in Refs /\ q \in Planned /\ ~HasPlannedAncestor(q)
    BY <1>3, <2>2
  <2>5. r # q
    BY <1>1, <1>6, <2>3, <2>4, DraftsApart
  <2>6. r \in Ancestors(q) \/ q \in Ancestors(r)
    BY <2>1, <2>2, <2>3, <2>4, <2>5, OneInsideOther DEF IInv
  <2> QED
    BY <2>3, <2>4, <2>6 DEF HasPlannedAncestor
<1>7. ActionsIn(P) = Cardinality(UNION {T[a] : a \in P})
  <2>1. \A a \in P : a.bytes = Cardinality(T[a])
    BY DEF Measured
  <2>2. \A a, b \in P : a # b => T[a] \cap T[b] = {}
    BY <1>6
  <2> HIDE DEF P, T
  <2> QED
    BY <1>2, <1>5, <2>1, <2>2, SumOfActions
<1>8. UNION {T[a] : a \in P} = UNION {Takes(a) : a \in P}
  OBVIOUS
<1>9. UNION {Takes(a) : a \in P} \subseteq UNION {Read(r) : r \in Acted}
  BY DEF Takes, Uncovered, Acted
<1>10. ASSUME NEW r \in Acted, NEW f \in Read(r) PROVE \E a \in P : f \in Takes(a)
  <2>1. PICK d \in Kept : r \in d.items
    BY ActedPlanned
  <2>2. r \in Refs /\ r \in Planned
    <3>1. d \in drafts
      BY DEF Kept
    <3> QED
      BY <2>1, <3>1, PlannedRefs DEF Planned
  <2>3. \E e \in Kept : \E q \in e.items : q \in Refs /\ ~HasPlannedAncestor(q) /\ f \in Read(q)
    <3>1. CASE ~HasPlannedAncestor(r)
      BY <2>1, <2>2, <3>1
    <3>2. CASE HasPlannedAncestor(r)
      <4>1. PICK k \in DOMAIN above[r] :
              /\ above[r][k] \in Located /\ Inside(PathOf(r), PathOf(above[r][k]))
              /\ ~HasPlannedAncestor(above[r][k])
              /\ \E e \in Kept : above[r][k] \in e.items
        BY <2>2, <3>2, Topmost
      <4> DEFINE q == above[r][k]
      <4>2. r \in Located
        BY <2>2, <3>2, AncestorsHold DEF HasPlannedAncestor
      <4>3. q \in Refs
        BY <4>1 DEF Located
      <4>4. f \in Files \ Locked /\ Inside(f, PathOf(r))
        BY <2>2, <4>2, ReadFiles
      <4>5. Inside(f, PathOf(q))
        BY <2>2, <4>1, <4>3, <4>4, FileInside DEF IInv
      <4>6. f \in Read(q)
        BY <4>1, <4>3, <4>4, <4>5, ReadFiles
      <4> QED
        BY <4>1, <4>3, <4>6
    <3> QED
      BY <3>1, <3>2
  <2>4. PICK e \in Kept : \E q \in e.items : ~HasPlannedAncestor(q) /\ f \in Read(q)
    BY <2>3
  <2>5. PICK a \in P : ActsFor(a, e)
    BY <1>1
  <2> QED
    BY <2>4, <2>5 DEF ActsFor, Takes, Uncovered
<1>11. UNION {Takes(a) : a \in P} = UNION {Read(r) : r \in Acted}
  BY <1>9, <1>10
<1>12. MapThenSumSet(LAMBDA a : a.bytes, PlanActions) = ActionsIn(PlanActions)
  BY Zenon DEF ActionsIn
<1> QED
  BY <1>7, <1>8, <1>11, <1>12 DEF Read

\* What an item is inside, outermost first: each is inside those before it.
LEMMA OutermostFirst ==
  ASSUME Scanned, IsForest, NEW e \in Refs
  PROVE  /\ Len(above[e]) \in Nat
         /\ above[e] # <<>> => Len(above[e]) \in 1..Len(above[e]) /\ Last(above[e]) = above[e][Len(above[e])]
         /\ \A a : a \in Ancestors(e) <=> \E k \in 1..Len(above[e]) : above[e][k] = a
         /\ \A k \in 1..Len(above[e]) : above[e][k] \in Located /\ above[e][k] \in Refs /\ e \in Located
         /\ \A k, m \in 1..Len(above[e]) : m < k => above[e][m] \in Ancestors(above[e][k])
         /\ \A k \in 1..Len(above[e]) : \A a \in Ancestors(above[e][k]) :
              \E m \in 1..Len(above[e]) : m < k /\ above[e][m] = a
<1> DEFINE s == above[e]
<1>1. s \in Seq(Located) /\ DOMAIN s = 1..Len(s) /\ Len(s) \in Nat /\ (s # <<>> => Len(s) # 0)
  BY LenProperties, EmptySeq DEF IsForest
<1>2. \A a : a \in Ancestors(e) <=> \E k \in 1..Len(s) : s[k] = a
  BY <1>1 DEF Ancestors, ToSet
<1>3. \A k \in 1..Len(s) : s[k] \in Located /\ s[k] \in Refs
  BY <1>1, ElementOfSeq DEF Located
<1>4. \A k \in 1..Len(s) : Ancestors(s[k]) = {s[m] : m \in 1..(k - 1)}
  BY <1>1 DEF IsForest
<1>5. (\E k \in 1..Len(s) : TRUE) => e \in Located
  <2>1. s # <<>> => e \in Located
    BY DEF IsForest
  <2>2. Len(<<>>) = 0
    OBVIOUS
  <2> HIDE DEF s
  <2> QED
    BY <1>1, <2>1, <2>2
<1>6. s # <<>> => Len(s) \in 1..Len(s) /\ Last(s) = s[Len(s)]
  BY <1>1 DEF Last
<1> HIDE DEF s
<1>7. ASSUME NEW k \in 1..Len(s), NEW m \in 1..Len(s), m < k PROVE s[m] \in Ancestors(s[k])
  <2>1. m \in 1..(k - 1)
    BY <1>1, <1>7
  <2> QED
    BY <1>4, <2>1
<1>8. ASSUME NEW k \in 1..Len(s), NEW a \in Ancestors(s[k])
      PROVE  \E m \in 1..Len(s) : m < k /\ s[m] = a
  <2>1. PICK m \in 1..(k - 1) : s[m] = a
    BY <1>4
  <2>2. m \in 1..Len(s) /\ m < k
    BY <1>1
  <2> QED
    BY <2>1, <2>2
<1> QED
  BY <1>1, <1>2, <1>3, <1>5, <1>6, <1>7, <1>8 DEF s

\* Of the items inside r, each is a child of r or inside one.
LEMMA ChildOnTheWay ==
  ASSUME Scanned, IsForest, NEW r \in Refs, NEW e \in Refs, r \in Ancestors(e)
  PROVE  \E c \in Children(r) : c = e \/ (c \in Ancestors(e) /\ e \in Located /\ c \in Located)
<1> DEFINE s == above[e]  n == Len(s)
<1>1. PICK k \in 1..n : s[k] = r
  BY OutermostFirst
<1>2. n \in Nat /\ e \in Located /\ r \in Located /\ s # <<>>
  <2>1. Len(<<>>) = 0
    OBVIOUS
  <2>2. n \in Nat
    BY OutermostFirst
  <2>3. s # <<>>
    BY <2>1, <2>2
  <2> QED
    BY <1>1, <2>2, <2>3, OutermostFirst
<1>3. CASE k = n
  <2>1. s # <<>> /\ Last(s) = r
    BY <1>1, <1>2, <1>3, OutermostFirst
  <2> QED
    BY <2>1 DEF Children
<1>4. CASE k # n
  <2> DEFINE c == s[k + 1]  t == above[c]  j == Len(t)
  <2>1. k + 1 \in 1..n /\ k < k + 1
    BY <1>1, <1>2, <1>4
  <2>2. c \in Located /\ c \in Refs /\ c \in Ancestors(e) /\ r \in Ancestors(c)
    BY <1>1, <2>1, OutermostFirst
  <2>3. PICK i \in 1..j : t[i] = r
    BY <2>2, OutermostFirst
  <2>4. j \in Nat /\ j \in 1..j
    <3>1. j \in Nat
      BY <2>2, OutermostFirst
    <3> HIDE DEF j
    <3> QED
      BY <2>3, <3>1
  <2>5. i = j
    <3> SUFFICES ASSUME i # j PROVE FALSE
      OBVIOUS
    <3>1. i < j
      BY <2>3, <2>4
    <3> DEFINE l == t[j]
    <3>2. r \in Ancestors(l) /\ l \in Ancestors(c) /\ l \in Located /\ l \in Refs
      <4>1. l \in Ancestors(c) /\ l \in Located /\ l \in Refs
        BY <2>2, <2>4, OutermostFirst, SMTT(30)
      <4>2. \A p, q \in 1..j : q < p => t[q] \in Ancestors(t[p])
        BY <2>2, OutermostFirst
      <4>3. t[i] \in Ancestors(l)
        <5> HIDE DEF t, j
        <5> QED
          BY <2>3, <2>4, <3>1, <4>2
      <4> QED
        BY <2>3, <4>1, <4>3
    <3>3. PICK m \in 1..n : m < k + 1 /\ s[m] = l
      <4>1. \A q \in 1..n : \A a \in Ancestors(s[q]) : \E m \in 1..n : m < q /\ s[m] = a
        BY OutermostFirst
      <4> HIDE DEF l, n
      <4> QED
        BY <2>1, <3>2, <4>1
    <3>4. NodeBefore(r, l)
      BY <3>2 DEF IsForest
    <3>5. CASE m = k
      BY <1>1, <3>3, <3>4, <3>5, NodeOrder
    <3>6. CASE m # k
      <4>1. m < k
        BY <1>2, <3>3, <3>6
      <4>2. l \in Ancestors(r)
        BY <1>1, <3>3, <4>1, OutermostFirst
      <4>3. NodeBefore(l, r)
        BY <1>2, <4>2 DEF IsForest, Located
      <4> QED
        BY <3>2, <3>4, <4>3, NodeTrans, NodeOrder
    <3> QED
      BY <3>5, <3>6
  <2>6. c \in Children(r)
    <3>1. Len(<<>>) = 0
      OBVIOUS
    <3>2. t # <<>>
      <4> HIDE DEF t
      <4> QED
        BY <2>4, <3>1
    <3>3. Last(t) = r
      BY <2>2, <2>3, <2>5, <3>2, OutermostFirst
    <3> QED
      BY <2>2, <3>2, <3>3 DEF Children
  <2> QED
    BY <1>2, <2>2, <2>6
<1> QED
  BY <1>3, <1>4

\* Two children of one item hold nothing in common.
LEMMA ChildrenApart ==
  ASSUME Scanned, IsForest, NEW r \in Refs, NEW x \in Children(r), NEW y \in Children(r), x # y
  PROVE  Read(x) \cap Read(y) = {}
<1>1. ASSUME NEW a \in Children(r), NEW b \in Children(r), a \in Ancestors(b) PROVE FALSE
  <2> DEFINE s == above[b]  n == Len(s)
  <2>1. /\ s # <<>> /\ Last(s) = r /\ above[a] # <<>> /\ Last(above[a]) = r /\ a \in Refs /\ b \in Refs
    BY DEF Children
  <2>2. n \in Nat /\ n \in 1..n /\ s[n] = r
    BY <2>1, OutermostFirst
  <2>3. r \in Ancestors(a)
    BY <2>1, OutermostFirst
  <2>4. PICK k \in 1..n : s[k] = a
    BY <1>1, <2>1, OutermostFirst
  <2>5. a \in Located /\ r \in Located /\ r \in Refs
    BY <2>1, <2>2, <2>4, OutermostFirst
  <2>6. NodeBefore(r, a)
    BY <2>3, <2>5 DEF IsForest, Located
  <2>7. CASE k = n
    BY <2>1, <2>2, <2>4, <2>6, <2>7, NodeOrder
  <2>8. CASE k # n
    <3>1. k < n
      BY <2>2, <2>4, <2>8
    <3>2. a \in Ancestors(r)
      BY <2>1, <2>2, <2>4, <3>1, OutermostFirst
    <3>3. NodeBefore(a, r)
      BY <2>5, <3>2 DEF IsForest, Located
    <3> QED
      BY <2>1, <2>5, <2>6, <3>3, NodeTrans, NodeOrder
  <2> QED
    BY <2>7, <2>8
<1> SUFFICES ASSUME NEW f \in Read(x), f \in Read(y) PROVE FALSE
  OBVIOUS
<1>2. x \in Refs /\ y \in Refs
  BY DEF Children
<1> QED
  BY <1>1, <1>2, OneInsideOther

\* What no item inside r holds is what no child of r does.
LEMMA InnermostIs ==
  ASSUME Scanned, IsForest, NEW r \in Refs
  PROVE  InnermostOf(r) = Read(r) \ UNION {Read(c) : c \in Children(r)}
<1> DEFINE Below == {e \in Located \ {r} : Inside(PathOf(e), PathOf(r)) /\ NodeBefore(r, e)}
<1>0. Located \subseteq Refs
  BY DEF Located
<1>1. ASSUME NEW f \in Read(r), NEW e \in Below, f \in Read(e)
      PROVE  \E c \in Children(r) : f \in Read(c)
  <2>1. e \in Refs /\ e # r /\ NodeBefore(r, e)
    BY <1>0
  <2>2. r \in Ancestors(e) \/ e \in Ancestors(r)
    BY <1>1, <2>1, OneInsideOther
  <2>3. e \notin Ancestors(r)
    <3> SUFFICES ASSUME e \in Ancestors(r) PROVE FALSE
      OBVIOUS
    <3>1. r \in Located
      BY <1>1, <2>1, OneInsideOther
    <3>2. NodeBefore(e, r)
      BY <3>1 DEF IsForest
    <3> QED
      BY <2>1, <3>2, NodeTrans, NodeOrder
  <2>4. PICK c \in Children(r) : c = e \/ (c \in Ancestors(e) /\ e \in Located /\ c \in Located)
    BY <2>1, <2>2, <2>3, ChildOnTheWay
  <2>5. CASE c # e
    <3>1. c \in Refs /\ Inside(PathOf(e), PathOf(c))
      BY <1>0, <2>4, <2>5 DEF IsForest
    <3>2. f \in Files \ Locked /\ Inside(f, PathOf(e))
      BY <1>1, <2>1, <2>4, <2>5, ReadFiles
    <3>3. Inside(f, PathOf(c))
      BY <2>1, <3>1, <3>2, FileInside
    <3> QED
      BY <2>4, <2>5, <3>1, <3>2, <3>3, ReadFiles
  <2> QED
    BY <1>1, <2>4, <2>5
<1>2. ASSUME NEW c \in Children(r) PROVE c \in Below
  <2>1. c \in Refs /\ above[c] # <<>> /\ Last(above[c]) = r
    BY DEF Children
  <2>2. r \in Ancestors(c) /\ c \in Located
    BY <2>1, OutermostFirst
  <2>3. r \in Located \ {c} /\ Inside(PathOf(c), PathOf(r)) /\ NodeBefore(r, c)
    BY <2>1, <2>2 DEF IsForest
  <2> QED
    BY <2>2, <2>3
<1>3. InnermostOf(r) = Read(r) \ UNION {Read(e) : e \in Below}
  BY DEF InnermostOf, Read
<1> HIDE DEF Below
<1> QED
  BY <1>1, <1>2, <1>3

\* Children hold part of what their parent does.
LEMMA ChildrenInside ==
  ASSUME Scanned, IsForest, NEW r \in Refs
  PROVE  UNION {Read(c) : c \in Children(r)} \subseteq Read(r)
<1> SUFFICES ASSUME NEW c \in Children(r), NEW f \in Read(c) PROVE f \in Read(r)
  OBVIOUS
<1>1. c \in Refs /\ above[c] # <<>> /\ Last(above[c]) = r
  BY DEF Children
<1>2. r \in Ancestors(c) /\ c \in Located
  BY <1>1, OutermostFirst
<1>3. r \in Located /\ Inside(PathOf(c), PathOf(r))
  BY <1>1, <1>2 DEF IsForest
<1>4. f \in Files \ Locked /\ Inside(f, PathOf(c))
  BY <1>1, <1>2, ReadFiles
<1>5. Inside(f, PathOf(r))
  BY <1>1, <1>3, <1>4, FileInside
<1> QED
  BY <1>3, <1>4, <1>5, ReadFiles

\* An item's exclusive share is the files it is the innermost item of.
LEMMA ExclusiveIs ==
  ASSUME Scanned, IsForest, NEW r \in Refs
  PROVE  /\ Exclusive(r) = Cardinality(InnermostOf(r))
         /\ InnermostOf(r) \subseteq Files
<1> DEFINE C == Children(r)
           T == [c \in C |-> Read(c)]
           K == UNION {Read(c) : c \in C}
           n == Cardinality(Read(r))  k == Cardinality(K)
<1>1. C \subseteq Refs /\ IsFiniteSet(C)
  <2>1. C \subseteq Refs
    BY DEF Children
  <2> QED
    BY <2>1, FiniteRefs, FS_Subset
<1>2. BytesIn(C) = k
  <2>1. T \in [C -> SUBSET Files] /\ \A c \in C : Bytes(c) = Cardinality(T[c])
    BY <1>1, ReadFiles
  <2>2. \A x, y \in C : x # y => T[x] \cap T[y] = {}
    BY ChildrenApart
  <2>3. UNION {T[c] : c \in C} = K
    OBVIOUS
  <2> HIDE DEF C, T, K
  <2> QED
    BY <1>1, <2>1, <2>2, <2>3, SumOfBytes
<1>3. K \subseteq Read(r) /\ IsFiniteSet(Read(r)) /\ Bytes(r) = n
  BY ChildrenInside, ReadFiles
<1>4. Cardinality(Read(r) \ K) = n - k /\ n - k \in Nat
  <2> HIDE DEF K
  <2>1. IsFiniteSet(K) /\ IsFiniteSet(Read(r) \ K)
    BY <1>3, FS_Subset
  <2>2. Read(r) = K \cup (Read(r) \ K) /\ K \cap (Read(r) \ K) = {}
    BY <1>3
  <2>3. n = k + Cardinality(Read(r) \ K)
    BY <2>1, <2>2, TwoParts
  <2>4. k \in Nat /\ Cardinality(Read(r) \ K) \in Nat
    BY <2>1, FS_CardinalityType
  <2> QED
    BY <2>3, <2>4
<1>5. Exclusive(r) = Max({0, Bytes(r) - BytesIn(C)})
  BY Zenon DEF Exclusive, BytesIn
<1>6. \A m \in Nat : Max({0, m}) = m
  BY DEF Max
<1>7. InnermostOf(r) = Read(r) \ K
  BY InnermostIs
<1> HIDE DEF n, k, K, C
<1> QED
  BY <1>2, <1>3, <1>4, <1>5, <1>6, <1>7, ReadFiles DEF n

\* No file has two innermost items.
LEMMA InnermostApart ==
  ASSUME Scanned, IsForest, NEW r \in Refs, NEW q \in Refs, r # q
  PROVE  InnermostOf(r) \cap InnermostOf(q) = {}
<1>1. ASSUME NEW a \in Refs, NEW b \in Located, a \in Ancestors(b), NEW f \in Read(b), f \in InnermostOf(a) PROVE FALSE
  <2>1. b \in Located \ {a} /\ Inside(PathOf(b), PathOf(a)) /\ NodeBefore(a, b)
    BY <1>1 DEF IsForest, Located
  <2> QED
    BY <1>1, <2>1 DEF InnermostOf, Read
<1> SUFFICES ASSUME NEW f \in InnermostOf(r), f \in InnermostOf(q) PROVE FALSE
  OBVIOUS
<1>2. f \in Read(r) /\ f \in Read(q)
  BY DEF InnermostOf, Read
<1>3. r \in Located /\ q \in Located /\ (r \in Ancestors(q) \/ q \in Ancestors(r))
  BY <1>2, OneInsideOther
<1> QED
  BY <1>1, <1>2, <1>3

\* So the exclusive shares of any items add up to what they are the innermost
\* items of.
LEMMA SharesAddUp ==
  ASSUME Scanned, IsForest, NEW S, S \subseteq Refs
  PROVE  ExclusiveIn(S) = Cardinality(UNION {InnermostOf(r) : r \in S})
<1> DEFINE T == [r \in S |-> InnermostOf(r)]
<1>1. IsFiniteSet(S)
  BY FiniteRefs, FS_Subset
<1>2. T \in [S -> SUBSET Files] /\ \A r \in S : Exclusive(r) = Cardinality(T[r])
  BY ExclusiveIs
<1>3. \A x, y \in S : x # y => T[x] \cap T[y] = {}
  BY InnermostApart
<1>4. UNION {T[r] : r \in S} = UNION {InnermostOf(r) : r \in S}
  OBVIOUS
<1> HIDE DEF T
<1> QED
  BY <1>1, <1>2, <1>3, <1>4, SumOfExclusive

\* What the items of S are the innermost items of.
Held(S) == UNION {InnermostOf(r) : r \in S}

\* The ledger: every bucket counts what its items are the innermost items of,
\* and the shares of the rules count the same files.
LEMMA LedgerRight == ASSUME Scanned, IsForest PROVE LedgerExact
<1> DEFINE InBucket(b) == {q \in Refs : Bucket(RuleOf(q[1])) = b}
           WithId(id) == {q \in Refs : Id(q) = id}
           Ids(i) == {Id(r) : r \in RefsOf(i)}
<1>1. \A S : S \subseteq Refs => Held(S) \subseteq Files
  BY ExclusiveIs DEF Held
<1>2. ASSUME NEW S, NEW Q, S \subseteq Refs, Q \subseteq Refs, S \cap Q = {} PROVE Held(S) \cap Held(Q) = {}
  BY <1>2, InnermostApart DEF Held
<1>3. \A S : S \subseteq Refs => ExclusiveIn(S) = Cardinality(Held(S))
  BY SharesAddUp DEF Held
<1>4. \A b : Total(b) = Cardinality(Held(InBucket(b)))
  <2>1. \A b : Total(b) = ExclusiveIn(InBucket(b))
    BY Zenon DEF Total, ExclusiveIn
  <2> QED
    BY <1>3, <2>1
<1>5. \A id : ExclusiveOf(id) = Cardinality(Held(WithId(id)))
  <2>1. \A id : ExclusiveOf(id) = ExclusiveIn(WithId(id))
    BY Zenon DEF ExclusiveOf, ExclusiveIn
  <2> QED
    BY <1>3, <2>1
<1>6. ASSUME NEW i \in DOMAIN findings PROVE Share(i) = Cardinality(Held(RefsOf(i)))
  <2> DEFINE S == Ids(i)
             T == [id \in S |-> Held(WithId(id))]
  <2>1. RefsOf(i) \subseteq Refs
    BY DEF Refs
  <2>2. IsFiniteSet(S)
    <3> DEFINE f == [r \in RefsOf(i) |-> Id(r)]
    <3>1. f \in Surjection(RefsOf(i), S)
      BY DEF Surjection
    <3>2. IsFiniteSet(RefsOf(i))
      BY <2>1, FiniteRefs, FS_Subset
    <3> HIDE DEF f, S
    <3> QED
      BY <3>1, <3>2, FS_Surjection
  <2>3. T \in [S -> SUBSET Files]
    BY <1>1
  <2>4. \A x, y \in S : x # y => T[x] \cap T[y] = {}
    <3> SUFFICES ASSUME NEW x \in S, NEW y \in S, x # y PROVE Held(WithId(x)) \cap Held(WithId(y)) = {}
      OBVIOUS
    <3>1. WithId(x) \subseteq Refs /\ WithId(y) \subseteq Refs /\ WithId(x) \cap WithId(y) = {}
      OBVIOUS
    <3> QED
      BY <1>2, <3>1
  <2>5. \A x \in S : ExclusiveOf(x) = Cardinality(T[x])
    BY <1>5
  <2>6. UNION {T[x] : x \in S} = Held(RefsOf(i))
    <3>1. \A x \in S : T[x] = Held(WithId(x))
      OBVIOUS
    <3>2. \A x \in S : \A r \in WithId(x) : r \in RefsOf(i)
      BY RefParts DEF Id, RefsOf
    <3>3. \A r \in RefsOf(i) : Id(r) \in S /\ r \in WithId(Id(r))
      BY <2>1
    <3> HIDE DEF S, T, WithId
    <3> QED
      BY <3>1, <3>2, <3>3 DEF Held
  <2>7. Share(i) = IdsIn(S)
    BY Zenon DEF Share, IdsIn
  <2> HIDE DEF S, T
  <2> QED
    BY <2>2, <2>3, <2>4, <2>5, <2>6, <2>7, SumOfIds
<1>7. SharesIn(DOMAIN findings) = Cardinality(Held(Refs))
  <2> DEFINE S == DOMAIN findings
             T == [i \in S |-> Held(RefsOf(i))]
  <2>1. IsFiniteSet(S)
    <3>1. findings \in Seq([rule : Rule, items : Seq([path : Seq(Nat), key : Seq(Nat)]), failed : BOOLEAN])
      BY PlannerAssumption DEF Scanned
    <3>2. Len(findings) \in Nat /\ DOMAIN findings = 1..Len(findings)
      BY <3>1, LenProperties
    <3> QED
      BY <3>2, FS_Interval
  <2>2. T \in [S -> SUBSET Files] /\ \A i \in S : Share(i) = Cardinality(T[i])
    BY <1>1, <1>6 DEF Refs
  <2>3. \A x, y \in S : x # y => T[x] \cap T[y] = {}
    <3> SUFFICES ASSUME NEW x \in S, NEW y \in S, x # y PROVE Held(RefsOf(x)) \cap Held(RefsOf(y)) = {}
      OBVIOUS
    <3>1. RefsOf(x) \subseteq Refs /\ RefsOf(y) \subseteq Refs /\ RefsOf(x) \cap RefsOf(y) = {}
      BY DEF Refs, RefsOf
    <3> QED
      BY <1>2, <3>1
  <2>4. UNION {T[i] : i \in S} = Held(Refs)
    BY DEF Held, Refs
  <2> HIDE DEF S, T
  <2>5. SharesIn(S) = Cardinality(Held(Refs))
    BY <2>1, <2>2, <2>3, <2>4, SumOfShares
  <2> QED
    BY <2>5 DEF S
<1>8. TotalsIn(Buckets) = Cardinality(Held(Refs))
  <2> DEFINE S == Buckets
             T == [b \in S |-> Held(InBucket(b))]
  <2>1. IsFiniteSet(S)
    <3>1. \A v, w, x, y, z : {v, w, x, y, z} = {v} \cup {w} \cup {x} \cup {y} \cup {z}
      OBVIOUS
    <3>2. ASSUME NEW v, NEW w, NEW x, NEW y, NEW z PROVE IsFiniteSet({v, w, x, y, z})
      <4>1. IsFiniteSet({v} \cup {w})
        BY FS_Singleton, FS_Union
      <4>2. IsFiniteSet({v} \cup {w} \cup {x})
        BY <4>1, FS_Singleton, FS_Union
      <4>3. IsFiniteSet({v} \cup {w} \cup {x} \cup {y})
        BY <4>2, FS_Singleton, FS_Union
      <4>4. IsFiniteSet({v} \cup {w} \cup {x} \cup {y} \cup {z})
        BY <4>3, FS_Singleton, FS_Union
      <4> QED
        BY <3>1, <4>4
    <3> QED
      BY <3>2, Zenon DEF Buckets
  <2>2. T \in [S -> SUBSET Files] /\ \A b \in S : Total(b) = Cardinality(T[b])
    BY <1>1, <1>4
  <2>3. \A x, y \in S : x # y => T[x] \cap T[y] = {}
    <3> SUFFICES ASSUME NEW x \in S, NEW y \in S, x # y PROVE Held(InBucket(x)) \cap Held(InBucket(y)) = {}
      OBVIOUS
    <3>1. InBucket(x) \subseteq Refs /\ InBucket(y) \subseteq Refs /\ InBucket(x) \cap InBucket(y) = {}
      OBVIOUS
    <3> QED
      BY <1>2, <3>1
  <2>4. UNION {T[b] : b \in S} = Held(Refs)
    <3>1. \A rule : Bucket(rule) \in S
      BY DEF Bucket, Buckets
    <3>2. \A r \in Refs : \E b \in S : r \in InBucket(b)
      BY <3>1
    <3>3. \A b \in S : T[b] = Held(InBucket(b)) /\ InBucket(b) \subseteq Refs
      OBVIOUS
    <3> HIDE DEF S, T, InBucket
    <3> QED
      BY <3>2, <3>3 DEF Held
  <2> HIDE DEF S, T
  <2>5. TotalsIn(S) = Cardinality(Held(Refs))
    BY <2>1, <2>2, <2>3, <2>4, SumOfTotals
  <2> QED
    BY <2>5 DEF S
<1>9. MapThenSumSet(Share, DOMAIN findings) = SharesIn(DOMAIN findings)
      /\ MapThenSumSet(Total, Buckets) = TotalsIn(Buckets)
  BY Zenon DEF SharesIn, TotalsIn
<1> HIDE DEF InBucket
<1> QED
  BY <1>4, <1>7, <1>8, <1>9 DEF LedgerExact, Held, InBucket

\* Whatever the scan and the selection, no byte is promised twice or left out,
\* neither by the ledger, over the items of any nesting (Account), nor by the
\* plan's actions (resolveNesting, TotalBytes).
THEOREM BytesAreExact == Spec => []BytesExact
<1>1. IInv => LedgerExact
  BY LedgerRight DEF IInv
<1>2. IInv /\ Measured => BytesExact
  BY <1>1, PlanSums DEF BytesExact
<1> QED
  BY <1>2, Invariance, ActionsMeasured, PTL
=============================================================================
