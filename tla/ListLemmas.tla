----------------------------- MODULE ListLemmas -----------------------------
(***************************************************************************)
(* Facts about lists that the agent searches, appends to and takes entries *)
(* off (QTAILQ_FOREACH, QTAILQ_INSERT_TAIL, QTAILQ_REMOVE), used by the    *)
(* proofs of several components.                                           *)
(***************************************************************************)
EXTENDS SequencesExt, FiniteSetTheorems, SequenceTheorems, TLAPS

\* A set of places of a list has a first one.
LEMMA FirstPlace ==
    ASSUME NEW S, S \subseteq Nat, S # {}
    PROVE  Min(S) \in S /\ \A k \in S : Min(S) <= k
<1>1. PICK i \in S : \A j \in S : ~(<<j, i>> \in OpToRel(<, Nat))
  BY NatLessThanWellFounded, WFMin, Zenon
<1>2. \A j \in S : i <= j
  <2>1. \A j \in S : ~(j < i)
    BY <1>1 DEF OpToRel
  <2> QED
    BY <2>1
<1> QED
  BY <1>2, Zenon DEF Min

\* A set of places of a list has a last one.
LEMMA LastPlace ==
    ASSUME NEW n \in Nat, NEW S, S \subseteq 1 .. n, S # {}
    PROVE  Max(S) \in S /\ \A k \in S : Max(S) >= k
<1> DEFINE T == {n - k : k \in S}
<1>1. T \subseteq Nat /\ T # {}
  <2>1. \A k \in S : n - k \in Nat
    OBVIOUS
  <2>2. PICK k \in S : n - k \in T
    OBVIOUS
  <2> QED
    BY <2>1, <2>2
<1>2. Min(T) \in T /\ \A j \in T : Min(T) <= j
  <2> HIDE DEF T
  <2> QED
    BY <1>1, FirstPlace, Zenon
<1>3. PICK m \in S : Min(T) = n - m
  BY <1>2
<1>4. \A k \in S : m >= k
  <2> TAKE k \in S
  <2>1. n - m <= n - k
    BY <1>2, <1>3
  <2> QED
    BY <2>1
<1> QED
  BY <1>4, Zenon DEF Max

\* Taking an entry off a list moves up those behind it.
LEMMA RemovedPlace ==
    ASSUME NEW E, NEW t \in Seq(E), NEW f \in 1 .. Len(t)
    PROVE  /\ RemoveAt(t, f) \in Seq(E)
           /\ DOMAIN RemoveAt(t, f) = 1 .. Len(t) - 1
           /\ \A i \in 1 .. Len(t) - 1 :
                 RemoveAt(t, f)[i] = IF i < f THEN t[i] ELSE t[i + 1]
<1> DEFINE n == Len(t)
           a == SubSeq(t, 1, f - 1)
           b == SubSeq(t, f + 1, n)
           ab == a \o b
<1>1. n \in Nat /\ f \in Nat /\ f <= n /\ f >= 1
  OBVIOUS
<1>2. /\ a \in Seq(E) /\ Len(a) = f - 1
      /\ \A i \in 1 .. f - 1 : a[i] = t[i]
  BY <1>1
<1>3. /\ b \in Seq(E) /\ Len(b) = n - f
      /\ \A i \in 1 .. n - f : b[i] = t[f + i]
  BY <1>1
<1> HIDE DEF n, a, b
<1>4. /\ ab \in Seq(E)
      /\ Len(ab) = Len(a) + Len(b)
      /\ \A i \in 1 .. Len(a) + Len(b) :
            ab[i] = IF i <= Len(a) THEN a[i] ELSE b[i - Len(a)]
  BY <1>2, <1>3, ConcatProperties
<1> HIDE DEF ab
<1>5. /\ Len(ab) = n - 1 /\ DOMAIN ab = 1 .. n - 1
      /\ \A i \in 1 .. n - 1 :
            ab[i] = IF i <= f - 1 THEN a[i] ELSE b[i - (f - 1)]
  BY <1>1, <1>2, <1>3, <1>4
<1>6. \A i \in 1 .. n - 1 : ab[i] = IF i < f THEN t[i] ELSE t[i + 1]
  <2> TAKE i \in 1 .. n - 1
  <2>1. CASE i < f
    BY <1>1, <1>2, <1>5, <2>1
  <2>2. CASE ~(i < f)
    <3>1. i - (f - 1) \in 1 .. n - f /\ f + (i - (f - 1)) = i + 1
      BY <1>1, <2>2
    <3>2. b[i - (f - 1)] = t[i + 1]
      BY <1>3, <3>1
    <3> QED
      BY <1>1, <1>5, <2>2, <3>2
  <2> QED
    BY <2>1, <2>2
<1> QED
  BY <1>4, <1>5, <1>6 DEF RemoveAt, ab, a, b, n

\* Every other entry is still in the list, and none is new.
LEMMA RemovedOthers ==
    ASSUME NEW E, NEW t \in Seq(E), NEW f \in 1 .. Len(t)
    PROVE  /\ \A i \in DOMAIN RemoveAt(t, f) :
                 \E k \in DOMAIN t : RemoveAt(t, f)[i] = t[k]
           /\ \A k \in DOMAIN t : k # f =>
                 \E i \in DOMAIN RemoveAt(t, f) : RemoveAt(t, f)[i] = t[k]
<1> DEFINE n == Len(t)
           u == RemoveAt(t, f)
<1>1. n \in Nat /\ DOMAIN t = 1 .. n /\ f \in 1 .. n
  OBVIOUS
<1>2. /\ DOMAIN u = 1 .. n - 1
      /\ \A i \in 1 .. n - 1 : u[i] = IF i < f THEN t[i] ELSE t[i + 1]
  BY <1>1, RemovedPlace
<1> HIDE DEF u
<1>3. \A i \in DOMAIN u : \E k \in DOMAIN t : u[i] = t[k]
  <2> TAKE i \in DOMAIN u
  <2>1. (IF i < f THEN i ELSE i + 1) \in DOMAIN t
    BY <1>1, <1>2
  <2> QED
    BY <1>2, <2>1
<1>4. \A k \in DOMAIN t : k # f => \E i \in DOMAIN u : u[i] = t[k]
  <2> TAKE k \in DOMAIN t
  <2> HAVE k # f
  <2> DEFINE i == IF k < f THEN k ELSE k - 1
  <2>1. i \in 1 .. n - 1 /\ u[i] = t[k]
    BY <1>1, <1>2
  <2> HIDE DEF i
  <2> QED
    BY <1>2, <2>1
<1> QED
  BY <1>3, <1>4 DEF u
=============================================================================
