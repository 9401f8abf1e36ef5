--------------------------- MODULE UeGroup_proofs ---------------------------
(***************************************************************************)
(* Proofs about UeGroup, for every number of UE indices and every group    *)
(* size.  The argument: Dist is how many indices the offset is away from   *)
(* the watched UE.  A UE that is passed over has at least GroupSize UEs    *)
(* before it and none of the UEs its direction counted lies beyond it, so  *)
(* the jump of the next frame is at least GroupSize and at most Dist.      *)
(***************************************************************************)
EXTENDS UeGroup, TLAPS, FiniteSetTheorems, WellFoundedInduction

\* The indices between the offset and UE u, going around.
Dist(off, u) == IF off <= u THEN u - off ELSE u + IdxMod - off

\* The offset is a place of the slice and has not jumped over the watched UE.
OnTheWay ==
  /\ watch.ue \in ues
  /\ offset < IdxMod
  /\ wait * GroupSize + Dist(offset, watch.ue) < IdxMod

\* The next jump does not reach beyond the watched UE.
JumpInv ==
  held = "passed" =>
    /\ OnTheWay
    /\ count[watch.dir] <= Dist(offset, watch.ue)
    /\ GroupSize <= Dist(offset, watch.ue)
    /\ Cardinality(ues) > GroupSize

WaitInv == wait > 0 => OnTheWay /\ Cardinality(ues) > GroupSize

\* A frame whose first call is over starts counting from zero.
FrameInv ==
  held = "unseen" /\ ~newFrame /\ Cardinality(ues) > GroupSize =>
    count[watch.dir] = 0 /\ offset < IdxMod

IInv == TypeOK /\ JumpInv /\ WaitInv /\ FrameInv

-----------------------------------------------------------------------------
(* Maxima and cardinalities.                                               *)

\* A set of natural numbers has a least element.
LEMMA Least ==
  ASSUME NEW S \in SUBSET Nat, S # {}
  PROVE  \E n \in S : \A m \in S : n <= m
  <1> DEFINE R == {ss \in Nat \X Nat : ss[1] < ss[2]}
  <1>1. IsWellFoundedOn(R, Nat)
    BY NatLessThanWellFounded DEF OpToRel
  <1> HIDE DEF R
  <1>2. PICK n \in S : \A m \in S : ~(<<m, n>> \in R)
    BY <1>1, WFMin, Zenon
  <1>3. \A m \in S : ~(m < n)
    BY <1>2 DEF R
  <1> QED
    BY <1>3

\* A bounded set of natural numbers has a maximum.
LEMMA MaxOf ==
  ASSUME NEW S \in SUBSET Nat, S # {}, NEW N \in Nat, \A x \in S : x <= N
  PROVE  Max(S) \in S /\ \A y \in S : y <= Max(S)
  <1> DEFINE T == {N - x : x \in S}
  <1>1. T \in SUBSET Nat /\ T # {}
    <2>1. \A x \in S : N - x \in Nat
      OBVIOUS
    <2> QED
      BY <2>1
  <1>2. PICK t \in T : \A m \in T : t <= m
    <2> HIDE DEF T
    <2> QED
      BY <1>1, Least
  <1>3. PICK x \in S : t = N - x
    BY <1>2
  <1>4. \A y \in S : N - x <= N - y
    BY <1>2, <1>3
  <1>5. \A y \in S : x >= y
    <2> SUFFICES ASSUME NEW y \in S PROVE x >= y
      OBVIOUS
    <2>1. x \in Nat /\ y \in Nat /\ N - x <= N - y
      BY <1>4
    <2> QED
      BY <2>1
  <1>6. Max(S) \in S /\ \A y \in S : Max(S) >= y
    BY <1>5, Zenon DEF Max
  <1>7. ASSUME NEW y \in S PROVE y <= Max(S)
    <2>1. y \in Nat /\ Max(S) \in Nat /\ Max(S) >= y
      BY <1>6
    <2> QED
      BY <2>1
  <1> QED
    BY <1>6, <1>7

LEMMA MaxTwo ==
  ASSUME NEW a \in Nat, NEW b \in Nat
  PROVE  /\ Max({a, b}) \in {a, b} /\ a <= Max({a, b}) /\ b <= Max({a, b})
         /\ Min({a, b}) \in {a, b} /\ Min({a, b}) <= a /\ Min({a, b}) <= b
  <1>1. \E x \in {a, b} : \A y \in {a, b} : x >= y
    OBVIOUS
  <1>2. \E x \in {a, b} : \A y \in {a, b} : x =< y
    OBVIOUS
  <1>3. Max({a, b}) \in {a, b} /\ \A y \in {a, b} : Max({a, b}) >= y
    BY <1>1, Zenon DEF Max
  <1>4. Min({a, b}) \in {a, b} /\ \A y \in {a, b} : Min({a, b}) =< y
    BY <1>2, Zenon DEF Min
  <1> HIDE DEF Max, Min
  <1> QED
    BY <1>3, <1>4

\* The cardinality of an interval.
LEMMA IntervalSize ==
  ASSUME NEW a \in Nat, NEW b \in Nat, a <= b
  PROVE  IsFiniteSet(a .. b - 1) /\ Cardinality(a .. b - 1) = b - a
  <1>1. a \in Int /\ b - 1 \in Int
    OBVIOUS
  <1>2. /\ IsFiniteSet(a .. b - 1)
        /\ Cardinality(a .. b - 1) = IF a > b - 1 THEN 0 ELSE b - 1 - a + 1
    BY <1>1, FS_Interval
  <1> QED
    BY <1>2

LEMMA UesFinite ==
  ASSUME ues \in SUBSET Index
  PROVE  /\ IsFiniteSet(ues) /\ Cardinality(ues) \in 0 .. MaxUes /\ ues \in SUBSET Nat
         /\ \A S \in SUBSET ues : IsFiniteSet(S) /\ Cardinality(S) \in Nat /\ Cardinality(S) <= Cardinality(ues)
  <1>1. MaxUes \in Nat /\ 0 \in Nat /\ 0 <= MaxUes
    BY GroupAssumption
  <1>2. IsFiniteSet(Index) /\ Cardinality(Index) = MaxUes - 0
    BY <1>1, IntervalSize DEF Index
  <1>3. IsFiniteSet(ues) /\ Cardinality(ues) <= Cardinality(Index)
    BY <1>2, FS_Subset
  <1>4. Cardinality(ues) \in Nat
    BY <1>3, FS_CardinalityType
  <1>5. Cardinality(ues) \in 0 .. MaxUes
    BY <1>1, <1>2, <1>3, <1>4
  <1>6. \A S \in SUBSET ues : IsFiniteSet(S) /\ Cardinality(S) \in Nat /\ Cardinality(S) <= Cardinality(ues)
    BY <1>3, FS_Subset, FS_CardinalityType
  <1>7. ues \in SUBSET Nat
    BY DEF Index
  <1> QED
    BY <1>3, <1>5, <1>6, <1>7

LEMMA IdxModOK ==
  ASSUME ues \in SUBSET Index, ues # {}
  PROVE  /\ IdxMod \in Nat \ {0} /\ IdxMod <= MaxUes
         /\ \A v \in ues : v \in Nat /\ v < IdxMod
  <1>1. MaxUes \in Nat /\ ues \in SUBSET Nat
    BY GroupAssumption DEF Index
  <1>2. \A x \in ues : x <= MaxUes
    BY <1>1 DEF Index
  <1>3. Max(ues) \in ues /\ \A y \in ues : y <= Max(ues)
    BY <1>1, <1>2, MaxOf
  <1>4. Max(ues) \in 0 .. MaxUes - 1
    BY <1>3 DEF Index
  <1> QED
    BY <1>1, <1>3, <1>4 DEF IdxMod

-----------------------------------------------------------------------------
(* The order of a visit.                                                   *)

Before(off, u) == {v \in ues : Precedes(off, v, u)}

LEMMA DistRange ==
  ASSUME ues \in SUBSET Index, NEW u \in ues, NEW off \in Nat, off < IdxMod
  PROVE  Dist(off, u) \in Nat /\ Dist(off, u) < IdxMod
  <1>1. IdxMod \in Nat /\ u \in Nat /\ u < IdxMod
    BY IdxModOK
  <1> QED
    BY <1>1 DEF Dist

\* At most Dist UEs are visited before u.
LEMMA BeforeBound ==
  ASSUME ues \in SUBSET Index, NEW u \in ues, NEW off \in Nat, off < IdxMod
  PROVE  Cardinality(Before(off, u)) \in Nat /\ Cardinality(Before(off, u)) <= Dist(off, u)
  <1>1. IdxMod \in Nat /\ u \in Nat /\ u < IdxMod /\ \A v \in ues : v \in Nat /\ v < IdxMod
    BY IdxModOK
  <1>2. Cardinality(Before(off, u)) \in Nat
    BY UesFinite DEF Before
  <1>3. CASE off <= u
    <2>1. Before(off, u) \in SUBSET (off .. u - 1)
      <3>1. ASSUME NEW v \in Before(off, u) PROVE v \in off .. u - 1
        <4>1. v \in Nat /\ Precedes(off, v, u)
          BY <1>1 DEF Before
        <4> QED
          BY <1>1, <1>3, <4>1 DEF Precedes
      <3> QED
        BY <3>1
    <2>2. IsFiniteSet(off .. u - 1) /\ Cardinality(off .. u - 1) = u - off
      BY <1>1, <1>3, IntervalSize
    <2>3. Cardinality(Before(off, u)) <= Cardinality(off .. u - 1)
      BY <2>1, <2>2, FS_Subset
    <2> QED
      BY <1>2, <1>3, <2>2, <2>3 DEF Dist
  <1>4. CASE ~(off <= u)
    <2> DEFINE A == off .. IdxMod - 1
               B == 0 .. u - 1
    <2>1. Before(off, u) \in SUBSET (A \cup B)
      <3>1. ASSUME NEW v \in Before(off, u) PROVE v \in A \/ v \in B
        <4>1. v \in Nat /\ v < IdxMod /\ Precedes(off, v, u)
          BY <1>1 DEF Before
        <4> QED
          BY <1>1, <1>4, <4>1 DEF Precedes
      <3> QED
        BY <3>1
    <2>2. IsFiniteSet(A) /\ Cardinality(A) = IdxMod - off
      BY <1>1, IntervalSize
    <2>3. IsFiniteSet(B) /\ Cardinality(B) = u
      <3>1. 0 \in Nat /\ 0 <= u
        BY <1>1
      <3>2. IsFiniteSet(B) /\ Cardinality(B) = u - 0
        BY <1>1, <3>1, IntervalSize
      <3> QED
        BY <1>1, <3>2
    <2>4. A \cap B = {}
      BY <1>1, <1>4
    <2> HIDE DEF A, B
    <2>5. IsFiniteSet(A \cup B) /\ Cardinality(A \cup B) = Cardinality(A) + Cardinality(B)
      <3>1. /\ IsFiniteSet(A \cup B)
            /\ Cardinality(A \cup B) = Cardinality(A) + Cardinality(B) - Cardinality(A \cap B)
        BY <2>2, <2>3, FS_Union
      <3>2. Cardinality(A \cap B) = 0
        BY <2>4, FS_EmptySet
      <3> QED
        BY <1>1, <2>2, <2>3, <3>1, <3>2
    <2>6. Cardinality(Before(off, u)) <= Cardinality(A \cup B)
      BY <2>1, <2>5, FS_Subset
    <2> QED
      BY <1>1, <1>2, <1>4, <2>2, <2>3, <2>5, <2>6 DEF Dist
  <1> QED
    BY <1>3, <1>4

\* Precedes is a strict total order of the UEs.
LEMMA PrecedesOrder ==
  ASSUME ues \in SUBSET Index, NEW off \in Nat, NEW u \in ues, NEW v \in ues, NEW w \in ues
  PROVE  /\ ~Precedes(off, u, u)
         /\ u # v => Precedes(off, u, v) \/ Precedes(off, v, u)
         /\ Precedes(off, u, v) /\ Precedes(off, v, w) => Precedes(off, u, w)
  <1>1. u \in Nat /\ v \in Nat /\ w \in Nat
    BY DEF Index
  <1> QED
    BY <1>1 DEF Precedes

\* A UE that is visited before u has a smaller place.
LEMMA PlaceMonotone ==
  ASSUME ues \in SUBSET Index, NEW off \in Nat, NEW c \in ues, NEW u \in ues, Precedes(off, c, u)
  PROVE  Place(off, c) \in Nat /\ Place(off, c) <= Cardinality(Before(off, u))
  <1>1. IsFiniteSet(Before(off, c)) /\ Cardinality(Before(off, c)) \in Nat
    BY UesFinite DEF Before
  <1>2. c \notin Before(off, c)
    BY PrecedesOrder DEF Before
  <1>3. IsFiniteSet(Before(off, c) \cup {c}) /\ Cardinality(Before(off, c) \cup {c}) = Cardinality(Before(off, c)) + 1
    BY <1>1, <1>2, FS_AddElement
  <1>4. Before(off, c) \cup {c} \in SUBSET Before(off, u)
    <2>1. ASSUME NEW v \in Before(off, c) PROVE v \in Before(off, u)
      <3>1. v \in ues /\ Precedes(off, v, c)
        BY DEF Before
      <3>2. Precedes(off, v, u)
        BY <3>1, PrecedesOrder, Zenon
      <3> QED
        BY <3>1, <3>2 DEF Before
    <2> QED
      BY <2>1 DEF Before
  <1>5. IsFiniteSet(Before(off, u)) /\ Cardinality(Before(off, u)) \in Nat
    BY UesFinite DEF Before
  <1>6. Cardinality(Before(off, c) \cup {c}) <= Cardinality(Before(off, u))
    BY <1>4, <1>5, FS_Subset
  <1>7. Place(off, c) = 1 + Cardinality(Before(off, c))
    BY DEF Place, Before
  <1> QED
    BY <1>1, <1>3, <1>5, <1>6, <1>7

\* Every place is the number of a UE.
LEMMA PlaceRange ==
  ASSUME ues \in SUBSET Index, NEW off \in Nat, NEW u \in ues
  PROVE  Place(off, u) \in 1 .. MaxUes
  <1>1. u \notin Before(off, u) /\ Before(off, u) \in SUBSET (ues \ {u})
    BY PrecedesOrder DEF Before
  <1>2. IsFiniteSet(ues) /\ Cardinality(ues) \in 0 .. MaxUes
    BY UesFinite
  <1>3. IsFiniteSet(ues \ {u}) /\ Cardinality(ues \ {u}) = Cardinality(ues) - 1
    BY <1>2, FS_RemoveElement
  <1>4. Cardinality(Before(off, u)) <= Cardinality(ues \ {u})
    BY <1>1, <1>3, FS_Subset
  <1>5. Cardinality(Before(off, u)) \in Nat
    BY UesFinite DEF Before
  <1>6. Place(off, u) = 1 + Cardinality(Before(off, u))
    BY DEF Place, Before
  <1> QED
    BY <1>2, <1>3, <1>4, <1>5, <1>6, GroupAssumption

LEMMA LastCandidate ==
  ASSUME ues \in SUBSET Index, NEW off \in Nat, NEW ready \in SUBSET ues
  PROVE  /\ LastCandidateCount(off, ready) \in 0 .. MaxUes
         /\ \A N \in Nat : (\A c \in Candidates(off, ready) : Place(off, c) <= N)
                             => LastCandidateCount(off, ready) <= N
  <1> DEFINE S == {0} \cup {Place(off, c) : c \in Candidates(off, ready)}
  <1>1. \A c \in Candidates(off, ready) : c \in ues /\ Place(off, c) \in 1 .. MaxUes
    BY PlaceRange DEF Candidates
  <1>2. MaxUes \in Nat /\ S \in SUBSET (0 .. MaxUes) /\ S # {}
    BY <1>1, GroupAssumption
  <1>3. S \in SUBSET Nat /\ \A x \in S : x <= MaxUes
    BY <1>2
  <1>4. LastCandidateCount(off, ready) = Max(S)
    BY DEF LastCandidateCount
  <1>5. Max(S) \in S
    <2> HIDE DEF S
    <2> QED
      BY <1>2, <1>3, MaxOf
  <1>6. ASSUME NEW N \in Nat, \A c \in Candidates(off, ready) : Place(off, c) <= N
        PROVE  Max(S) <= N
    <2>1. \A x \in S : x <= N
      BY <1>6
    <2> HIDE DEF S
    <2> QED
      BY <1>5, <2>1
  <1> HIDE DEF S
  <1> QED
    BY <1>2, <1>4, <1>5, <1>6

(***************************************************************************)
(* A UE that is ready and no candidate lies at least GroupSize indices and *)
(* at least the number of visited UEs beyond the offset.                   *)
(***************************************************************************)
LEMMA PassedOver ==
  ASSUME ues \in SUBSET Index, NEW off \in Nat, off < IdxMod, NEW ready \in SUBSET ues,
         NEW u \in ready, u \notin Candidates(off, ready)
  PROVE  /\ GroupSize <= Dist(off, u)
         /\ LastCandidateCount(off, ready) <= Dist(off, u)
         /\ Cardinality(ues) > GroupSize
  <1> DEFINE P(x) == {v \in ready : Precedes(off, v, x)}
  <1>1. GroupSize \in Nat
    BY GroupAssumption
  <1>2. \A x : IsFiniteSet(P(x)) /\ Cardinality(P(x)) \in Nat
    BY UesFinite
  <1>3. Cardinality(P(u)) >= GroupSize
    BY <1>1, <1>2 DEF Candidates
  <1>4. IsFiniteSet(Before(off, u)) /\ Cardinality(Before(off, u)) \in Nat
        /\ Cardinality(Before(off, u)) <= Dist(off, u) /\ Dist(off, u) \in Nat
    BY UesFinite, BeforeBound, DistRange DEF Before
  <1>5. Cardinality(P(u)) <= Cardinality(Before(off, u))
    <2>1. P(u) \in SUBSET Before(off, u)
      BY DEF Before
    <2> HIDE DEF P
    <2> QED
      BY <1>4, <2>1, FS_Subset
  <1>6. ASSUME NEW c \in Candidates(off, ready)
        PROVE  Place(off, c) \in Nat /\ Place(off, c) <= Cardinality(Before(off, u))
    <2>1. c \in ready /\ c \in ues /\ Cardinality(P(c)) < GroupSize /\ c # u
      BY DEF Candidates
    <2>2. ~Precedes(off, u, c)
      <3> SUFFICES ASSUME Precedes(off, u, c) PROVE FALSE
        OBVIOUS
      <3>1. P(u) \in SUBSET P(c)
        <4>1. ASSUME NEW v \in P(u) PROVE Precedes(off, v, c)
          <5>1. v \in ues /\ Precedes(off, v, u)
            OBVIOUS
          <5> QED
            BY <2>1, <5>1, PrecedesOrder, Zenon
        <4> QED
          BY <4>1
      <3>2. Cardinality(P(u)) <= Cardinality(P(c))
        <4> HIDE DEF P
        <4> QED
          BY <1>2, <3>1, FS_Subset
      <3> QED
        BY <1>1, <1>2, <1>3, <2>1, <3>2
    <2>3. Precedes(off, c, u)
      BY <2>1, <2>2, PrecedesOrder
    <2> QED
      BY <2>1, <2>3, PlaceMonotone
  <1>7. LastCandidateCount(off, ready) <= Cardinality(Before(off, u))
    BY <1>4, <1>6, LastCandidate
  <1>8. LastCandidateCount(off, ready) \in Nat
    BY LastCandidate, GroupAssumption
  <1>9. Place(off, u) \in 1 .. MaxUes /\ Cardinality(Before(off, u)) < Cardinality(ues)
    <2>1. Before(off, u) \in SUBSET (ues \ {u})
      BY PrecedesOrder DEF Before
    <2>2. IsFiniteSet(ues) /\ Cardinality(ues) \in Nat
      BY UesFinite, GroupAssumption
    <2>3. IsFiniteSet(ues \ {u}) /\ Cardinality(ues \ {u}) = Cardinality(ues) - 1
      BY <2>2, FS_RemoveElement
    <2>4. Cardinality(Before(off, u)) <= Cardinality(ues \ {u})
      BY <2>1, <2>3, FS_Subset
    <2> QED
      BY <1>4, <2>2, <2>3, <2>4, PlaceRange
  <1>10. Cardinality(ues) \in Nat
    BY UesFinite, GroupAssumption
  <1> HIDE DEF P
  <1> QED
    BY <1>1, <1>2, <1>3, <1>4, <1>5, <1>7, <1>8, <1>9, <1>10

-----------------------------------------------------------------------------
(* The call of one direction.                                              *)

\* A number of at most M indices beyond off, going around.
LEMMA GoAround ==
  ASSUME NEW M \in Nat \ {0}, NEW off \in Nat, off < M, NEW j \in Nat, j <= M
  PROVE  (off + j) % M = IF off + j < M THEN off + j ELSE off + j - M
  <1> DEFINE q == (off + j) \div M
             r == (off + j) % M
  <1>1. q \in Int /\ r \in 0 .. M - 1 /\ off + j = M * q + r
    OBVIOUS
  <1> HIDE DEF q, r
  <1>2. q = 0 \/ q = 1
    <2>1. ASSUME q >= 2 PROVE FALSE
      <3>1. M * q >= M * 2
        BY <1>1, <2>1
      <3> QED
        BY <1>1, <3>1
    <2>2. ASSUME q <= -1 PROVE FALSE
      <3>1. M * q <= M * (-1)
        BY <1>1, <2>2
      <3> QED
        BY <1>1, <3>1
    <2> QED
      BY <1>1, <2>1, <2>2
  <1>3. CASE q = 0
    BY <1>1, <1>3 DEF r
  <1>4. CASE q = 1
    <2>1. off + j = M + r
      BY <1>1, <1>4
    <2> QED
      BY <1>1, <2>1 DEF r
  <1> QED
    BY <1>2, <1>3, <1>4

LEMMA JumpIs ==
  ASSUME TypeOK
  PROVE  /\ Jump \in Nat /\ GroupSize <= Jump
         /\ \A d \in Direction, N \in Nat : count[d] <= N /\ GroupSize <= N => Jump <= N
  <1>1. count["dl"] \in Nat /\ count["ul"] \in Nat /\ GroupSize \in Nat
    BY GroupAssumption DEF TypeOK, Direction
  <1> DEFINE least == Min({count["dl"], count["ul"]})
  <1>2. least \in {count["dl"], count["ul"]} /\ least <= count["dl"] /\ least <= count["ul"]
    BY <1>1, MaxTwo
  <1>3. least \in Nat
    BY <1>1, <1>2
  <1>4. Jump = Max({least, GroupSize})
    BY DEF Jump
  <1> HIDE DEF least
  <1>5. Jump \in {least, GroupSize} /\ GroupSize <= Jump
    BY <1>1, <1>3, <1>4, MaxTwo
  <1> QED
    BY <1>1, <1>2, <1>3, <1>5 DEF Direction

\* A jump that stops short of the watched UE brings the offset nearer to it.
LEMMA Nearer ==
  ASSUME ues \in SUBSET Index, NEW u \in ues, NEW off \in Nat, off < IdxMod,
         NEW j \in Nat, j <= Dist(off, u)
  PROVE  /\ (off + j) % IdxMod \in Nat /\ (off + j) % IdxMod < IdxMod
         /\ Dist((off + j) % IdxMod, u) = Dist(off, u) - j
  <1>1. IdxMod \in Nat \ {0} /\ u \in Nat /\ u < IdxMod
    BY IdxModOK
  <1>2. Dist(off, u) \in Nat /\ Dist(off, u) < IdxMod
    BY DistRange
  <1>3. (off + j) % IdxMod = IF off + j < IdxMod THEN off + j ELSE off + j - IdxMod
    BY <1>1, <1>2, GoAround
  <1>4. CASE off <= u
    <2>1. off + j <= u /\ Dist(off, u) = u - off
      BY <1>1, <1>4 DEF Dist
    <2>2. (off + j) % IdxMod = off + j
      BY <1>1, <1>3, <2>1
    <2>3. Dist(off + j, u) = u - (off + j)
      BY <2>1 DEF Dist
    <2> QED
      BY <1>1, <2>1, <2>2, <2>3
  <1>5. CASE ~(off <= u)
    <2>1. Dist(off, u) = u + IdxMod - off /\ off + j <= u + IdxMod
      BY <1>1, <1>5 DEF Dist
    <2>2. CASE off + j < IdxMod
      <3>1. (off + j) % IdxMod = off + j /\ ~(off + j <= u)
        BY <1>1, <1>3, <1>5, <2>2
      <3>2. Dist(off + j, u) = u + IdxMod - (off + j)
        BY <3>1 DEF Dist
      <3> QED
        BY <1>1, <2>1, <2>2, <3>1, <3>2
    <2>3. CASE ~(off + j < IdxMod)
      <3>1. (off + j) % IdxMod = off + j - IdxMod /\ off + j - IdxMod <= u /\ off + j - IdxMod \in Nat
        BY <1>1, <1>3, <2>1, <2>3
      <3>2. Dist(off + j - IdxMod, u) = u - (off + j - IdxMod)
        BY <3>1 DEF Dist
      <3> QED
        BY <1>1, <2>1, <3>1, <3>2
    <2> QED
      BY <2>2, <2>3
  <1> QED
    BY <1>4, <1>5

\* What a state says once w frames have passed with the offset at off.
Way(w, off) ==
  /\ watch.ue \in ues
  /\ off \in Nat /\ off < IdxMod
  /\ w * GroupSize + Dist(off, watch.ue) < IdxMod

\* What the invariant says of the values held', wait', offset' and
\* count'[watch.dir] that a call leaves.
Good(h, w, off, n) ==
  /\ h \in {"unseen", "passed", "free"} /\ w \in Nat
  /\ h = "passed" => /\ Way(w, off) /\ n <= Dist(off, watch.ue)
                     /\ GroupSize <= Dist(off, watch.ue) /\ Cardinality(ues) > GroupSize
  /\ w > 0 => Way(w, off) /\ Cardinality(ues) > GroupSize
  /\ h = "unseen" /\ Cardinality(ues) > GroupSize => n = 0 /\ off < IdxMod

\* The watched UE is not held back by a call with these ready UEs.
Free(off, ready) == watch.ue \notin ready \/ watch.ue \in Candidates(off, ready)

\* The first call of a frame, after which the watched UE is u.
LEMMA WayStart ==
  ASSUME ues \in SUBSET Index, watch.ue \in ues, NEW off \in Nat, off < IdxMod
  PROVE  Way(0, off)
  <1>1. Dist(off, watch.ue) \in Nat /\ Dist(off, watch.ue) < IdxMod
    BY DistRange
  <1>2. 0 * GroupSize = 0
    BY GroupAssumption
  <1> QED
    BY <1>1, <1>2 DEF Way

LEMMA OldWay ==
  ASSUME TypeOK, OnTheWay
  PROVE  Way(wait, offset)
  BY DEF OnTheWay, Way, TypeOK, Index

\* The offset that moves in a new frame keeps the watched UE in front of it.
LEMMA WayMoves ==
  ASSUME IInv, ues # {}, Moves, held = "passed"
  PROVE  Way(wait + 1, (offset + Jump) % IdxMod)
  <1>1. ues \in SUBSET Index /\ watch.ue \in ues /\ offset \in Nat /\ offset < IdxMod
        /\ wait \in Nat /\ GroupSize \in Nat /\ watch.dir \in Direction
    BY GroupAssumption DEF IInv, TypeOK, JumpInv, OnTheWay, Index
  <1> DEFINE D == Dist(offset, watch.ue)
             E == Dist((offset + Jump) % IdxMod, watch.ue)
             W == wait * GroupSize
  <1>2. IdxMod \in Nat /\ D \in Nat
    BY <1>1, IdxModOK, DistRange
  <1>3. count[watch.dir] <= D /\ GroupSize <= D /\ W + D < IdxMod
    BY DEF IInv, JumpInv, OnTheWay
  <1>4. Jump \in Nat /\ GroupSize <= Jump /\ Jump <= D
    BY <1>1, <1>2, <1>3, JumpIs DEF IInv
  <1>5. /\ (offset + Jump) % IdxMod \in Nat /\ (offset + Jump) % IdxMod < IdxMod
        /\ E = D - Jump
    BY <1>1, <1>4, Nearer
  <1>6. W \in Nat /\ (wait + 1) * GroupSize = W + GroupSize
    BY <1>1
  <1> HIDE DEF D, E, W
  <1>7. (wait + 1) * GroupSize + E < IdxMod
    BY <1>1, <1>2, <1>3, <1>4, <1>5, <1>6
  <1> QED
    BY <1>1, <1>5, <1>7 DEF Way, E

\* A call leaves the watched UE passed over only where the jump cannot miss it.
LEMMA GoodPassed ==
  ASSUME ues \in SUBSET Index, NEW off \in Nat, off < IdxMod, NEW ready \in SUBSET ues,
         ~Free(off, ready), NEW w \in Nat, w > 0 => Way(w, off),
         NEW n \in Nat, n \in {0, LastCandidateCount(off, ready)} \/ n <= Dist(off, watch.ue)
  PROVE  Good("passed", w, off, n)
  <1>1. watch.ue \in ready /\ watch.ue \notin Candidates(off, ready) /\ watch.ue \in ues
    BY DEF Free
  <1>2. /\ GroupSize <= Dist(off, watch.ue)
        /\ LastCandidateCount(off, ready) <= Dist(off, watch.ue)
        /\ Cardinality(ues) > GroupSize
    BY <1>1, PassedOver
  <1>3. Dist(off, watch.ue) \in Nat
    BY <1>1, DistRange
  <1>4. Way(w, off)
    <2>1. CASE w = 0
      BY <1>1, <2>1, WayStart
    <2> QED
      BY <2>1
  <1>5. n <= Dist(off, watch.ue)
    BY <1>2, <1>3
  <1> QED
    BY <1>2, <1>4, <1>5 DEF Good

\* What a call writes.
LEMMA FillValues ==
  ASSUME IInv, NEW dir \in Direction, NEW ready \in SUBSET ues, FillUeCandidateGroup(dir, ready)
  PROVE  /\ offset' = NextOffset /\ offset' \in Index
         /\ count' \in [Direction -> 0 .. MaxUes]
         /\ dir # watch.dir => count'[watch.dir] = IF Moves THEN 0 ELSE count[watch.dir]
         /\ dir = watch.dir /\ Moves => count'[watch.dir] \in {0, LastCandidateCount(offset', ready)}
         /\ dir = watch.dir /\ ~Moves =>
              count'[watch.dir] \in {count[watch.dir], LastCandidateCount(offset', ready)}
  <1> DEFINE off == NextOffset
             base == IF Moves THEN [d \in Direction |-> 0] ELSE count
             lcc == LastCandidateCount(off, ready)
  <1>1. /\ ues \in SUBSET Index /\ ues # {} /\ offset \in Index /\ watch.dir \in Direction
        /\ count \in [Direction -> 0 .. MaxUes] /\ MaxUes \in Nat \ {0}
    BY GroupAssumption DEF IInv, TypeOK, FillUeCandidateGroup
  <1>2. IdxMod \in Nat \ {0} /\ IdxMod <= MaxUes
    BY <1>1, IdxModOK
  <1>3. Jump \in Nat
    BY JumpIs DEF IInv
  <1>4. off \in Index
    <2>1. (offset + Jump) % IdxMod \in 0 .. IdxMod - 1
      BY <1>1, <1>2, <1>3 DEF Index
    <2>2. off \in {0, (offset + Jump) % IdxMod, offset}
      <3> HIDE DEF Moves, Jump
      <3> QED
        BY DEF NextOffset
    <2>3. 0 \in Index /\ (offset + Jump) % IdxMod \in Index
      BY <1>1, <1>2, <2>1 DEF Index
    <2> QED
      BY <1>1, <2>2, <2>3
  <1>5. off \in Nat
    BY <1>4 DEF Index
  <1>6. base \in [Direction -> 0 .. MaxUes]
    BY <1>1
  <1>7. lcc \in 0 .. MaxUes
    BY <1>1, <1>5, LastCandidate
  <1>8. offset' = off /\ count' = [base EXCEPT ![dir] = Max({base[dir], lcc})]
    BY DEF FillUeCandidateGroup
  <1> HIDE DEF off, lcc
  <1>9. Max({base[dir], lcc}) \in {base[dir], lcc}
    <2>1. base[dir] \in Nat /\ lcc \in Nat
      BY <1>1, <1>6, <1>7
    <2> HIDE DEF base
    <2> QED
      BY <2>1, MaxTwo
  <1> DEFINE m == Max({base[dir], lcc})
  <1>10. m \in {base[dir], lcc} /\ count' = [base EXCEPT ![dir] = m]
    BY <1>8, <1>9
  <1> HIDE DEF m
  <1>11. m \in 0 .. MaxUes
    BY <1>6, <1>7, <1>10
  <1>12. count' \in [Direction -> 0 .. MaxUes]
    BY <1>6, <1>10, <1>11
  <1>13. dir # watch.dir => count'[watch.dir] = base[watch.dir]
    BY <1>1, <1>6, <1>10
  <1>14. dir = watch.dir => count'[watch.dir] \in {base[watch.dir], lcc}
    BY <1>1, <1>6, <1>10
  <1>15. base[watch.dir] = IF Moves THEN 0 ELSE count[watch.dir]
    BY <1>1
  <1> HIDE DEF base
  <1> QED
    BY <1>4, <1>8, <1>12, <1>13, <1>14, <1>15 DEF off, lcc

\* What a call does to the observation, with before and waited as in Observe.
LEMMA Observed ==
  ASSUME TypeOK, NEW dir \in Direction, NEW off \in Nat, NEW ready \in SUBSET ues, Observe(dir, off, ready)
  PROVE  LET before == IF newFrame THEN "unseen" ELSE held
             waited == IF newFrame
                         THEN IF held = "passed" /\ Cardinality(ues) > GroupSize THEN wait + 1 ELSE 0
                         ELSE wait
         IN \/ dir # watch.dir /\ held' = before /\ wait' = waited
            \/ dir = watch.dir /\ held' = "free" /\ wait' = 0
            \/ /\ dir = watch.dir /\ ~Free(off, ready) /\ before # "free"
               /\ held' = "passed" /\ wait' = waited
  BY Zenon DEF Observe, Free

LEMMA FillInv ==
  ASSUME IInv, NEW dir \in Direction, NEW ready \in SUBSET ues, FillUeCandidateGroup(dir, ready)
  PROVE  Good(held', wait', offset', count'[watch.dir])
  <1> DEFINE before == IF newFrame THEN "unseen" ELSE held
             waited == IF newFrame
                         THEN IF held = "passed" /\ Cardinality(ues) > GroupSize THEN wait + 1 ELSE 0
                         ELSE wait
             n == count'[watch.dir]
  <1>1. /\ ues \in SUBSET Index /\ ues # {} /\ offset \in Nat /\ watch.dir \in Direction /\ wait \in Nat
        /\ held \in {"unseen", "passed", "free"} /\ newFrame \in BOOLEAN
        /\ Cardinality(ues) \in Nat /\ GroupSize \in Nat \ {0} /\ count[watch.dir] \in Nat
    BY GroupAssumption, UesFinite DEF IInv, TypeOK, FillUeCandidateGroup, Index
  <1>2. IdxMod \in Nat \ {0}
    BY <1>1, IdxModOK
  <1>3. offset' = NextOffset /\ offset' \in Nat /\ n \in Nat
    BY <1>1, FillValues, GroupAssumption DEF Index
  <1>4. \/ dir # watch.dir /\ held' = before /\ wait' = waited
        \/ dir = watch.dir /\ held' = "free" /\ wait' = 0
        \/ /\ dir = watch.dir /\ ~Free(offset', ready) /\ before # "free"
           /\ held' = "passed" /\ wait' = waited
    <2>1. Observe(dir, offset', ready)
      BY <1>3 DEF FillUeCandidateGroup
    <2> QED
      BY <1>3, <2>1, Observed DEF IInv
  <1>5. ASSUME dir = watch.dir, held' = "free", wait' = 0
        PROVE  Good(held', wait', offset', n)
    BY <1>5 DEF Good
  \* Everyone fits into the group.
  <1>6. CASE Cardinality(ues) <= GroupSize
    <2>1. offset' = 0 /\ ~Moves
      <3>1. ~Moves
        BY <1>1, <1>6 DEF Moves
      <3> QED
        BY <1>3, <1>6, <3>1, Zenon DEF NextOffset
    <2>2. ~(Cardinality(ues) > GroupSize)
      BY <1>1, <1>6
    <2>3. held # "passed" /\ wait = 0
      BY <1>1, <2>2 DEF IInv, JumpInv, WaitInv
    <2>4. waited = 0 /\ before # "passed" /\ before \in {"unseen", "passed", "free"}
      BY <1>1, <2>2, <2>3
    <2>5. Free(offset', ready)
      <3> SUFFICES ASSUME ~Free(offset', ready) PROVE FALSE
        OBVIOUS
      <3>1. watch.ue \in ready /\ watch.ue \notin Candidates(offset', ready)
        BY DEF Free
      <3>2. offset' < IdxMod
        BY <1>2, <2>1
      <3> QED
        BY <1>1, <1>3, <2>2, <3>1, <3>2, PassedOver
    <2> HIDE DEF before, waited
    <2> QED
      BY <1>4, <1>5, <2>2, <2>4, <2>5 DEF Good
  \* The first call of a frame.
  <1>7. CASE Cardinality(ues) > GroupSize /\ newFrame
    <2>1. Moves /\ offset' = (offset + Jump) % IdxMod
      <3>1. ~(Cardinality(ues) <= GroupSize)
        BY <1>1, <1>7
      <3> QED
        BY <1>3, <1>7, <3>1, Zenon DEF NextOffset, Moves
    <2>2. offset' < IdxMod
      <3>1. Jump \in Nat
        BY JumpIs DEF IInv
      <3>2. (offset + Jump) % IdxMod \in 0 .. IdxMod - 1
        BY <1>1, <1>2, <3>1
      <3> QED
        BY <1>2, <2>1, <3>2
    <2>3. before = "unseen" /\ waited \in Nat
      BY <1>1, <1>7
    <2>4. waited > 0 => Way(waited, offset')
      <3>1. CASE held = "passed"
        <4>1. Way(wait + 1, (offset + Jump) % IdxMod)
          BY <1>1, <2>1, <3>1, WayMoves
        <4> QED
          BY <1>7, <2>1, <3>1, <4>1
      <3>2. CASE held # "passed"
        BY <1>7, <3>2
      <3> QED
        BY <3>1, <3>2
    <2>5. CASE dir # watch.dir
      <3>1. n = 0
        BY <2>1, <2>5, FillValues
      <3>2. held' = "unseen" /\ wait' = waited
        BY <1>4, <2>3, <2>5
      <3> HIDE DEF before, waited
      <3> QED
        BY <1>7, <2>2, <2>3, <2>4, <3>1, <3>2 DEF Good
    <2>6. CASE dir = watch.dir /\ ~Free(offset', ready) /\ held' = "passed" /\ wait' = waited
      <3>1. n \in {0, LastCandidateCount(offset', ready)}
        BY <2>1, <2>6, FillValues
      <3>2. Good("passed", waited, offset', n)
        <4> HIDE DEF before, waited, n
        <4> QED
          BY <1>1, <1>3, <2>2, <2>3, <2>4, <2>6, <3>1, GoodPassed
      <3> HIDE DEF waited
      <3> QED
        BY <2>6, <3>2
    <2> QED
      BY <1>4, <1>5, <2>5, <2>6
  \* A later call of the frame.
  <1>8. CASE Cardinality(ues) > GroupSize /\ ~newFrame
    <2>1. ~Moves /\ offset' = offset
      <3>1. ~(Cardinality(ues) <= GroupSize)
        BY <1>1, <1>8
      <3> QED
        BY <1>3, <1>8, <3>1, Zenon DEF NextOffset, Moves
    <2>2. before = held /\ waited = wait
      BY <1>8
    <2>3. wait > 0 => Way(wait, offset)
      BY OldWay DEF IInv, WaitInv
    <2>4. held = "passed" => Way(wait, offset) /\ count[watch.dir] <= Dist(offset, watch.ue)
                             /\ GroupSize <= Dist(offset, watch.ue)
      BY OldWay DEF IInv, JumpInv
    <2>5. held = "unseen" => count[watch.dir] = 0 /\ offset < IdxMod
      BY <1>8 DEF IInv, FrameInv
    <2>6. CASE dir # watch.dir
      <3>1. n = count[watch.dir]
        BY <2>1, <2>6, FillValues
      <3>2. held' = held /\ wait' = wait
        BY <1>4, <2>2, <2>6
      <3> HIDE DEF before, waited
      <3> QED
        BY <1>1, <1>8, <2>1, <2>3, <2>4, <2>5, <3>1, <3>2 DEF Good
    <2>7. CASE dir = watch.dir /\ ~Free(offset', ready) /\ held # "free" /\ held' = "passed" /\ wait' = wait
      <3>1. n \in {count[watch.dir], LastCandidateCount(offset', ready)}
        BY <2>1, <2>7, FillValues
      <3>2. offset < IdxMod
        BY <1>1, <2>4, <2>5, <2>7 DEF Way
      <3>3. n \in {0, LastCandidateCount(offset, ready)} \/ n <= Dist(offset, watch.ue)
        <4> HIDE DEF n
        <4> QED
          BY <1>1, <2>1, <2>4, <2>5, <2>7, <3>1
      <3>4. Good("passed", wait, offset, n)
        <4> HIDE DEF before, waited, n
        <4> QED
          BY <1>1, <1>3, <2>1, <2>3, <2>7, <3>2, <3>3, GoodPassed
      <3> QED
        BY <2>1, <2>7, <3>4
    <2> HIDE DEF before, waited
    <2> QED
      BY <1>4, <1>5, <2>2, <2>6, <2>7
  <1> QED
    BY <1>1, <1>6, <1>7, <1>8

-----------------------------------------------------------------------------
(* The invariant.                                                          *)

LEMMA InitInv ==
  ASSUME Init
  PROVE  IInv
  <1>1. MaxUes \in Nat \ {0} /\ 0 \in Index /\ 0 \in 0 .. MaxUes
    BY GroupAssumption DEF Index
  <1>2. TypeOK
    BY <1>1 DEF Init, TypeOK
  <1>3. held = "unseen" /\ wait = 0 /\ newFrame = TRUE
    BY DEF Init
  <1> QED
    BY <1>2, <1>3 DEF IInv, JumpInv, WaitInv, FrameInv

LEMMA NextInv ==
  ASSUME IInv, [Next]_vars
  PROVE  IInv'
  <1>1. ASSUME NEW dir \in Direction, NEW ready \in SUBSET ues, FillUeCandidateGroup(dir, ready)
        PROVE  IInv'
    <2>1. /\ ues' = ues /\ watch' = watch /\ newFrame' = FALSE
      BY <1>1 DEF FillUeCandidateGroup
    <2>2. Good(held', wait', offset', count'[watch.dir])
      BY <1>1, FillInv
    <2>3. offset' \in Index /\ count' \in [Direction -> 0 .. MaxUes]
      BY <1>1, FillValues
    <2>4. TypeOK'
      BY <2>1, <2>2, <2>3 DEF IInv, TypeOK, Good
    <2>5. IdxMod' = IdxMod
      BY <2>1 DEF IdxMod
    <2>6. Dist(offset, watch.ue)' = Dist(offset', watch.ue)
      BY <2>1, <2>5 DEF Dist
    <2>7. Way(wait', offset') => OnTheWay'
      BY <2>1, <2>5, <2>6 DEF Way, OnTheWay
    <2>8. JumpInv'
      BY <2>1, <2>2, <2>6, <2>7 DEF JumpInv, Good
    <2>9. WaitInv'
      BY <2>1, <2>2, <2>7 DEF WaitInv, Good
    <2>10. FrameInv'
      BY <2>1, <2>2, <2>5 DEF FrameInv, Good
    <2> QED
      BY <2>4, <2>8, <2>9, <2>10 DEF IInv
  <1>2. CASE NextSfn
    <2>1. /\ ues' = ues /\ watch' = watch /\ offset' = offset /\ count' = count
          /\ held' = held /\ wait' = wait /\ newFrame' = TRUE
      BY <1>2 DEF NextSfn
    <2>2. TypeOK' /\ FrameInv'
      BY <2>1 DEF IInv, TypeOK, FrameInv
    <2>3. JumpInv' /\ WaitInv'
      BY <2>1 DEF IInv, JumpInv, WaitInv, OnTheWay, Dist, IdxMod
    <2> QED
      BY <2>2, <2>3 DEF IInv
  <1>3. ASSUME NEW u \in Index, AddUe(u) \/ RemUe(u) PROVE IInv'
    <2>1. /\ ues' \in SUBSET Index /\ watch' = watch /\ offset' = offset /\ count' = count
          /\ held' = "free" /\ wait' = 0 /\ newFrame' = newFrame
      BY <1>3 DEF IInv, TypeOK, AddUe, RemUe, Restart
    <2>2. TypeOK'
      BY <2>1 DEF IInv, TypeOK
    <2>3. JumpInv' /\ WaitInv' /\ FrameInv'
      BY <2>1 DEF JumpInv, WaitInv, FrameInv
    <2> QED
      BY <2>2, <2>3 DEF IInv
  <1>4. CASE UNCHANGED vars
    <2>1. /\ ues' = ues /\ watch' = watch /\ offset' = offset /\ count' = count
          /\ held' = held /\ wait' = wait /\ newFrame' = newFrame
      BY <1>4 DEF vars
    <2> QED
      BY <2>1 DEF IInv, TypeOK, JumpInv, WaitInv, FrameInv, OnTheWay, Dist, IdxMod
  <1> QED
    BY <1>1, <1>2, <1>3, <1>4 DEF Next

(***************************************************************************)
(* The state is of its type, and while a ready UE is passed over the next  *)
(* jump of the shared offset stops short of it                             *)
(* (slice_ue_group_scheduler::fill_ue_candidate_group).                    *)
(***************************************************************************)
THEOREM UeGroupInvariant == Spec => []IInv
  <1>1. Init => IInv
    BY InitInv
  <1>2. IInv /\ [Next]_vars => IInv'
    BY NextInv
  <1> QED
    BY <1>1, <1>2, PTL DEF Spec

(***************************************************************************)
(* For every number of indices and every group size, a UE that stays ready *)
(* in a slice whose UEs stay is passed over in fewer frames than the group *)
(* needs to go once around the indices of the slice.                       *)
(***************************************************************************)
THEOREM NoUeStarvedAlways == Spec => []NoUeStarved
  <1>1. IInv => NoUeStarved
    <2> SUFFICES ASSUME IInv, ues # {} PROVE wait * GroupSize < IdxMod
      BY DEF IInv, NoUeStarved
    <2>1. ues \in SUBSET Index /\ wait \in Nat /\ GroupSize \in Nat /\ offset \in Nat
      BY GroupAssumption DEF IInv, TypeOK, Index
    <2>2. IdxMod \in Nat \ {0}
      BY <2>1, IdxModOK
    <2>3. CASE wait = 0
      <3>1. 0 * GroupSize = 0
        BY <2>1
      <3> QED
        BY <2>2, <2>3, <3>1
    <2>4. CASE wait > 0
      <3>1. OnTheWay
        BY <2>4 DEF IInv, WaitInv
      <3>2. Dist(offset, watch.ue) \in Nat
        BY <2>1, <3>1, DistRange DEF OnTheWay
      <3>3. wait * GroupSize \in Nat
        BY <2>1
      <3> QED
        BY <2>2, <3>1, <3>2, <3>3 DEF OnTheWay
    <2> QED
      BY <2>1, <2>3, <2>4
  <1> QED
    BY <1>1, UeGroupInvariant, PTL

=============================================================================
