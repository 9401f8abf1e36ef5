----------------------- MODULE SliceAllocation_proofs -----------------------
(***************************************************************************)
(* Theorems about SliceAllocation: for every grid, every set of UEs,        *)
(* weights and limits, the two stages of the DL allocation keep within the  *)
(* slice's RBs, never ask for a grant of no RBs, only take free VRBs and    *)
(* only leave a grant empty if its UE was weighted 0 or less.               *)
(***************************************************************************)
EXTENDS SliceAllocation, FiniteSetTheorems, WellFoundedInduction, TLAPS

(* Arithmetic *)

\* The quotient of the even share: rbs / n in both stages.
LEMMA Quotient ==
  ASSUME NEW a \in Nat, NEW n \in Nat, n >= 1
  PROVE  /\ a \div n \in Nat
         /\ n * (a \div n) <= a
         /\ a >= n => a \div n >= 1
  OBVIOUS

\* The quotient of a weight's part, in tenths.
LEMMA Tenth ==
  ASSUME NEW a \in Int
  PROVE  a \div 10 \in Int
  OBVIOUS

\* Stage 2's shares: the next grant's bound, and that one share fits.
LEMMA NextShare ==
  ASSUME NEW i \in Nat, NEW m \in Nat
  PROVE  /\ i * m \in Nat
         /\ (i + 1) * m = i * m + m
  OBVIOUS

\* Fewer shares take no more RBs.
LEMMA ShareMonotone ==
  ASSUME NEW i \in Nat, NEW n \in Nat, NEW m \in Nat, i <= n
  PROVE  i * m <= n * m
  OBVIOUS

\* A product of integers is an integer: the weighted RBs before the division.
LEMMA ProductInt ==
  ASSUME NEW a \in Int, NEW b \in Int
  PROVE  a * b \in Int
  OBVIOUS

-----------------------------------------------------------------------------
(* The interval search *)

\* A non-empty set of naturals has a least element.
LEMMA Least ==
  ASSUME NEW T \in SUBSET Nat, T # {}
  PROVE  \E x \in T : \A y \in T : x <= y
<1> DEFINE R == {ss \in Nat \X Nat : ss[1] < ss[2]}
<1>1. IsWellFoundedOn(R, Nat)
  BY NatLessThanWellFounded DEF OpToRel
<1> HIDE DEF R
<1>2. PICK x \in T : \A y \in T : ~(<<y, x>> \in R)
  BY <1>1, WFMin, Zenon
<1>3. \A y \in T : ~(y < x)
  BY <1>2 DEF R
<1> QED
  BY <1>3

\* Of a set of intervals, one starts first.
LEMMA FirstInterval ==
  ASSUME NEW S, S \subseteq [start : Vrb, stop : 1..NofVrbs], S # {}
  PROVE  \E x \in S : \A y \in S : x.start <= y.start
<1> DEFINE T == {x.start : x \in S}
<1>1. T \subseteq Nat /\ T # {}
  BY VrbAssumption DEF Vrb
<1> HIDE DEF T
<1>2. PICK t \in T : \A y \in T : t <= y
  BY <1>1, Least
<1> QED
  BY <1>2 DEF T

\* Of a set of intervals, one is the first of the longest.
LEMMA LongestInterval ==
  ASSUME NEW S, S \subseteq [start : Vrb, stop : 1..NofVrbs], S # {}
  PROVE  \E x \in S : \A y \in S :
           Length(x) > Length(y) \/ (Length(x) = Length(y) /\ x.start <= y.start)
<1> USE VrbAssumption
<1> DEFINE T == {NofVrbs - Length(x) + NofVrbs : x \in S}
<1>0. \A x \in S : x.start \in 0..(NofVrbs - 1) /\ x.stop \in 1..NofVrbs
  BY DEF Vrb
<1>1. T \subseteq Nat /\ T # {}
  BY <1>0 DEF Length
<1> HIDE DEF T
<1>2. PICK t \in T : \A y \in T : t <= y
  BY <1>1, Least
<1> DEFINE L == {x \in S : NofVrbs - Length(x) + NofVrbs = t}
<1>3. L \subseteq S /\ L # {}
  BY <1>2 DEF T
<1>4. \A y \in S : t <= NofVrbs - Length(y) + NofVrbs
  BY <1>2 DEF T
<1>5. PICK x \in L : \A y \in L : x.start <= y.start
  BY <1>3, FirstInterval
<1>6. ASSUME NEW y \in S
      PROVE  Length(x) > Length(y) \/ (Length(x) = Length(y) /\ x.start <= y.start)
  <2>1. t = NofVrbs - Length(x) + NofVrbs /\ t <= NofVrbs - Length(y) + NofVrbs
    BY <1>4, <1>5, <1>6
  <2>2. Length(x) \in Int /\ Length(y) \in Int
    BY <1>0, <1>3, <1>5, <1>6 DEF Length
  <2>3. CASE y \in L
    BY <1>5, <2>1, <2>2, <2>3
  <2>4. CASE y \notin L
    BY <1>6, <2>1, <2>2, <2>4
  <2> QED
    BY <2>3, <2>4
<1> QED
  BY <1>3, <1>5, <1>6

\* Where a VRB is free there is a gap: find_next_empty_interval finds one.
LEMMA GapExists ==
  ASSUME NEW U \in SUBSET Vrb, NEW v \in Vrb, v \notin U
  PROVE  Gaps(U) # {}
<1> USE VrbAssumption
<1> DEFINE Starts == {s \in 0..v : \A x \in s..v : x \notin U}
           Stops == {t \in (v + 1)..NofVrbs : t = NofVrbs \/ t \in U}
<1>0. v \in 0..(NofVrbs - 1)
  BY DEF Vrb
<1>1. Starts \subseteq Nat /\ v \in Starts
  BY <1>0
<1>2. PICK a \in Starts : \A y \in Starts : a <= y
  BY <1>1, Least, Zenon
<1>3. Stops \subseteq Nat /\ NofVrbs \in Stops
  BY <1>0
<1>4. PICK b \in Stops : \A y \in Stops : b <= y
  BY <1>3, Least, Zenon
<1>5. \A x \in a..(b - 1) : x \notin U
  <2>1. SUFFICES ASSUME NEW x \in a..(b - 1), x \in U
                 PROVE  FALSE
    OBVIOUS
  <2>2. x > v
    BY <1>0, <1>2, <2>1
  <2>3. x \in Stops
    BY <1>0, <1>4, <2>1, <2>2
  <2> QED
    BY <1>4, <2>1, <2>3
<1>6. a > 0 => a - 1 \in U
  <2>1. SUFFICES ASSUME a > 0, a - 1 \notin U
                 PROVE  FALSE
    OBVIOUS
  <2>2. a - 1 \in Starts
    <3>1. \A x \in (a - 1)..v : x = a - 1 \/ x \in a..v
      BY <1>0, <1>2, <2>1
    <3> QED
      BY <1>0, <1>2, <2>1, <3>1
  <2> QED
    BY <1>2, <2>2
<1>7. b < NofVrbs => b \in U
  BY <1>4
<1>8. [start |-> a, stop |-> b] \in Gaps(U)
  BY <1>0, <1>2, <1>4, <1>5, <1>6, <1>7 DEF Gaps, Vrb
<1> QED
  BY <1>8

\* What find_empty_interval_of_length returns: an interval of at most n VRBs of
\* the grid, none of them in use, and a non-empty one if there is a gap.
LEMMA EmptyInterval ==
  ASSUME NEW U \in SUBSET Vrb, NEW n \in Nat
  PROVE  LET g == FindEmptyInterval(U, n)
         IN /\ g.start \in Nat /\ g.stop \in Nat
            /\ g.start <= g.stop /\ g.stop <= NofVrbs
            /\ Length(g) <= n
            /\ VrbsOf(g) \cap U = {}
            /\ n >= 1 /\ Gaps(U) # {} => Length(g) >= 1
<1> USE VrbAssumption
<1> DEFINE Fits == {x \in Gaps(U) : Length(x) >= n}
           g == FindEmptyInterval(U, n)
<1>0. Gaps(U) \subseteq [start : Vrb, stop : 1..NofVrbs]
  BY DEF Gaps
<1>1. ASSUME NEW x \in Gaps(U)
      PROVE  /\ x.start \in Nat /\ x.stop \in Nat
             /\ x.start < x.stop /\ x.stop <= NofVrbs
             /\ \A v \in x.start..(x.stop - 1) : v \notin U
  BY <1>1 DEF Gaps, Vrb
<1>2. CASE Fits # {}
  <2> DEFINE f == CHOOSE x \in Fits : \A y \in Fits : x.start <= y.start
  <2>1. \E x \in Fits : \A y \in Fits : x.start <= y.start
    BY <1>0, <1>2, FirstInterval
  <2>2. f \in Fits
    BY <2>1
  <2>3. g = [start |-> f.start, stop |-> f.start + n]
    BY <1>2 DEF FindEmptyInterval
  <2> HIDE DEF f
  <2>4. f \in Gaps(U) /\ f.stop - f.start >= n
    BY <2>2 DEF Length
  <2>5. \A v \in f.start..(f.start + n - 1) : v \notin U
    BY <1>1, <2>4
  <2>6. g.start = f.start /\ g.stop = f.start + n
    BY <2>3
  <2> HIDE DEF g
  <2> QED
    BY <1>1, <2>4, <2>5, <2>6 DEF Length, VrbsOf, g
<1>3. CASE Fits = {} /\ Gaps(U) # {}
  <2> DEFINE f == CHOOSE x \in Gaps(U) : \A y \in Gaps(U) :
                    Length(x) > Length(y) \/ (Length(x) = Length(y) /\ x.start <= y.start)
  <2>1. f \in Gaps(U)
    BY <1>0, <1>3, LongestInterval
  <2>2. g = f
    BY <1>3 DEF FindEmptyInterval
  <2> HIDE DEF f
  <2>3. ~(Length(f) >= n)
    BY <1>3, <2>1
  <2> HIDE DEF g
  <2> QED
    BY <1>1, <2>1, <2>2, <2>3 DEF Length, VrbsOf, g
<1>4. CASE Gaps(U) = {}
  <2>1. g = NoInterval
    BY <1>4 DEF FindEmptyInterval
  <2> QED
    BY <1>4, <2>1 DEF NoInterval, Length, VrbsOf
<1> QED
  BY <1>2, <1>3, <1>4

\* The VRBs that are not in use: their number, and that one of them is found.
LEMMA UnusedVrbs ==
  ASSUME NEW U \in SUBSET Vrb
  PROVE  /\ IsFiniteSet(U)
         /\ FreeVrbs(U) \in 0..NofVrbs
         /\ FreeVrbs(U) > 0 => Gaps(U) # {}
<1> USE VrbAssumption
<1>1. IsFiniteSet(Vrb) /\ Cardinality(Vrb) = NofVrbs
  BY FS_Interval DEF Vrb
<1>2. IsFiniteSet(U) /\ Cardinality(U) \in Nat /\ Cardinality(U) <= NofVrbs
  BY <1>1, FS_Subset, FS_CardinalityType
<1>3. ASSUME FreeVrbs(U) > 0
      PROVE  Gaps(U) # {}
  <2>1. U # Vrb
    BY <1>1, <1>2, <1>3 DEF FreeVrbs
  <2>2. PICK v \in Vrb : v \notin U
    BY <2>1
  <2> QED
    BY <2>2, GapExists
<1> QED
  BY <1>2, <1>3 DEF FreeVrbs

\* unused_crbs: its range, and that it counts the free VRBs when the CRB limits
\* span the BWP.
LEMMA UnusedCrbsType ==
  ASSUME NEW U \in SUBSET Vrb
  PROVE  /\ UnusedCrbs(U) \in 0..NofVrbs \cup {LargeUnsigned}
         /\ UnusedCrbs(U) \in Nat
         /\ CrbLims = Vrb => UnusedCrbs(U) = FreeVrbs(U)
<1> USE VrbAssumption
<1>1. IsFiniteSet(Vrb) /\ Cardinality(Vrb) = NofVrbs
  BY FS_Interval DEF Vrb
<1>2. Cardinality(U) \in Nat /\ Cardinality(U) <= NofVrbs
  BY <1>1, FS_Subset, FS_CardinalityType
<1>3. Cardinality(CrbLims) \in Nat /\ Cardinality(CrbLims) <= NofVrbs
  BY <1>1, CrbLimsAssumption, FS_Subset, FS_CardinalityType
<1>4. CrbLims = Vrb => Cardinality(CrbLims) = NofVrbs
  BY <1>1
<1> QED
  BY <1>2, <1>3, <1>4 DEF UnusedCrbs, FreeVrbs, LargeUnsigned

\* A grant of free VRBs reduces the unused ones by its length.
LEMMA PlacedVrbs ==
  ASSUME NEW U \in SUBSET Vrb, NEW g, g.start \in Nat, g.stop \in Nat,
         g.start <= g.stop, g.stop <= NofVrbs, VrbsOf(g) \cap U = {}
  PROVE  /\ VrbsOf(g) \in SUBSET Vrb
         /\ FreeVrbs(U \cup VrbsOf(g)) = FreeVrbs(U) - Length(g)
<1> USE VrbAssumption
<1>1. VrbsOf(g) \in SUBSET Vrb
  BY DEF VrbsOf, Vrb
<1>2. IsFiniteSet(VrbsOf(g)) /\ Cardinality(VrbsOf(g)) = Length(g)
  <2> DEFINE a == g.start
             b == g.stop - 1
  <2>1. a \in Int /\ b \in Int /\ a <= b + 1 /\ Length(g) = b - a + 1
    BY DEF Length
  <2> HIDE DEF a, b
  <2>2. /\ IsFiniteSet(a..b)
        /\ Cardinality(a..b) = IF a > b THEN 0 ELSE b - a + 1
    BY <2>1, FS_Interval
  <2>3. VrbsOf(g) = a..b
    BY DEF VrbsOf, a, b
  <2> QED
    BY <2>1, <2>2, <2>3
<1>3. Cardinality(U \cap VrbsOf(g)) = 0
  <2>1. U \cap VrbsOf(g) = {}
    OBVIOUS
  <2> QED
    BY <2>1, FS_EmptySet
<1>4. IsFiniteSet(U) /\ Cardinality(U) \in Nat
  BY UnusedVrbs, FS_CardinalityType
<1>5. Cardinality(U \cup VrbsOf(g)) =
        Cardinality(U) + Cardinality(VrbsOf(g)) - Cardinality(U \cap VrbsOf(g))
  BY <1>2, <1>4, FS_Union, Zenon
<1> QED
  BY <1>1, <1>2, <1>3, <1>4, <1>5 DEF FreeVrbs, Length

\* A candidate needs one RB at least.
LEMMA NeedPositive ==
  ASSUME NEW need \in Needs
  PROVE  need \in Nat /\ need >= 1
<1>1. need \in Nat /\ need # 0
  BY NeedAssumption
<1> QED
  BY <1>1

\* compute_newtx_dl_vrbs asks for no more than the grant may have, and for one
\* RB at least unless the weight is 0 or less.
LEMMA WeightedRbsBounds ==
  ASSUME TypeOK, NEW p \in Pending, NEW unused \in Nat, NEW free \in Nat,
         NEW limit \in Nat, NEW n \in WeightedRbs(p, unused, free, limit)
  PROVE  /\ n \in Nat /\ n <= limit
         /\ (limit >= 1 /\ free > 0 /\ (weight[p.ue] = NoWeight \/ weight[p.ue] > 0)) => n >= 1
<1>0. weight \in [Ue -> Weights \cup {NoWeight}]
  BY DEF TypeOK
<1>1. p.need \in Nat /\ p.need >= 1 /\ weight[p.ue] \in Weights \cup {NoWeight}
  <2>1. p.ue \in Ue /\ p.need \in Needs
    BY DEF Pending
  <2>2. weight[p.ue] \in Weights \cup {NoWeight}
    BY <1>0, <2>1, Zenon
  <2>3. p.need \in Nat /\ p.need >= 1
    BY <2>1, NeedPositive, Zenon
  <2> QED
    BY <2>2, <2>3, Zenon
<1>2. CASE weight[p.ue] = NoWeight
  BY <1>1, <1>2 DEF WeightedRbs, MinOf
<1>3. CASE weight[p.ue] # NoWeight
  <2>1. weight[p.ue] \in Int
    BY <1>1, <1>3, WeightAssumption, Zenon
  <2>2. Cast(weight[p.ue], unused) \subseteq Nat
    <3>1. weight[p.ue] * unused \in Int
      BY <2>1, ProductInt
    <3>2. (weight[p.ue] * unused) \div 10 \in Int
      BY <3>1, Tenth
    <3> QED
      BY <3>2 DEF Cast, MaxOf, LargeUnsigned
  <2>3. PICK c \in Cast(weight[p.ue], unused) :
          n = MinOf(IF weight[p.ue] > 0 /\ MinOf(c, p.need) = 0 /\ free > 0
                    THEN 1 ELSE MinOf(c, p.need), limit)
    BY <1>3 DEF WeightedRbs
  <2> QED
    BY <1>1, <1>3, <2>1, <2>2, <2>3 DEF MinOf
<1> QED
  BY <1>2, <1>3

\* Stage 1's estimate counts one RB at least: no UE is selected for nothing.
LEMMA EstimateBounds ==
  ASSUME TypeOK, NEW p \in Pending, NEW rbs \in Nat
  PROVE  EstimatedPrbs(p, rbs) \in Nat /\ EstimatedPrbs(p, rbs) >= 1
<1>0. weight \in [Ue -> Weights \cup {NoWeight}]
  BY DEF TypeOK
<1>1. p.need \in Nat /\ p.need >= 1 /\ weight[p.ue] \in Weights \cup {NoWeight}
  <2>1. p.ue \in Ue /\ p.need \in Needs
    BY DEF Pending
  <2>2. weight[p.ue] \in Weights \cup {NoWeight}
    BY <1>0, <2>1, Zenon
  <2>3. p.need \in Nat /\ p.need >= 1
    BY <2>1, NeedPositive, Zenon
  <2> QED
    BY <2>2, <2>3, Zenon
<1>2. CASE weight[p.ue] # NoWeight /\ weight[p.ue] > 0
  <2>1. (weight[p.ue] * rbs) \div 10 \in Int
    <3>1. weight[p.ue] \in Int
      BY <1>1, <1>2, WeightAssumption, Zenon
    <3>2. weight[p.ue] * rbs \in Int
      BY <3>1, ProductInt
    <3> QED
      BY <3>2, Tenth
  <2> QED
    BY <1>1, <1>2, <2>1 DEF EstimatedPrbs, MinOf, MaxOf
<1>3. CASE ~(weight[p.ue] # NoWeight /\ weight[p.ue] > 0)
  BY <1>1, <1>3 DEF EstimatedPrbs
<1> QED
  BY <1>2, <1>3

-----------------------------------------------------------------------------
(* The inductive invariant *)

\* reTxs are tried while a grant and an attempt are left; stage 1 starts with
\* the attempts at their limit at most and exceeds it by one at most.
AttemptInv ==
  /\ pc = "retx" => max_ue_grants >= 1 /\ dl_attempts_count < MaxAttempts
  /\ pc \in {"newtx", "stage1"} => dl_attempts_count <= MaxAttempts

\* Stage 1 has RBs to give away, within the slice and the grid, and each UE
\* selected so far was counted with one RB at least.
Stage1Inv ==
  pc = "stage1" =>
    /\ cands # <<>>
    /\ rbs_to_alloc >= 1
    /\ rbs_to_alloc <= quota
    /\ rbs_to_alloc <= FreeVrbs(used)
    /\ max_rbs_per_grant >= 1
    /\ Len(pend) <= rb_count
    /\ rb_count < rbs_to_alloc

\* Stage 2: the even shares fit into the RBs to give away; the k grants before
\* took, together with what they left to the next one, at most k shares; the
\* rest of the RBs is still there in the slice and in the grid.
Stage2Inv ==
  pc = "stage2" =>
    /\ k < Len(pend)
    /\ max_rbs_per_grant >= 1
    /\ Len(pend) * max_rbs_per_grant <= rbs_to_alloc
    /\ rb_count + rbs_missing <= k * max_rbs_per_grant
    /\ rbs_to_alloc <= quota + rb_count
    /\ rbs_to_alloc <= FreeVrbs(used) + rb_count

\* With CRB limits that span the BWP, only UEs of weight 0 or less are cancelled.
CancelInv == CrbLims = Vrb => OnlyZeroWeightCancelled

\* The inductive invariant.
IInv ==
  /\ TypeOK
  /\ AttemptInv
  /\ Stage1Inv
  /\ Stage2Inv
  /\ CancelInv

\* The parts of TypeOK about the locals of schedule_dl_newtx_candidates.
StageTypes ==
  /\ cands \in Seq(Ue)
  /\ pend \in Seq(Pending)
  /\ rbs_to_alloc \in 0..NofVrbs
  /\ max_rbs_per_grant \in Nat
  /\ rb_count \in Nat
  /\ rbs_missing \in Nat
  /\ pucch_full \in BOOLEAN
  /\ k \in Nat

\* What stage 2 asks for is positive and within what is left.
LEMMA GrantSizeBounds ==
  ASSUME IInv, pc = "stage2"
  PROVE  /\ MaxGrantSize \in Nat
         /\ MaxGrantSize >= 1
         /\ rb_count + MaxGrantSize <= rbs_to_alloc
         /\ k # Len(pend) - 1 => rb_count + MaxGrantSize <= (k + 1) * max_rbs_per_grant
<1> USE VrbAssumption
<1> DEFINE m == max_rbs_per_grant
           n == Len(pend)
<1>1. /\ k \in Nat /\ n \in Nat /\ m \in Nat /\ rb_count \in Nat /\ rbs_missing \in Nat
      /\ rbs_to_alloc \in Nat
      /\ k < n /\ m >= 1 /\ n * m <= rbs_to_alloc /\ rb_count + rbs_missing <= k * m
  BY DEF IInv, TypeOK, Stage2Inv
<1>2. k * m \in Nat /\ n * m \in Nat /\ (k + 1) * m = k * m + m
  BY <1>1, NextShare
<1>3. (k + 1) * m <= n * m
  <2>1. k + 1 \in Nat /\ k + 1 <= n
    BY <1>1
  <2> QED
    BY <1>1, <2>1, ShareMonotone
<1> HIDE DEF m, n
<1>4. CASE k = n - 1
  <2>1. MaxGrantSize = rbs_to_alloc - rb_count
    BY <1>4 DEF MaxGrantSize, n
  <2> QED
    BY <1>1, <1>2, <1>3, <1>4, <2>1 DEF n
<1>5. CASE k # n - 1
  <2>1. MaxGrantSize = m + rbs_missing
    BY <1>5 DEF MaxGrantSize, n, m
  <2>2. rb_count + MaxGrantSize <= (k + 1) * m
    BY <1>1, <1>2, <2>1
  <2>3. MaxGrantSize \in Nat /\ MaxGrantSize >= 1
    BY <1>1, <2>1
  <2>4. rb_count + MaxGrantSize <= rbs_to_alloc
    BY <1>1, <1>2, <1>3, <2>2, <2>3
  <2> QED
    BY <2>2, <2>3, <2>4 DEF m
<1> QED
  BY <1>4, <1>5

-----------------------------------------------------------------------------
(* The steps inside schedule_dl_newtx_candidates *)

\* The other parts of TypeOK.
SlotTypes ==
  /\ pc \in {"idle", "slice", "retx", "newtx", "stage1", "stage2"}
  /\ weight \in [Ue -> Weights \cup {NoWeight}]
  /\ used \in SUBSET Vrb
  /\ this_tti_unused_crbs \in 0..NofVrbs \cup {LargeUnsigned}
  /\ captured \in BOOLEAN
  /\ slices \in 0..MaxSlices
  /\ quota \in 0..NofVrbs
  /\ max_ue_grants \in 0..MaxGrants
  /\ dl_attempts_count \in 0..(MaxAttempts + 1)
  /\ grants \in Seq([ue : Ue, vrbs : SUBSET Vrb])
  /\ cancelled \in SUBSET Ue

\* TypeOK is the types of the slot and those of the stages.
LEMMA TypeParts == TypeOK <=> SlotTypes /\ StageTypes
  BY Zenon DEF TypeOK, SlotTypes, StageTypes

\* When schedule_dl_newtx_candidates returns its locals are reset.
LEMMA EndNewtxStep ==
  ASSUME EndNewtx
  PROVE  pc' = "slice" /\ StageTypes'
<1>1. <<>> \in Seq(Ue) /\ <<>> \in Seq(Pending)
  OBVIOUS
<1>2. 0 \in 0..NofVrbs /\ 0 \in Nat
  BY VrbAssumption
<1>3. FALSE \in BOOLEAN
  OBVIOUS
<1> QED
  BY <1>1, <1>2, <1>3, Zenon DEF EndNewtx, StageTypes

\* Stage 1 never selects more UEs than RBs, so the even share is positive.
LEMMA EnterStage2Step ==
  ASSUME IInv, pc = "stage1", NEW p \in Seq(Pending), Len(p) <= rbs_to_alloc,
         EnterStage2(p), quota' = quota, used' = used
  PROVE  pc' \in {"slice", "stage2"} /\ StageTypes' /\ Stage2Inv'
<1>1. CASE p = <<>>
  <2>1. pc' = "slice" /\ StageTypes'
    BY <1>1, EndNewtxStep, Zenon DEF EnterStage2
  <2> QED
    BY <2>1 DEF Stage2Inv
<1>2. CASE p # <<>>
  <2> USE VrbAssumption
  <2>1. /\ Len(p) \in Nat /\ Len(p) >= 1 /\ rbs_to_alloc \in Nat
        /\ rbs_to_alloc \in 0..NofVrbs
    BY <1>2 DEF IInv, TypeOK
  <2> DEFINE m == rbs_to_alloc \div Len(p)
  <2>2. m \in Nat /\ Len(p) * m <= rbs_to_alloc /\ m >= 1
    BY <2>1, Quotient
  <2>3. /\ pc' = "stage2" /\ cands' = <<>> /\ pend' = p /\ max_rbs_per_grant' = m
        /\ rb_count' = 0 /\ rbs_missing' = 0 /\ pucch_full' = FALSE /\ k' = 0
        /\ rbs_to_alloc' = rbs_to_alloc
    BY <1>2 DEF EnterStage2
  <2> HIDE DEF m
  <2>4. StageTypes'
    <3>1. <<>> \in Seq(Ue) /\ 0 \in Nat /\ FALSE \in BOOLEAN
      OBVIOUS
    <3> QED
      BY <2>1, <2>2, <2>3, <3>1, Zenon DEF StageTypes
  <2>5. Stage2Inv'
    <3>1. rbs_to_alloc <= quota /\ rbs_to_alloc <= FreeVrbs(used)
      BY DEF IInv, Stage1Inv
    <3>2. quota \in Nat /\ FreeVrbs(used) \in Nat
      BY UnusedVrbs DEF IInv, TypeOK
    <3>3. FreeVrbs(used)' = FreeVrbs(used)
      BY Zenon DEF FreeVrbs
    <3>4. 0 * m = 0
      BY <2>2
    <3> QED
      BY <2>1, <2>2, <2>3, <3>1, <3>2, <3>3, <3>4 DEF Stage2Inv
  <2> QED
    BY <2>3, <2>4, <2>5
<1> QED
  BY <1>1, <1>2

\* Going on with the next candidate of stage 1 keeps what stage 1 and stage 2
\* rely on.
LEMMA ContinueStep ==
  ASSUME IInv, pc = "stage1", NEW p \in Seq(Pending), NEW count \in Nat,
         Len(p) <= count, count < rbs_to_alloc, NEW full \in BOOLEAN,
         Continue(p, count, full), quota' = quota, used' = used
  PROVE  /\ pc' \in {"slice", "stage1", "stage2"} /\ StageTypes'
         /\ Stage1Inv' /\ Stage2Inv'
<1>0. /\ rbs_to_alloc \in Nat /\ cands \in Seq(Ue) /\ cands # <<>>
      /\ rbs_to_alloc >= 1 /\ rbs_to_alloc <= quota /\ rbs_to_alloc <= FreeVrbs(used)
      /\ max_rbs_per_grant >= 1 /\ StageTypes
  BY VrbAssumption, TypeParts DEF IInv, TypeOK, Stage1Inv
<1>1. CASE Tail(cands) = <<>>
  <2>1. Len(p) <= rbs_to_alloc
    BY <1>0
  <2>2. EnterStage2(p)
    BY <1>1 DEF Continue
  <2>3. pc' \in {"slice", "stage2"} /\ StageTypes' /\ Stage2Inv'
    BY <2>1, <2>2, EnterStage2Step
  <2> QED
    BY <2>3 DEF Stage1Inv
<1>2. CASE Tail(cands) # <<>>
  <2>1. /\ pc' = pc /\ cands' = Tail(cands) /\ pend' = p /\ rb_count' = count
        /\ pucch_full' = full /\ rbs_to_alloc' = rbs_to_alloc
        /\ max_rbs_per_grant' = max_rbs_per_grant /\ rbs_missing' = rbs_missing /\ k' = k
    BY <1>2 DEF Continue
  <2>2. Tail(cands) \in Seq(Ue)
    BY <1>0
  <2>3. StageTypes'
    BY <1>0, <2>1, <2>2 DEF StageTypes
  <2>4. FreeVrbs(used)' = FreeVrbs(used)
    BY DEF FreeVrbs
  <2>5. Stage1Inv'
    BY <1>0, <1>2, <2>1, <2>4 DEF Stage1Inv
  <2> QED
    BY <2>1, <2>3, <2>5 DEF Stage2Inv
<1> QED
  BY <1>1, <1>2

\* So does counting an attempt first; the attempts exceed their limit by one at
\* most.
LEMMA NextCandidateStep ==
  ASSUME IInv, pc = "stage1", NEW p \in Seq(Pending), NEW count \in Nat,
         Len(p) <= count, count < rbs_to_alloc, NEW full \in BOOLEAN,
         NextCandidate(p, count, full), quota' = quota, used' = used
  PROVE  /\ pc' \in {"slice", "stage1", "stage2"} /\ StageTypes'
         /\ Stage1Inv' /\ Stage2Inv' /\ AttemptInv'
         /\ dl_attempts_count' \in 0..(MaxAttempts + 1)
<1>0. /\ dl_attempts_count \in Nat /\ dl_attempts_count <= MaxAttempts
      /\ MaxAttempts \in Nat /\ rbs_to_alloc \in Nat
  BY VrbAssumption, LimitAssumption DEF IInv, TypeOK, AttemptInv
<1>1. dl_attempts_count' = dl_attempts_count + 1
  BY DEF NextCandidate
<1>2. CASE dl_attempts_count + 1 >= MaxAttempts
  <2>1. EnterStage2(p) /\ Len(p) <= rbs_to_alloc
    BY <1>0, <1>2 DEF NextCandidate
  <2>2. pc' \in {"slice", "stage2"} /\ StageTypes' /\ Stage2Inv'
    BY <2>1, EnterStage2Step
  <2> QED
    BY <1>0, <1>1, <2>2 DEF Stage1Inv, AttemptInv
<1>3. CASE ~(dl_attempts_count + 1 >= MaxAttempts)
  <2>1. Continue(p, count, full)
    BY <1>3 DEF NextCandidate
  <2>2. /\ pc' \in {"slice", "stage1", "stage2"} /\ StageTypes'
        /\ Stage1Inv' /\ Stage2Inv'
    BY <2>1, ContinueStep
  <2> QED
    BY <1>0, <1>1, <1>3, <2>2 DEF AttemptInv
<1> QED
  BY <1>2, <1>3

-----------------------------------------------------------------------------
(* The steps of a slot *)

\* The invariant holds before the first slot.
LEMMA InitIInv == Init => IInv
<1> SUFFICES ASSUME Init
             PROVE  IInv
  OBVIOUS
<1>1. StageTypes
  <2>1. <<>> \in Seq(Ue) /\ <<>> \in Seq(Pending) /\ 0 \in Nat /\ FALSE \in BOOLEAN
    OBVIOUS
  <2>2. 0 \in 0..NofVrbs
    BY VrbAssumption
  <2> QED
    BY <2>1, <2>2, Zenon DEF Init, StageTypes
<1>2. SlotTypes
  <2>1. weight \in [Ue -> Weights \cup {NoWeight}]
    BY Zenon DEF Init
  <2>2. /\ used \in SUBSET Vrb /\ captured \in BOOLEAN /\ cancelled \in SUBSET Ue
        /\ pc \in {"idle", "slice", "retx", "newtx", "stage1", "stage2"}
    BY Zenon DEF Init
  <2>3. /\ this_tti_unused_crbs \in 0..NofVrbs \cup {LargeUnsigned} /\ slices \in 0..MaxSlices
        /\ quota \in 0..NofVrbs /\ max_ue_grants \in 0..MaxGrants
        /\ dl_attempts_count \in 0..(MaxAttempts + 1)
    BY VrbAssumption, LimitAssumption DEF Init
  <2>4. grants \in Seq([ue : Ue, vrbs : SUBSET Vrb])
    BY DEF Init
  <2> QED
    BY <2>1, <2>2, <2>3, <2>4, Zenon DEF SlotTypes
<1>3. pc = "idle" /\ cancelled = {}
  BY DEF Init
<1> QED
  BY <1>1, <1>2, <1>3, TypeParts
  DEF IInv, AttemptInv, Stage1Inv, Stage2Inv, CancelInv, OnlyZeroWeightCancelled

\* Steps outside schedule_dl_newtx_candidates leave its locals alone.
LEMMA SameStage ==
  ASSUME StageTypes, UNCHANGED stageVars
  PROVE  StageTypes'
  BY Zenon DEF stageVars, StageTypes

\* Outside stages 1 and 2 only the types, the attempts and the cancelled UEs
\* are constrained.
LEMMA OutsideStages ==
  ASSUME SlotTypes', StageTypes', AttemptInv', CancelInv',
         pc' \in {"idle", "slice", "retx", "newtx"}
  PROVE  IInv'
<1>1. TypeOK'
  BY TypeParts, PTL
<1>2. Stage1Inv' /\ Stage2Inv'
  BY DEF Stage1Inv, Stage2Inv
<1> QED
  BY <1>1, <1>2 DEF IInv

\* Without a new cancellation or new weights, the cancelled UEs stay justified.
LEMMA SameCancelled ==
  ASSUME CancelInv, cancelled' = cancelled, weight' = weight
  PROVE  CancelInv'
  BY Zenon DEF CancelInv, OnlyZeroWeightCancelled

\* run_slot and slot_indication: a new slot cancels nothing and resets the
\* attempts.
LEMMA BeginSlotStep ==
  ASSUME IInv, BeginSlot
  PROVE  IInv'
<1>1. SlotTypes /\ StageTypes
  BY TypeParts DEF IInv
<1>2. StageTypes'
  BY <1>1, SameStage DEF BeginSlot
<1>3. SlotTypes'
  <2>1. used' \in SUBSET Vrb
    <3>1. PICK R \in Reserved : used' = R \cup (Vrb \ CrbLims)
      BY Zenon DEF BeginSlot
    <3> QED
      BY <3>1, VrbAssumption, Zenon
  <2>2. slices' \in 0..MaxSlices /\ dl_attempts_count' \in 0..(MaxAttempts + 1)
    BY LimitAssumption DEF BeginSlot
  <2>3. grants' \in Seq([ue : Ue, vrbs : SUBSET Vrb])
    BY DEF BeginSlot
  <2> QED
    BY <1>1, <2>1, <2>2, <2>3, Zenon DEF BeginSlot, SlotTypes
<1>4. pc' = "slice" /\ cancelled' = {}
  BY DEF BeginSlot
<1> QED
  BY <1>2, <1>3, <1>4, OutsideStages DEF AttemptInv, CancelInv, OnlyZeroWeightCancelled

\* dl_sched: reTxs are only tried with a grant and an attempt left.
LEMMA StartSliceStep ==
  ASSUME IInv, StartSlice
  PROVE  IInv'
<1> USE VrbAssumption, LimitAssumption
<1>1. SlotTypes /\ StageTypes /\ CancelInv
  BY TypeParts DEF IInv
<1>2. StageTypes'
  BY <1>1, SameStage DEF StartSlice
<1>3. PICK q \in Quotas, m \in 0..MaxGrants :
        /\ m <= MaxOf(MaxAttempts - dl_attempts_count, 0)
        /\ quota' = q /\ max_ue_grants' = m
        /\ pc' = IF m = 0 THEN "slice" ELSE "retx"
  BY DEF StartSlice
<1>4. q \in 0..NofVrbs /\ dl_attempts_count \in Nat
  BY <1>1, QuotaAssumption DEF SlotTypes
<1>5. SlotTypes'
  <2>1. slices' \in 0..MaxSlices
    BY <1>1 DEF StartSlice, SlotTypes
  <2>2. pc' \in {"idle", "slice", "retx", "newtx", "stage1", "stage2"}
    BY <1>3
  <2> QED
    BY <1>1, <1>3, <1>4, <2>1, <2>2, Zenon DEF StartSlice, SlotTypes, gridVars
<1>6. AttemptInv'
  BY <1>3, <1>4 DEF StartSlice, AttemptInv, MaxOf
<1>7. CancelInv'
  BY <1>1, SameCancelled DEF StartSlice, gridVars
<1> QED
  BY <1>2, <1>3, <1>5, <1>6, <1>7, OutsideStages

\* A reTx that fails, and the end of the reTxs.
LEMMA RetxEndSteps ==
  ASSUME IInv, RetxFail \/ RetxDone
  PROVE  IInv'
<1> USE LimitAssumption
<1>1. SlotTypes /\ StageTypes /\ CancelInv
  BY TypeParts DEF IInv
<1>2. StageTypes'
  BY <1>1, SameStage DEF RetxFail, RetxDone
<1>3. dl_attempts_count \in Nat /\ dl_attempts_count < MaxAttempts /\ max_ue_grants >= 1
  BY <1>1 DEF IInv, AttemptInv, RetxFail, RetxDone, SlotTypes
<1>4. pc' \in {"slice", "newtx", "retx"} /\ max_ue_grants' = max_ue_grants
  BY DEF RetxFail, RetxDone, EndRetx, sliceVars
<1>5. dl_attempts_count' \in 0..MaxAttempts /\ AttemptInv'
  BY <1>3 DEF RetxFail, RetxDone, EndRetx, AttemptInv, sliceVars
<1>6. dl_attempts_count' \in 0..(MaxAttempts + 1)
  BY <1>5
<1>7. /\ weight' = weight /\ slices' = slices /\ quota' = quota
      /\ UNCHANGED gridVars
  BY DEF RetxFail, RetxDone, sliceVars
<1>8. SlotTypes'
  <2>1. pc' \in {"idle", "slice", "retx", "newtx", "stage1", "stage2"}
    BY <1>4
  <2> QED
    BY <1>1, <1>4, <1>6, <1>7, <2>1, Zenon DEF SlotTypes, gridVars
<1>9. CancelInv'
  BY <1>1, <1>7, SameCancelled DEF gridVars
<1> QED
  BY <1>2, <1>4, <1>5, <1>8, <1>9, OutsideStages

\* A grant is placed on free VRBs of the grid.
LEMMA PlaceGrantStep ==
  ASSUME SlotTypes, NEW u \in Ue, NEW n \in Nat, PlaceGrant(u, FindEmptyInterval(used, n))
  PROVE  /\ used' \in SUBSET Vrb
         /\ FreeVrbs(used') = FreeVrbs(used) - Length(FindEmptyInterval(used, n))
         /\ grants' \in Seq([ue : Ue, vrbs : SUBSET Vrb])
         /\ grants'[Len(grants')].vrbs \cap used = {}
<1> DEFINE g == FindEmptyInterval(used, n)
<1>1. used \in SUBSET Vrb /\ grants \in Seq([ue : Ue, vrbs : SUBSET Vrb])
  BY DEF SlotTypes
<1>2. /\ g.start \in Nat /\ g.stop \in Nat
      /\ g.start <= g.stop /\ g.stop <= NofVrbs
      /\ VrbsOf(g) \cap used = {}
  BY <1>1, EmptyInterval
<1> HIDE DEF g
<1>3. VrbsOf(g) \in SUBSET Vrb /\ FreeVrbs(used \cup VrbsOf(g)) = FreeVrbs(used) - Length(g)
  BY <1>1, <1>2, PlacedVrbs
<1>4. used' = used \cup VrbsOf(g) /\ grants' = Append(grants, [ue |-> u, vrbs |-> VrbsOf(g)])
  BY DEF PlaceGrant, g
<1>5. used' \in SUBSET Vrb
  BY <1>1, <1>3, <1>4
<1> DEFINE e == [ue |-> u, vrbs |-> VrbsOf(g)]
<1>6. e \in [ue : Ue, vrbs : SUBSET Vrb] /\ e.vrbs = VrbsOf(g)
  BY <1>3
<1> HIDE DEF e
<1>7. grants' \in Seq([ue : Ue, vrbs : SUBSET Vrb]) /\ grants'[Len(grants')] = e
  <2>1. grants' = Append(grants, e)
    BY <1>4 DEF e
  <2> QED
    BY <1>1, <1>6, <2>1
<1>8. grants'[Len(grants')].vrbs \cap used = {}
  BY <1>2, <1>6, <1>7, Zenon
<1>9. FreeVrbs(used') = FreeVrbs(used) - Length(g)
  BY <1>3, <1>4, Zenon
<1> QED
  BY <1>5, <1>7, <1>8, <1>9, Zenon DEF g

\* A reTx that is placed.
LEMMA RetxGrantStep ==
  ASSUME IInv, RetxGrant
  PROVE  IInv'
<1> USE VrbAssumption, LimitAssumption
<1>1. SlotTypes /\ StageTypes /\ CancelInv
  BY TypeParts DEF IInv
<1>2. StageTypes'
  BY <1>1, SameStage DEF RetxGrant
<1>3. /\ dl_attempts_count \in Nat /\ dl_attempts_count < MaxAttempts
      /\ max_ue_grants \in 1..MaxGrants /\ quota \in 0..NofVrbs
  BY <1>1 DEF IInv, AttemptInv, RetxGrant, SlotTypes
<1>4. PICK u \in Ue, n \in Needs :
        /\ PlaceGrant(u, FindEmptyInterval(used, n))
        /\ quota' = MaxOf(quota - n, 0)
        /\ max_ue_grants' = max_ue_grants - 1
        /\ IF max_ue_grants = 1 \/ quota <= n
           THEN EndRetx(max_ue_grants - 1) /\ UNCHANGED dl_attempts_count
           ELSE /\ dl_attempts_count' = dl_attempts_count + 1
                /\ IF dl_attempts_count + 1 >= MaxAttempts
                   THEN EndRetx(max_ue_grants - 1) ELSE UNCHANGED pc
  BY DEF RetxGrant
<1>5. n \in Nat /\ n >= 1
  BY NeedPositive
<1>6. used' \in SUBSET Vrb /\ grants' \in Seq([ue : Ue, vrbs : SUBSET Vrb])
  BY <1>1, <1>4, <1>5, PlaceGrantStep
<1>7. quota' \in 0..NofVrbs /\ max_ue_grants' \in 0..MaxGrants
  BY <1>3, <1>4, <1>5 DEF MaxOf
<1>8. pc' \in {"slice", "newtx", "retx"}
  BY <1>4 DEF EndRetx, RetxGrant
<1>9. dl_attempts_count' \in 0..MaxAttempts /\ AttemptInv'
  BY <1>3, <1>4 DEF EndRetx, AttemptInv
<1>10. SlotTypes'
  <2>1. pc' \in {"idle", "slice", "retx", "newtx", "stage1", "stage2"}
    BY <1>8
  <2>2. dl_attempts_count' \in 0..(MaxAttempts + 1)
    BY <1>9
  <2> QED
    BY <1>1, <1>6, <1>7, <2>1, <2>2, Zenon DEF SlotTypes, RetxGrant
<1>11. CancelInv'
  BY <1>1, SameCancelled DEF RetxGrant
<1> QED
  BY <1>2, <1>8, <1>9, <1>10, <1>11, OutsideStages

\* The candidates are a sequence of UEs.
LEMMA OrdersType ==
  ASSUME NEW c \in Orders
  PROVE  c \in Seq(Ue)
<1>1. PICK n \in 0..Cardinality(Ue) : c \in [1..n -> Ue]
  BY DEF Orders
<1>2. n \in Nat
  BY <1>1, UeAssumption, FS_CardinalityType
<1> QED
  BY <1>1, <1>2

\* schedule_dl_newtx_candidates establishes stage 1: RBs, candidates and a grant
\* size.
LEMMA PrepareNewtxStep ==
  ASSUME IInv, PrepareNewtx
  PROVE  IInv'
<1> USE VrbAssumption, LimitAssumption
<1>1. SlotTypes /\ StageTypes /\ CancelInv
  BY TypeParts DEF IInv
<1>2. /\ UNCHANGED <<weight, gridVars, sliceVars>> /\ pc = "newtx"
  BY DEF PrepareNewtx
<1>3. CancelInv'
  BY <1>1, <1>2, SameCancelled DEF gridVars
<1>4. dl_attempts_count' \in Nat /\ dl_attempts_count' <= MaxAttempts
  BY <1>1, <1>2 DEF IInv, AttemptInv, SlotTypes, sliceVars
<1>5. pc' \in {"slice", "stage1"}
  BY DEF PrepareNewtx, EndNewtx
<1>6. SlotTypes'
  <2>1. pc' \in {"idle", "slice", "retx", "newtx", "stage1", "stage2"}
    BY <1>5
  <2> QED
    BY <1>1, <1>2, <2>1, Zenon DEF SlotTypes, gridVars, sliceVars
<1>7. AttemptInv'
  BY <1>4, <1>5 DEF AttemptInv
<1> DEFINE rbs == MinOf(quota, FreeVrbs(used))
<1>8. quota \in Nat /\ FreeVrbs(used) \in 0..NofVrbs /\ quota <= NofVrbs
  BY <1>1, UnusedVrbs DEF SlotTypes
<1>9. PICK c \in Orders, pdcchs \in 0..MaxGrants :
        LET n == UesToAlloc(Len(c), max_ue_grants, pdcchs)
        IN IF c = <<>> \/ n = 0 \/ rbs = 0
           THEN EndNewtx
           ELSE /\ pc' = "stage1"
                /\ cands' = c
                /\ pend' = <<>>
                /\ rbs_to_alloc' = rbs
                /\ max_rbs_per_grant' = MaxOf(rbs \div n, MIN_RB_PER_GRANT)
                /\ rb_count' = 0
                /\ pucch_full' = FALSE
                /\ UNCHANGED <<rbs_missing, k>>
  BY DEF PrepareNewtx
<1> DEFINE n == UesToAlloc(Len(c), max_ue_grants, pdcchs)
<1>10. CASE c = <<>> \/ n = 0 \/ rbs = 0
  <2>1. EndNewtx
    BY <1>9, <1>10
  <2>2. pc' = "slice" /\ StageTypes'
    BY <2>1, EndNewtxStep
  <2> QED
    BY <1>3, <1>6, <1>7, <2>2, OutsideStages
<1>11. CASE ~(c = <<>> \/ n = 0 \/ rbs = 0)
  <2>1. /\ pc' = "stage1" /\ cands' = c /\ pend' = <<>> /\ rbs_to_alloc' = rbs
        /\ max_rbs_per_grant' = MaxOf(rbs \div n, MIN_RB_PER_GRANT)
        /\ rb_count' = 0 /\ pucch_full' = FALSE /\ rbs_missing' = rbs_missing /\ k' = k
    BY <1>9, <1>11
  <2>2. c \in Seq(Ue)
    BY OrdersType
  <2>3. rbs \in 1..NofVrbs /\ rbs <= quota /\ rbs <= FreeVrbs(used)
    BY <1>8, <1>11 DEF MinOf
  <2>4. n \in Nat /\ n >= 1
    <3>1. Len(c) \in Nat /\ max_ue_grants \in Nat /\ pdcchs \in Nat
      BY <1>1, <2>2 DEF SlotTypes
    <3>2. Len(c) \div CandidatesPerGrant \in Nat
      <4>1. CandidatesPerGrant \in Nat /\ CandidatesPerGrant >= 1
        OBVIOUS
      <4> QED
        BY <3>1, <4>1, Quotient
    <3>3. n \in Nat
      BY <3>1, <3>2 DEF UesToAlloc, MinOf, MaxOf
    <3> QED
      BY <1>11, <3>3
  <2> HIDE DEF n, rbs
  <2>5. rbs \div n \in Nat
    BY <2>3, <2>4, Quotient
  <2>6. max_rbs_per_grant' \in Nat /\ max_rbs_per_grant' >= 1
    BY <2>1, <2>5 DEF MaxOf
  <2>7. StageTypes'
    <3>1. /\ <<>> \in Seq(Pending) /\ 0 \in Nat /\ FALSE \in BOOLEAN
      OBVIOUS
    <3>2. rbs_to_alloc' \in 0..NofVrbs
      BY <2>1, <2>3
    <3> QED
      BY <1>1, <2>1, <2>2, <2>6, <3>1, <3>2, Zenon DEF StageTypes
  <2>8. Stage1Inv'
    <3>1. FreeVrbs(used)' = FreeVrbs(used) /\ quota' = quota
      BY <1>2 DEF FreeVrbs, gridVars, sliceVars
    <3>2. Len(pend') = 0 /\ cands' # <<>>
      BY <1>11, <2>1
    <3> QED
      BY <2>1, <2>3, <2>6, <3>1, <3>2 DEF Stage1Inv
  <2>9. Stage2Inv'
    BY <2>1 DEF Stage2Inv
  <2>10. TypeOK'
    BY <1>6, <2>7, TypeParts, PTL
  <2> QED
    BY <1>3, <1>7, <2>8, <2>9, <2>10 DEF IInv
<1> QED
  BY <1>10, <1>11

\* Stage 1 leaves the grid, the weights and the slice as they are.
LEMMA Stage1Frame ==
  ASSUME IInv, UNCHANGED <<weight, gridVars, slices, quota, max_ue_grants>>,
         pc' \in {"slice", "stage1", "stage2"},
         dl_attempts_count' \in 0..(MaxAttempts + 1),
         StageTypes', Stage1Inv', Stage2Inv', AttemptInv'
  PROVE  IInv'
<1>1. SlotTypes /\ CancelInv
  BY TypeParts DEF IInv
<1>2. CancelInv'
  BY <1>1, SameCancelled DEF gridVars
<1>3. SlotTypes'
  <2>1. pc' \in {"idle", "slice", "retx", "newtx", "stage1", "stage2"}
    OBVIOUS
  <2> QED
    BY <1>1, <2>1, Zenon DEF SlotTypes, gridVars
<1>4. TypeOK'
  BY <1>3, TypeParts, PTL
<1> QED
  BY <1>2, <1>4 DEF IInv

\* The steps of stage 1: each UE selected was counted with one RB at least.
LEMMA Stage1Steps ==
  ASSUME IInv, Stage1Grant \/ Stage1Fail \/ Stage1SkipSlot \/ Stage1Skip
  PROVE  IInv'
<1> USE VrbAssumption, LimitAssumption
<1>1. /\ pc = "stage1" /\ UNCHANGED <<weight, gridVars, slices, quota, max_ue_grants>>
      /\ quota' = quota /\ used' = used
  BY DEF Stage1Grant, Stage1Fail, Stage1SkipSlot, Stage1Skip, sliceVars, gridVars
<1>2. /\ cands \in Seq(Ue) /\ cands # <<>> /\ pend \in Seq(Pending) /\ Len(pend) \in Nat
      /\ rb_count \in Nat /\ rbs_to_alloc \in Nat /\ max_rbs_per_grant \in Nat
      /\ max_rbs_per_grant >= 1 /\ Len(pend) <= rb_count /\ rb_count < rbs_to_alloc
      /\ dl_attempts_count \in Nat /\ dl_attempts_count <= MaxAttempts
  BY <1>1 DEF IInv, TypeOK, Stage1Inv, AttemptInv
<1>3. pucch_full \in BOOLEAN
  BY DEF IInv, TypeOK
<1>4. ASSUME NEW p \in Seq(Pending), Len(p) <= rbs_to_alloc, EnterStage2(p),
             dl_attempts_count' = dl_attempts_count
      PROVE  IInv'
  <2>1. pc' \in {"slice", "stage2"} /\ StageTypes' /\ Stage2Inv'
    BY <1>1, <1>4, EnterStage2Step
  <2>2. Stage1Inv' /\ AttemptInv' /\ dl_attempts_count' \in 0..(MaxAttempts + 1)
    BY <1>2, <1>4, <2>1 DEF Stage1Inv, AttemptInv
  <2> QED
    BY <1>1, <2>1, <2>2, Stage1Frame
<1>5. ASSUME NEW p \in Seq(Pending), NEW count \in Nat, Len(p) <= count,
             count < rbs_to_alloc, NEW full \in BOOLEAN, NextCandidate(p, count, full)
      PROVE  IInv'
  <2>1. /\ pc' \in {"slice", "stage1", "stage2"} /\ StageTypes'
        /\ Stage1Inv' /\ Stage2Inv' /\ AttemptInv'
        /\ dl_attempts_count' \in 0..(MaxAttempts + 1)
    BY <1>1, <1>5, NextCandidateStep
  <2> QED
    BY <1>1, <2>1, Stage1Frame
<1>6. CASE Stage1Grant
  <2>1. PICK need \in Needs :
          LET p     == [ue |-> Head(cands), need |-> need]
              count == rb_count + MinOf(EstimatedPrbs(p, rbs_to_alloc), max_rbs_per_grant)
          IN IF count >= rbs_to_alloc \/ Len(pend) + 1 >= max_ue_grants
             THEN EnterStage2(Append(pend, p)) /\ UNCHANGED dl_attempts_count
             ELSE NextCandidate(Append(pend, p), count, pucch_full)
    BY <1>6 DEF Stage1Grant
  <2> DEFINE p == [ue |-> Head(cands), need |-> need]
             est == MinOf(EstimatedPrbs(p, rbs_to_alloc), max_rbs_per_grant)
             q == Append(pend, p)
  <2>2. p \in Pending
    BY <1>2 DEF Pending
  <2>3. IF rb_count + est >= rbs_to_alloc \/ Len(pend) + 1 >= max_ue_grants
        THEN EnterStage2(q) /\ UNCHANGED dl_attempts_count
        ELSE NextCandidate(q, rb_count + est, pucch_full)
    BY <2>1
  <2> HIDE DEF p
  <2>4. q \in Seq(Pending) /\ Len(q) = Len(pend) + 1
    BY <1>2, <2>2
  <2>5. est \in Nat /\ est >= 1
    <3>1. EstimatedPrbs(p, rbs_to_alloc) \in Nat /\ EstimatedPrbs(p, rbs_to_alloc) >= 1
      BY <1>2, <2>2, EstimateBounds DEF IInv
    <3> QED
      BY <1>2, <3>1 DEF MinOf
  <2> HIDE DEF est, q
  <2>6. CASE rb_count + est >= rbs_to_alloc \/ Len(pend) + 1 >= max_ue_grants
    <3>1. Len(q) <= rbs_to_alloc
      BY <1>2, <2>4
    <3> QED
      BY <1>4, <2>3, <2>4, <2>6, <3>1
  <2>7. CASE ~(rb_count + est >= rbs_to_alloc \/ Len(pend) + 1 >= max_ue_grants)
    <3>1. /\ rb_count + est \in Nat /\ Len(q) <= rb_count + est
          /\ rb_count + est < rbs_to_alloc
      BY <1>2, <2>4, <2>5, <2>7
    <3>2. NextCandidate(q, rb_count + est, pucch_full)
      BY <2>3, <2>7
    <3> QED
      BY <1>3, <1>5, <2>4, <3>1, <3>2
  <2> QED
    BY <2>6, <2>7
<1>7. CASE Stage1Fail
  <2>1. PICK uci_alloc_failed \in BOOLEAN :
          NextCandidate(pend, rb_count, pucch_full \/ uci_alloc_failed)
    BY <1>7 DEF Stage1Fail
  <2>2. (pucch_full \/ uci_alloc_failed) \in BOOLEAN
    OBVIOUS
  <2> QED
    BY <1>2, <1>5, <2>1, <2>2
<1>8. CASE Stage1SkipSlot
  <2>1. EnterStage2(pend) /\ dl_attempts_count' = dl_attempts_count
    BY <1>8 DEF Stage1SkipSlot, sliceVars
  <2>2. Len(pend) <= rbs_to_alloc
    BY <1>2
  <2> QED
    BY <1>2, <1>4, <2>1, <2>2
<1>9. CASE Stage1Skip
  <2>1. Continue(pend, rb_count, pucch_full) /\ dl_attempts_count' = dl_attempts_count
    BY <1>9 DEF Stage1Skip, sliceVars
  <2>2. /\ pc' \in {"slice", "stage1", "stage2"} /\ StageTypes'
        /\ Stage1Inv' /\ Stage2Inv'
    BY <1>1, <1>2, <1>3, <2>1, ContinueStep
  <2>3. AttemptInv' /\ dl_attempts_count' \in 0..(MaxAttempts + 1)
    BY <1>2, <2>1, <2>2 DEF AttemptInv
  <2> QED
    BY <1>1, <2>2, <2>3, Stage1Frame
<1> QED
  BY <1>6, <1>7, <1>8, <1>9

-----------------------------------------------------------------------------
(* Stage 2 *)

\* A grant of stage 2: the shares left, the quota and the grid shrink together.
LEMMA Stage2AllocStep ==
  ASSUME IInv, Stage2Alloc
  PROVE  IInv'
<1> USE VrbAssumption
<1> DEFINE p == pend[k + 1]
           free == FreeVrbs(used)
           now == UnusedCrbs(used)
           unused == IF captured THEN this_tti_unused_crbs ELSE now
           last == k + 1 = Len(pend)
           S == MaxGrantSize
<1>1. SlotTypes /\ StageTypes /\ CancelInv /\ TypeOK /\ pc = "stage2"
  BY TypeParts DEF IInv, Stage2Alloc
<1>2. /\ k \in Nat /\ Len(pend) \in Nat /\ k < Len(pend) /\ max_rbs_per_grant \in Nat
      /\ rb_count \in Nat /\ rbs_missing \in Nat /\ rbs_to_alloc \in 0..NofVrbs
      /\ quota \in 0..NofVrbs
      /\ rbs_to_alloc <= quota + rb_count /\ rbs_to_alloc <= free + rb_count
      /\ rb_count + rbs_missing <= k * max_rbs_per_grant
      /\ max_rbs_per_grant >= 1
      /\ Len(pend) * max_rbs_per_grant <= rbs_to_alloc
  BY <1>1 DEF IInv, StageTypes, SlotTypes, Stage2Inv
<1>3. /\ S \in Nat /\ S >= 1 /\ rb_count + S <= rbs_to_alloc
      /\ ~last => rb_count + S <= (k + 1) * max_rbs_per_grant
  BY <1>1, <1>2, GrantSizeBounds
<1>4. p \in Pending /\ p.ue \in Ue
  <2>1. p \in Pending
    BY <1>1, <1>2 DEF StageTypes
  <2> QED
    BY <2>1 DEF Pending
<1>5. used \in SUBSET Vrb /\ free \in 0..NofVrbs /\ (free > 0 => Gaps(used) # {})
  BY <1>1, UnusedVrbs DEF SlotTypes
<1>6. /\ now \in Nat /\ unused \in 0..NofVrbs \cup {LargeUnsigned}
      /\ CrbLims = Vrb => now = free
  BY <1>1, <1>5, UnusedCrbsType DEF SlotTypes
<1>7. /\ this_tti_unused_crbs' = unused /\ captured' = TRUE
      /\ UNCHANGED <<weight, slices, max_ue_grants, dl_attempts_count>>
      /\ IF last
         THEN EndNewtx
         ELSE /\ k' = k + 1
              /\ UNCHANGED <<pc, cands, pend, rbs_to_alloc, max_rbs_per_grant, pucch_full>>
  BY DEF Stage2Alloc
<1>8. PICK n \in WeightedRbs(p, unused, now, S) :
        LET g == FindEmptyInterval(used, n)
        IN IF Length(g) = 0
           THEN /\ CancelGrant(p.ue)
                /\ UNCHANGED quota
                /\ last \/ UNCHANGED <<rb_count, rbs_missing>>
           ELSE /\ PlaceGrant(p.ue, g)
                /\ UNCHANGED cancelled
                /\ quota' = quota - Length(g)
                /\ last \/ (/\ rb_count' = rb_count + Length(g)
                            /\ rbs_missing' = S - Length(g))
  BY DEF Stage2Alloc
<1> DEFINE g == FindEmptyInterval(used, n)
<1>9. /\ n \in Nat /\ n <= S
      /\ now > 0 /\ (weight[p.ue] = NoWeight \/ weight[p.ue] > 0) => n >= 1
  <2> HIDE DEF p, now, unused, S
  <2>1. unused \in Nat /\ now \in Nat
    BY <1>6 DEF LargeUnsigned
  <2> QED
    BY <1>1, <1>3, <1>4, <1>8, <2>1, WeightedRbsBounds
<1>10. /\ g.start \in Nat /\ g.stop \in Nat /\ g.start <= g.stop
       /\ Length(g) <= n
       /\ n >= 1 /\ Gaps(used) # {} => Length(g) >= 1
  BY <1>5, <1>9, EmptyInterval
<1>11. Length(g) \in Nat /\ Length(g) <= S
  BY <1>3, <1>9, <1>10 DEF Length
<1>12. free > 0 /\ quota >= S
  BY <1>2, <1>3, <1>5
<1> DEFINE L == Length(g)
<1>13. (k + 1) * max_rbs_per_grant = k * max_rbs_per_grant + max_rbs_per_grant
       /\ k * max_rbs_per_grant \in Nat
  BY <1>2, NextShare
\* What the grant changes, whether it is placed or cancelled.
<1>14. /\ used' \in SUBSET Vrb /\ FreeVrbs(used') = free - L /\ quota' = quota - L
       /\ grants' \in Seq([ue : Ue, vrbs : SUBSET Vrb])
       /\ cancelled' \in SUBSET Ue /\ CancelInv'
       /\ ~last => /\ rb_count' = rb_count + L /\ rbs_missing' \in Nat
                   /\ rb_count' + rbs_missing' <= (k + 1) * max_rbs_per_grant
  <2>1. CASE L = 0
    <3>1. CancelGrant(p.ue) /\ quota' = quota /\ (last \/ UNCHANGED <<rb_count, rbs_missing>>)
      BY <1>8, <2>1
    <3>2. used' = used /\ grants' = grants /\ cancelled' = cancelled \cup {p.ue}
      BY <3>1 DEF CancelGrant
    <3>3. used' \in SUBSET Vrb /\ grants' \in Seq([ue : Ue, vrbs : SUBSET Vrb])
      BY <1>1, <3>2, Zenon DEF SlotTypes
    <3>4. FreeVrbs(used') = free - L /\ quota' = quota - L
      BY <1>2, <1>5, <2>1, <3>1, <3>2
    <3>5. ASSUME CrbLims = Vrb
          PROVE  ~(weight[p.ue] = NoWeight \/ weight[p.ue] > 0)
      BY <1>5, <1>6, <1>9, <1>10, <1>12, <2>1, <3>5
    <3>6. ASSUME CrbLims = Vrb
          PROVE  weight[p.ue] # NoWeight /\ weight[p.ue] <= 0
      <4>0. ~(weight[p.ue] = NoWeight \/ weight[p.ue] > 0)
        BY <3>5, <3>6
      <4>1. weight[p.ue] \in Weights \cup {NoWeight}
        BY <1>1, <1>4, Zenon DEF SlotTypes
      <4>2. weight[p.ue] \in Int
        BY <4>0, <4>1, WeightAssumption, Zenon
      <4> HIDE DEF p
      <4> QED
        BY <4>0, <4>2
    <3>7. cancelled' \in SUBSET Ue /\ weight' = weight
      BY <1>1, <1>4, <1>7, <3>2, Zenon DEF SlotTypes
    <3>8. CancelInv'
      BY <1>1, <3>2, <3>6, <3>7, Zenon DEF CancelInv, OnlyZeroWeightCancelled
    <3>9. ~last => /\ rb_count' = rb_count + L /\ rbs_missing' \in Nat
                   /\ rb_count' + rbs_missing' <= (k + 1) * max_rbs_per_grant
      <4> HIDE DEF L, last
      <4> QED
        BY <1>2, <1>13, <2>1, <3>1
    <3> QED
      BY <3>3, <3>4, <3>7, <3>8, <3>9, Zenon
  <2>2. CASE L # 0
    <3>1. /\ PlaceGrant(p.ue, g) /\ cancelled' = cancelled /\ quota' = quota - L
          /\ (last \/ (rb_count' = rb_count + L /\ rbs_missing' = S - L))
      BY <1>8, <2>2
    <3>2. /\ used' \in SUBSET Vrb /\ FreeVrbs(used') = free - L
          /\ grants' \in Seq([ue : Ue, vrbs : SUBSET Vrb])
      BY <1>1, <1>4, <1>9, <3>1, PlaceGrantStep, Zenon
    <3>3. cancelled' \in SUBSET Ue
      BY <1>1, <3>1, Zenon DEF SlotTypes
    <3>4. CancelInv'
      BY <1>1, <1>7, <3>1, SameCancelled
    <3>5. ~last => /\ rb_count' = rb_count + L /\ rbs_missing' \in Nat
                   /\ rb_count' + rbs_missing' <= (k + 1) * max_rbs_per_grant
      <4> HIDE DEF L, last, S
      <4>1. L \in Nat /\ L <= S
        BY <1>11 DEF L
      <4>2. ~last => rb_count' + rbs_missing' = rb_count + S
        BY <1>2, <1>3, <3>1, <4>1
      <4> QED
        BY <1>2, <1>3, <3>1, <4>1, <4>2
    <3> QED
      BY <3>1, <3>2, <3>3, <3>4, <3>5, Zenon
  <2> QED
    BY <2>1, <2>2
<1> HIDE DEF L, g, S
<1>15. quota' \in 0..NofVrbs
  <2>1. L \in Nat /\ L <= S
    BY <1>11 DEF L
  <2>2. quota' = quota - L
    BY <1>14
  <2> QED
    BY <1>2, <1>3, <1>12, <2>1, <2>2
<1>16. pc' \in {"slice", "stage2"}
  <2>1. CASE last
    BY <1>7, <2>1, EndNewtxStep
  <2>2. CASE ~last
    <3>1. pc' = pc
      BY <1>7, <2>2
    <3> QED
      BY <1>1, <3>1
  <2> QED
    BY <2>1, <2>2
<1>17. SlotTypes'
  <2>1. pc' \in {"idle", "slice", "retx", "newtx", "stage1", "stage2"}
    BY <1>16
  <2>2. this_tti_unused_crbs' \in 0..NofVrbs \cup {LargeUnsigned} /\ captured' \in BOOLEAN
    BY <1>6, <1>7
  <2> QED
    BY <1>1, <1>7, <1>14, <1>15, <2>1, <2>2, Zenon DEF SlotTypes
<1>18. AttemptInv' /\ Stage1Inv'
  BY <1>16 DEF AttemptInv, Stage1Inv
<1>19. StageTypes' /\ Stage2Inv'
  <2>1. CASE last
    <3>1. EndNewtx
      BY <1>7, <2>1
    <3>2. pc' = "slice" /\ StageTypes'
      BY <3>1, EndNewtxStep
    <3> QED
      BY <3>2 DEF Stage2Inv
  <2>2. CASE ~last
    <3>1. /\ k' = k + 1 /\ pc' = pc /\ cands' = cands /\ pend' = pend
          /\ rbs_to_alloc' = rbs_to_alloc /\ max_rbs_per_grant' = max_rbs_per_grant
          /\ pucch_full' = pucch_full
      BY <1>7, <2>2
    <3>2. rb_count' = rb_count + L /\ rbs_missing' \in Nat
          /\ rb_count' + rbs_missing' <= (k + 1) * max_rbs_per_grant
      BY <1>14, <2>2
    <3>3. L \in Nat
      BY <1>11 DEF L
    <3>4. rb_count' \in Nat /\ k' \in Nat
      BY <1>2, <3>1, <3>2, <3>3
    <3>5. StageTypes'
      BY <1>1, <3>1, <3>2, <3>4, Zenon DEF StageTypes
    <3>6. Stage2Inv'
      <4>1. k' < Len(pend')
        BY <1>2, <2>2, <3>1
      <4>2. rbs_to_alloc <= quota' + rb_count'
        BY <1>2, <1>14, <3>2, <3>3
      <4>3. rbs_to_alloc <= FreeVrbs(used') + rb_count'
        BY <1>2, <1>5, <1>14, <3>2, <3>3
      <4>4. FreeVrbs(used)' = FreeVrbs(used')
        BY DEF FreeVrbs
      <4>5. rb_count' + rbs_missing' <= k' * max_rbs_per_grant'
        BY <3>1, <3>2
      <4>6. Len(pend') * max_rbs_per_grant' <= rbs_to_alloc' /\ max_rbs_per_grant' >= 1
        BY <1>2, <3>1
      <4> QED
        BY <3>1, <4>1, <4>2, <4>3, <4>4, <4>5, <4>6 DEF Stage2Inv
    <3> QED
      BY <3>5, <3>6
  <2> QED
    BY <2>1, <2>2
<1>20. TypeOK'
  BY <1>17, <1>19, TypeParts, PTL
<1>21. CancelInv'
  BY <1>14
<1> QED
  BY <1>18, <1>19, <1>20, <1>21 DEF IInv

\* The end of the slot.
LEMMA EndSlotStep ==
  ASSUME IInv, EndSlot
  PROVE  IInv'
<1>1. SlotTypes /\ StageTypes /\ CancelInv
  BY TypeParts DEF IInv
<1>2. StageTypes'
  BY <1>1, SameStage DEF EndSlot
<1>3. SlotTypes'
  BY <1>1, Zenon DEF EndSlot, SlotTypes, gridVars, sliceVars
<1>4. CancelInv'
  BY <1>1, SameCancelled DEF EndSlot, gridVars
<1>5. pc' = "idle"
  BY DEF EndSlot
<1> QED
  BY <1>2, <1>3, <1>4, <1>5, OutsideStages DEF AttemptInv

-----------------------------------------------------------------------------
(* The theorems *)

\* Every step keeps the invariant.
LEMMA NextIInv == IInv /\ [Next]_vars => IInv'
<1> SUFFICES ASSUME IInv, [Next]_vars
             PROVE  IInv'
  OBVIOUS
<1>1. CASE BeginSlot
  BY <1>1, BeginSlotStep
<1>2. CASE StartSlice
  BY <1>2, StartSliceStep
<1>3. CASE RetxGrant
  BY <1>3, RetxGrantStep
<1>4. CASE RetxFail \/ RetxDone
  BY <1>4, RetxEndSteps
<1>5. CASE PrepareNewtx
  BY <1>5, PrepareNewtxStep
<1>6. CASE Stage1Grant \/ Stage1Fail \/ Stage1SkipSlot \/ Stage1Skip
  BY <1>6, Stage1Steps
<1>7. CASE Stage2Alloc
  BY <1>7, Stage2AllocStep
<1>8. CASE EndSlot
  BY <1>8, EndSlotStep
<1>9. CASE UNCHANGED vars
  BY <1>9, Zenon DEF vars, IInv, TypeOK, AttemptInv, Stage1Inv, Stage2Inv, FreeVrbs,
                     CancelInv, OnlyZeroWeightCancelled
<1> QED
  BY <1>1, <1>2, <1>3, <1>4, <1>5, <1>6, <1>7, <1>8, <1>9, Zenon DEF Next

\* The invariant of the DL allocation: the attempts, stage 1's estimates and
\* stage 2's shares, for every grid, weights and limits.
THEOREM AllocationInvariant == Spec => []IInv
  BY InitIInv, NextIInv, PTL DEF Spec

\* Type correctness: no counter of the scheduler leaves its range; in
\* particular quota, max_ue_grants and rbs_missing never go below 0.
THEOREM AllocationTypes == Spec => []TypeOK
<1>1. IInv => TypeOK
  BY DEF IInv
<1> QED
  BY <1>1, AllocationInvariant, PTL

\* srsran_assert(max_grant_size > 0) of stage 2 never fails.
THEOREM GrantSizeAlways == Spec => []GrantSizePositive
<1>1. IInv => GrantSizePositive
  <2> SUFFICES ASSUME IInv, pc = "stage2"
               PROVE  MaxGrantSize > 0
    BY DEF GrantSizePositive
  <2>1. MaxGrantSize \in Nat /\ MaxGrantSize >= 1
    BY GrantSizeBounds
  <2> QED
    BY <2>1
<1> QED
  BY <1>1, AllocationInvariant, PTL

\* The newTxs of a slice never take more RBs than it has left.
THEOREM WithinSliceQuotaAlways == Spec => []WithinSliceQuota
<1>1. IInv => WithinSliceQuota
  <2> SUFFICES ASSUME IInv
               PROVE  WithinSliceQuota
    OBVIOUS
  <2>1. quota >= 0 /\ rb_count \in Nat /\ rbs_to_alloc \in Int
    BY VrbAssumption DEF IInv, TypeOK
  <2>2. ASSUME pc = "stage2"
        PROVE  rb_count <= rbs_to_alloc
    <3>1. MaxGrantSize \in Nat /\ rb_count + MaxGrantSize <= rbs_to_alloc
      BY <2>2, GrantSizeBounds
    <3> QED
      BY <2>1, <3>1
  <2> QED
    BY <2>1, <2>2 DEF WithinSliceQuota
<1> QED
  BY <1>1, AllocationInvariant, PTL

\* When pdsch_crb_limits span the BWP, as by default, only a UE weighted 0 or
\* less loses in stage 2 what stage 1 reserved for it.
THEOREM OnlyZeroWeightAlways ==
  ASSUME CrbLims = Vrb
  PROVE  Spec => []OnlyZeroWeightCancelled
<1>1. IInv => OnlyZeroWeightCancelled
  BY DEF IInv, CancelInv
<1> QED
  BY <1>1, AllocationInvariant, PTL

\* A grant is only placed on VRBs that were free.
THEOREM FreeVrbsAlways == Spec => GrantsTakeFreeVrbs
<1> DEFINE A == Len(grants') > Len(grants) => grants'[Len(grants')].vrbs \cap used = {}
<1>1. ASSUME IInv, [Next]_vars
      PROVE  A
  <2>1. SlotTypes
    BY <1>1, TypeParts DEF IInv
  <2>2. Len(grants) \in Nat
    BY <2>1 DEF SlotTypes
  <2>3. CASE RetxGrant
    <3>1. PICK u \in Ue, n \in Needs : PlaceGrant(u, FindEmptyInterval(used, n))
      BY <2>3 DEF RetxGrant
    <3>2. n \in Nat
      BY NeedPositive
    <3> QED
      BY <2>1, <3>1, <3>2, PlaceGrantStep
  <2>4. CASE Stage2Alloc
    <3> DEFINE p == pend[k + 1]
               now == UnusedCrbs(used)
               unused == IF captured THEN this_tti_unused_crbs ELSE now
    <3>1. PICK n \in WeightedRbs(p, unused, now, MaxGrantSize) :
            grants' = grants \/ PlaceGrant(p.ue, FindEmptyInterval(used, n))
      BY <2>4 DEF Stage2Alloc, CancelGrant
    <3>2. pc = "stage2"
      BY <2>4 DEF Stage2Alloc
    <3>3. p \in Pending /\ p.ue \in Ue
      <4>1. k \in Nat /\ k < Len(pend) /\ pend \in Seq(Pending)
        BY <1>1, <3>2 DEF IInv, TypeOK, Stage2Inv
      <4>2. p \in Pending
        BY <4>1
      <4> QED
        BY <4>2 DEF Pending
    <3>4. unused \in Nat /\ now \in Nat
      BY <2>1, UnusedCrbsType, VrbAssumption DEF SlotTypes, LargeUnsigned
    <3>5. MaxGrantSize \in Nat /\ TypeOK
      BY <1>1, <3>2, GrantSizeBounds DEF IInv
    <3> HIDE DEF p, unused, now
    <3>6. n \in Nat
      BY <3>1, <3>3, <3>4, <3>5, WeightedRbsBounds
    <3>7. CASE grants' = grants
      BY <2>2, <3>7
    <3>8. CASE PlaceGrant(p.ue, FindEmptyInterval(used, n))
      BY <2>1, <3>3, <3>6, <3>8, PlaceGrantStep
    <3> QED
      BY <3>1, <3>7, <3>8
  <2>5. CASE BeginSlot
    <3>1. Len(grants') = 0
      BY <2>5 DEF BeginSlot
    <3> QED
      BY <2>2, <3>1
  <2>6. CASE ~(RetxGrant \/ Stage2Alloc \/ BeginSlot)
    <3>1. grants' = grants
      BY <1>1, <2>6, Zenon
      DEF Next, vars, StartSlice, RetxFail, RetxDone, PrepareNewtx, Stage1Grant,
          Stage1Fail, Stage1SkipSlot, Stage1Skip, EndSlot, gridVars
    <3> QED
      BY <2>2, <3>1
  <2> QED
    BY <2>3, <2>4, <2>5, <2>6
<1>2. IInv /\ [Next]_vars => [A]_vars
  BY <1>1
<1> QED
  BY <1>2, AllocationInvariant, PTL DEF Spec, GrantsTakeFreeVrbs
=============================================================================
