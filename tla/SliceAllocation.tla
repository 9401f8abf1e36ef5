-------------------------- MODULE SliceAllocation --------------------------
(***************************************************************************)
(* The intra-slice scheduler's DL allocation with EdgeRIC weights.         *)
(*                                                                         *)
(* In every slot intra_slice_scheduler::dl_sched is called for a sequence  *)
(* of slice opportunities.  Each first places reTxs, then newTxs in two    *)
(* stages.  Stage 1 walks the candidates by priority and reserves PDCCH,   *)
(* UCI and a HARQ process for each, until the ESTIMATED RBs fill the slice.*)
(* Stage 2 places the VRBs: each grant gets an equal part of the RBs plus  *)
(* what its predecessor left, the last one all that remains, and a weight  *)
(* received from a muApp shrinks the grant to weight * unused VRBs.        *)
(*                                                                         *)
(* Weights are in tenths.  The scheduling policies are abstracted to the   *)
(* candidate order, which is arbitrary: scheduler_time_pf puts UEs of      *)
(* weight 0 last except those new to it, the others ignore weights.        *)
(***************************************************************************)
EXTENDS Integers, Sequences, FiniteSets

CONSTANTS
  Ue,                  \* the UEs of the slice
  NofVrbs,             \* the VRBs of the BWP
  CrbLims,             \* the VRBs within pdsch_crb_limits & dl_crb_lims
  Reserved,            \* the possible sets of VRBs in use before UE scheduling
  Weights,             \* the weights a muApp may send, in tenths
  NoWeight,            \* get_weights returned std::nullopt
  Needs,               \* the possible expected_nof_rbs of a candidate
  Quotas,              \* the possible slice.remaining_rbs() of an opportunity
  MAX_UE_GRANT_PER_SLOT, MIN_RB_PER_GRANT,  \* 8 and 4 in the code
  CandidatesPerGrant,  \* 4 in the code
  MaxGrants,           \* max_pdschs_per_slot and the like
  MaxAttempts,         \* max_pdcch_alloc_attempts_per_slot
  MaxSlices            \* bound: slice opportunities per slot

Vrb == 0..(NofVrbs - 1)

ASSUME VrbAssumption == NofVrbs \in Nat \ {0} /\ Reserved \subseteq SUBSET Vrb
\* Without an RB within the limits get_dl_sched_context finds no parameters.
ASSUME CrbLimsAssumption == CrbLims \in SUBSET Vrb /\ CrbLims # {}
ASSUME UeAssumption == IsFiniteSet(Ue)
ASSUME WeightAssumption == Weights \subseteq Int /\ NoWeight \notin Int
\* compute_newtx_required_mcs_and_prbs never returns 0 RBs.
ASSUME NeedAssumption == Needs \subseteq Nat \ {0}
\* dl_sched's sanity check.
ASSUME QuotaAssumption == Quotas \subseteq 1..NofVrbs
ASSUME LimitAssumption ==
  /\ MAX_UE_GRANT_PER_SLOT \in Nat \ {0} /\ MIN_RB_PER_GRANT \in Nat \ {0}
  /\ CandidatesPerGrant \in Nat \ {0}
  /\ MaxGrants \in Nat /\ MaxAttempts \in Nat /\ MaxSlices \in Nat

VARIABLES
  pc,                   \* "idle", "slice", "retx", "newtx", "stage1", "stage2"
  weight,               \* what get_weights returns for each UE in this slot
  used,                 \* used_dl_vrbs
  this_tti_unused_crbs, \* the static of grant_params_selector.cpp
  captured,             \* count_tti = edgeric::tti_cnt
  slices,               \* slice opportunities so far in this slot
  quota,                \* slice.remaining_rbs()
  max_ue_grants,        \* max_ue_grants_to_alloc
  dl_attempts_count,
  cands,                \* the newtx_candidates still to be tried
  pend,                 \* pending_dl_newtxs: UE and expected_nof_rbs of each
  rbs_to_alloc, max_rbs_per_grant, rb_count, rbs_missing,
  pucch_full,           \* pucch_grant_limit_exceeded
  k,                    \* stage 2's alloc_count
  grants,               \* history: this slot's grants with VRBs
  cancelled             \* history: the UEs whose grant of this slot was left empty

sliceVars == <<slices, quota, max_ue_grants, dl_attempts_count>>
stageVars == <<cands, pend, rbs_to_alloc, max_rbs_per_grant, rb_count, rbs_missing,
               pucch_full, k>>
gridVars == <<used, this_tti_unused_crbs, captured, grants, cancelled>>
vars == <<pc, weight, used, this_tti_unused_crbs, captured, slices, quota, max_ue_grants,
          dl_attempts_count, cands, pend, rbs_to_alloc, max_rbs_per_grant, rb_count,
          rbs_missing, pucch_full, k, grants, cancelled>>

MinOf(a, b) == IF a <= b THEN a ELSE b
MaxOf(a, b) == IF a >= b THEN a ELSE b

\* Stands for 2^32: more than any number of RBs.
LargeUnsigned == 1000000

\* A grant of stage 1: its UE and expected_nof_rbs.
Pending == [ue : Ue, need : Needs]

TypeOK ==
  /\ pc \in {"idle", "slice", "retx", "newtx", "stage1", "stage2"}
  /\ weight \in [Ue -> Weights \cup {NoWeight}]
  /\ used \in SUBSET Vrb
  /\ this_tti_unused_crbs \in 0..NofVrbs \cup {LargeUnsigned}
  /\ captured \in BOOLEAN
  /\ slices \in 0..MaxSlices
  /\ quota \in 0..NofVrbs
  /\ max_ue_grants \in 0..MaxGrants
  /\ dl_attempts_count \in 0..(MaxAttempts + 1)
  /\ cands \in Seq(Ue)
  /\ pend \in Seq(Pending)
  /\ rbs_to_alloc \in 0..NofVrbs
  /\ max_rbs_per_grant \in Nat
  /\ rb_count \in Nat
  /\ rbs_missing \in Nat
  /\ pucch_full \in BOOLEAN
  /\ k \in Nat
  /\ grants \in Seq([ue : Ue, vrbs : SUBSET Vrb])
  /\ cancelled \in SUBSET Ue

-----------------------------------------------------------------------------
(* VRB intervals *)

\* find_next_empty_interval: the maximal intervals of VRBs that are not in use.
Gaps(U) ==
  {g \in [start : Vrb, stop : 1..NofVrbs] :
     /\ g.start < g.stop
     /\ \A v \in g.start..(g.stop - 1) : v \notin U
     /\ g.start > 0 => g.start - 1 \in U
     /\ g.stop < NofVrbs => g.stop \in U}

Length(g) == g.stop - g.start
NoInterval == [start |-> 0, stop |-> 0]

\* Fault: the length of the gap is not compared with the RBs asked for.
FindEmptyInterval_NoLength(U, n) ==
  IF Gaps(U) # {}
  THEN LET g == CHOOSE x \in Gaps(U) : \A y \in Gaps(U) : x.start <= y.start
       IN [start |-> g.start, stop |-> MinOf(g.start + n, NofVrbs)]
  ELSE NoInterval

\* find_empty_interval_of_length: the first n VRBs of the first gap that has as
\* many, else the first of the longest gaps.
FindEmptyInterval(U, n) ==
  LET Fits == {g \in Gaps(U) : Length(g) >= n}
  IN CASE Fits # {} ->
            LET g == CHOOSE x \in Fits : \A y \in Fits : x.start <= y.start
            IN [start |-> g.start, stop |-> g.start + n]
       [] Fits = {} /\ Gaps(U) # {} ->
            CHOOSE x \in Gaps(U) : \A y \in Gaps(U) :
              Length(x) > Length(y) \/ (Length(x) = Length(y) /\ x.start <= y.start)
       [] OTHER -> NoInterval

VrbsOf(g) == g.start..(g.stop - 1)

\* (~used_vrbs).count()
FreeVrbs(U) == NofVrbs - Cardinality(U)

-----------------------------------------------------------------------------
(* Weights *)

\* static_cast<unsigned>(weight * rbs): a product of -1 or below, or of 2^32 or
\* above, is undefined; the conversion saturates (Arm) or wraps (x86), to 0 or to
\* more than any number of RBs.
Cast(w, rbs) == IF w * rbs > -10 /\ w * rbs < 10 * LargeUnsigned
                THEN {MaxOf((w * rbs) \div 10, 0)} ELSE {0, LargeUnsigned}

\* compute_newtx_dl_vrbs' unused_crbs: total_bwp_rbs, the RBs within the limits,
\* less used_vrbs.count(), which counts the RBs outside the limits too. Below 0
\* the unsigned wraps, and is 2^32 as a float.
UnusedCrbs(U) == IF Cardinality(U) <= Cardinality(CrbLims)
                 THEN Cardinality(CrbLims) - Cardinality(U) ELSE LargeUnsigned

\* Fault: no minimum of one RB.
EstimatedPrbs_NoMin(p, rbs) ==
  IF weight[p.ue] # NoWeight /\ weight[p.ue] > 0
  THEN MinOf((weight[p.ue] * rbs) \div 10, p.need)
  ELSE p.need

\* Stage 1's estimated_prbs.
EstimatedPrbs(p, rbs) ==
  IF weight[p.ue] # NoWeight /\ weight[p.ue] > 0
  THEN MinOf(MaxOf((weight[p.ue] * rbs) \div 10, 1), p.need)
  ELSE p.need

\* Fault: no minimum of one RB.
WeightedRbs_NoMin(p, unused, free, limit) ==
  IF weight[p.ue] = NoWeight
  THEN {MinOf(p.need, limit)}
  ELSE {MinOf(MinOf(c, p.need), limit) : c \in Cast(weight[p.ue], unused)}

\* compute_newtx_dl_vrbs: the RBs to look for, with `unused' unused_crbs at the
\* first newTx of this TTI and `free' now.
WeightedRbs(p, unused, free, limit) ==
  IF weight[p.ue] = NoWeight
  THEN {MinOf(p.need, limit)}
  ELSE {MinOf(IF weight[p.ue] > 0 /\ MinOf(c, p.need) = 0 /\ free > 0
              THEN 1 ELSE MinOf(c, p.need), limit) : c \in Cast(weight[p.ue], unused)}

-----------------------------------------------------------------------------
(* A slot and its slice opportunities *)

\* schedule_dl_newtx_candidates returns: its locals are gone, the grant
\* builders cleared.
EndNewtx ==
  /\ pc' = "slice"
  /\ cands' = <<>>
  /\ pend' = <<>>
  /\ rbs_to_alloc' = 0
  /\ max_rbs_per_grant' = 0
  /\ rb_count' = 0
  /\ rbs_missing' = 0
  /\ pucch_full' = FALSE
  /\ k' = 0

Init ==
  /\ pc = "idle"
  /\ weight = [u \in Ue |-> NoWeight]
  /\ used = {}
  /\ this_tti_unused_crbs = 0
  /\ captured = TRUE             \* count_tti and tti_cnt are both 0
  /\ slices = 0
  /\ quota = 0
  /\ max_ue_grants = 0
  /\ dl_attempts_count = 0
  /\ cands = <<>>
  /\ pend = <<>>
  /\ rbs_to_alloc = 0
  /\ max_rbs_per_grant = 0
  /\ rb_count = 0
  /\ rbs_missing = 0
  /\ pucch_full = FALSE
  /\ k = 0
  /\ grants = <<>>
  /\ cancelled = {}

\* run_slot: the TTI advances, weights arrive; slot_indication resets the
\* attempts and the first dl_sched of the slot calls update_used_dl_vrbs: what is
\* outside the CRB limits counts as in use.
BeginSlot ==
  /\ pc = "idle"
  /\ weight' \in [Ue -> Weights \cup {NoWeight}]
  /\ \E R \in Reserved : used' = R \cup (Vrb \ CrbLims)
  /\ captured' = FALSE
  /\ slices' = 0
  /\ dl_attempts_count' = 0
  /\ grants' = <<>>
  /\ cancelled' = {}
  /\ pc' = "slice"
  /\ UNCHANGED <<this_tti_unused_crbs, quota, max_ue_grants, stageVars>>

\* dl_sched: the slice may use q RBs and m grants (max_pdschs_to_alloc: at most
\* one per UE, per RB and per attempt left).
StartSlice ==
  /\ pc = "slice"
  /\ slices < MaxSlices
  /\ slices' = slices + 1
  /\ \E q \in Quotas, m \in 0..MaxGrants :
       /\ m <= q
       /\ m <= Cardinality(Ue)
       /\ m <= MaxOf(MaxAttempts - dl_attempts_count, 0)
       /\ quota' = q
       /\ max_ue_grants' = m
       /\ pc' = IF m = 0 THEN "slice" ELSE "retx"
  /\ UNCHANGED <<weight, gridVars, dl_attempts_count, stageVars>>

\* The reTxs end (none left, skip_slot, attempts exhausted) with m grants left.
EndRetx(m) == pc' = IF m = 0 THEN "slice" ELSE "newtx"

\* set_pdsch_params with VRBs: the grant is filled in, its VRBs are in use.
PlaceGrant(u, g) ==
  /\ used' = used \cup VrbsOf(g)
  /\ grants' = Append(grants, [ue |-> u, vrbs |-> VrbsOf(g)])

\* set_pdsch_params without VRBs cancels the grant; its UCI stays reserved.
CancelGrant(u) ==
  /\ cancelled' = cancelled \cup {u}
  /\ UNCHANGED <<used, grants>>

\* schedule_dl_retx_candidates: a reTx takes as many RBs as its first
\* transmission had, whatever the slice has left.
RetxGrant ==
  /\ pc = "retx"
  /\ \E u \in Ue, n \in Needs :
       LET g == FindEmptyInterval(used, n)
       IN /\ Length(g) = n
          /\ PlaceGrant(u, g)
          /\ quota' = MaxOf(quota - n, 0)
          /\ max_ue_grants' = max_ue_grants - 1
          /\ IF max_ue_grants = 1 \/ quota <= n
             THEN EndRetx(max_ue_grants - 1) /\ UNCHANGED dl_attempts_count
             ELSE /\ dl_attempts_count' = dl_attempts_count + 1
                  /\ IF dl_attempts_count + 1 >= MaxAttempts
                     THEN EndRetx(max_ue_grants - 1) ELSE UNCHANGED pc
  /\ UNCHANGED <<weight, this_tti_unused_crbs, captured, cancelled, slices, stageVars>>

\* A reTx that cannot be allocated.
RetxFail ==
  /\ pc = "retx"
  /\ dl_attempts_count' = dl_attempts_count + 1
  /\ IF dl_attempts_count + 1 >= MaxAttempts THEN EndRetx(max_ue_grants) ELSE UNCHANGED pc
  /\ UNCHANGED <<weight, gridVars, slices, quota, max_ue_grants, stageVars>>

RetxDone ==
  /\ pc = "retx"
  /\ EndRetx(max_ue_grants)
  /\ UNCHANGED <<weight, gridVars, sliceVars, stageVars>>

\* The candidates of the slice, in any order.
Orders == {s \in UNION {[1..n -> Ue] : n \in 0..Cardinality(Ue)} :
             \A i, j \in DOMAIN s : s[i] = s[j] => i = j}

\* get_max_grants_and_rb_grant_size: how many UEs to allocate, given the number
\* of candidates, the grants left and the PDCCHs left.
UesToAlloc(n, m, pdcchs) ==
  MinOf(MinOf(MinOf(m, MaxOf(n \div CandidatesPerGrant, 1)), MAX_UE_GRANT_PER_SLOT), pdcchs)

\* schedule_dl_newtx_candidates: prepare_newtx_dl_candidates, then the RBs that
\* may be allocated and the RBs per grant. Without any the slice is done.
PrepareNewtx ==
  /\ pc = "newtx"
  /\ \E c \in Orders, pdcchs \in 0..MaxGrants :
       LET rbs == MinOf(quota, FreeVrbs(used))
           n   == UesToAlloc(Len(c), max_ue_grants, pdcchs)
       IN IF c = <<>> \/ n = 0 \/ rbs = 0
          THEN EndNewtx
          ELSE /\ pc' = "stage1"
               /\ cands' = c
               /\ pend' = <<>>
               /\ rbs_to_alloc' = rbs
               /\ max_rbs_per_grant' = MaxOf(rbs \div n, MIN_RB_PER_GRANT)
               /\ rb_count' = 0
               /\ pucch_full' = FALSE
               /\ UNCHANGED <<rbs_missing, k>>
  /\ UNCHANGED <<weight, gridVars, sliceVars>>

-----------------------------------------------------------------------------
(* Stage 1: select the UEs *)

\* The end of stage 1 with the grants p: nothing to do, or on to stage 2.
EnterStage2(p) ==
  IF p = <<>>
  THEN EndNewtx
  ELSE /\ pc' = "stage2"
       /\ cands' = <<>>
       /\ pend' = p
       /\ max_rbs_per_grant' = rbs_to_alloc \div Len(p)
       /\ rb_count' = 0
       /\ rbs_missing' = 0
       /\ pucch_full' = FALSE
       /\ k' = 0
       /\ UNCHANGED rbs_to_alloc

\* On to the next candidate, with the grants p, if there is one.
Continue(p, count, full) ==
  IF Tail(cands) = <<>>
  THEN EnterStage2(p)
  ELSE /\ cands' = Tail(cands)
       /\ pend' = p
       /\ rb_count' = count
       /\ pucch_full' = full
       /\ UNCHANGED <<pc, rbs_to_alloc, max_rbs_per_grant, rbs_missing, k>>

\* The end of an iteration that counts as an attempt.
NextCandidate(p, count, full) ==
  /\ dl_attempts_count' = dl_attempts_count + 1
  /\ IF dl_attempts_count + 1 >= MaxAttempts
     THEN EnterStage2(p)
     ELSE Continue(p, count, full)

\* allocate_dl_grant succeeds for the next candidate.
Stage1Grant ==
  /\ pc = "stage1"
  /\ \E need \in Needs :
       LET p     == [ue |-> Head(cands), need |-> need]
           count == rb_count + MinOf(EstimatedPrbs(p, rbs_to_alloc), max_rbs_per_grant)
       IN IF count >= rbs_to_alloc \/ Len(pend) + 1 >= max_ue_grants
          THEN EnterStage2(Append(pend, p)) /\ UNCHANGED dl_attempts_count
          ELSE NextCandidate(Append(pend, p), count, pucch_full)
  /\ UNCHANGED <<weight, gridVars, slices, quota, max_ue_grants>>

\* allocate_dl_grant fails: no UCI resources, or no parameters or PDCCH.
Stage1Fail ==
  /\ pc = "stage1"
  /\ \E uci_alloc_failed \in BOOLEAN :
       NextCandidate(pend, rb_count, pucch_full \/ uci_alloc_failed)
  /\ UNCHANGED <<weight, gridVars, slices, quota, max_ue_grants>>

\* allocate_dl_grant says skip_slot.
Stage1SkipSlot ==
  /\ pc = "stage1"
  /\ EnterStage2(pend)
  /\ UNCHANGED <<weight, gridVars, sliceVars>>

\* With the PUCCH saturated, a candidate without a UCI to share is passed over.
Stage1Skip ==
  /\ pc = "stage1"
  /\ pucch_full
  /\ Continue(pend, rb_count, pucch_full)
  /\ UNCHANGED <<weight, gridVars, sliceVars>>

-----------------------------------------------------------------------------
(* Stage 2: place the grants *)

\* Fault: the last grant gets the remainder without what the others took.
MaxGrantSize_NoSubtract ==
  IF k = Len(pend) - 1 THEN rbs_to_alloc ELSE max_rbs_per_grant + rbs_missing

\* max_grant_size of the grant at k.
MaxGrantSize == IF k = Len(pend) - 1 THEN rbs_to_alloc - rb_count
                                     ELSE max_rbs_per_grant + rbs_missing

\* One grant: recommended_vrbs, then set_pdsch_params. The first one of a TTI
\* captures the unused VRBs.
Stage2Alloc ==
  /\ pc = "stage2"
  /\ LET p      == pend[k + 1]
         free   == UnusedCrbs(used)
         unused == IF captured THEN this_tti_unused_crbs ELSE free
         last   == k + 1 = Len(pend)
     IN /\ this_tti_unused_crbs' = unused
        /\ captured' = TRUE
        /\ \E n \in WeightedRbs(p, unused, free, MaxGrantSize) :
             LET g == FindEmptyInterval(used, n)
             IN IF Length(g) = 0
                THEN /\ CancelGrant(p.ue)
                     /\ UNCHANGED quota
                     /\ last \/ UNCHANGED <<rb_count, rbs_missing>>
                ELSE /\ PlaceGrant(p.ue, g)
                     /\ UNCHANGED cancelled
                     /\ quota' = quota - Length(g)
                     /\ last \/ (/\ rb_count' = rb_count + Length(g)
                                 /\ rbs_missing' = MaxGrantSize - Length(g))
        /\ IF last
           THEN EndNewtx
           ELSE /\ k' = k + 1
                /\ UNCHANGED <<pc, cands, pend, rbs_to_alloc, max_rbs_per_grant, pucch_full>>
  /\ UNCHANGED <<weight, slices, max_ue_grants, dl_attempts_count>>

\* The slot's UE scheduling ends: post_process_results.
EndSlot ==
  /\ pc = "slice"
  /\ pc' = "idle"
  /\ UNCHANGED <<weight, gridVars, sliceVars, stageVars>>

Next ==
  \/ BeginSlot \/ StartSlice \/ RetxGrant \/ RetxFail \/ RetxDone \/ PrepareNewtx
  \/ Stage1Grant \/ Stage1Fail \/ Stage1SkipSlot \/ Stage1Skip
  \/ Stage2Alloc \/ EndSlot

Spec == Init /\ [][Next]_vars

-----------------------------------------------------------------------------
(* Properties *)

\* srsran_assert(max_grant_size > 0) in stage 2 never fails: the weighted
\* estimates of stage 1 never select more UEs than there are RBs, and what
\* earlier grants took or left never exhausts the share of a later one.
GrantSizePositive == pc = "stage2" => MaxGrantSize > 0

\* A grant only takes VRBs that were free when it was placed: no two grants of a
\* slot overlap, nor does one overlap what was reserved before UE scheduling,
\* however fragmented the grid is (used_dl_vrbs and the interval search).
GrantsTakeFreeVrbs ==
  [][Len(grants') > Len(grants) => grants'[Len(grants')].vrbs \cap used = {}]_vars

\* A UE that was given PDCCH, UCI and HARQ in stage 1 is only left without VRBs
\* in stage 2, where VRBs are always left, if a muApp weighted it 0 or less.
\* grant_params_selector.cpp: "Ensure at least 1 PRB if weight > 0 and there's
\* available space". It holds when the CRB limits span the BWP, the default, and
\* fails otherwise: UnusedCrbs may then be 0 with free VRBs in the grid.
OnlyZeroWeightCancelled ==
  \A u \in cancelled : weight[u] # NoWeight /\ weight[u] <= 0

\* The newTxs of a slice stay within its RBs: quota (an unsigned in the code)
\* never underflows, and rb_count never exceeds what was to be allocated.
WithinSliceQuota ==
  /\ quota >= 0
  /\ pc = "stage2" => rb_count <= rbs_to_alloc

\* The slice was not limited in RBs, every UE has a weight and was granted.
WholeGrid ==
  /\ quota + Cardinality(used) = NofVrbs
  /\ {grants[i].ue : i \in DOMAIN grants} = Ue
  /\ \A u \in Ue : weight[u] # NoWeight

\* muapp-scheduling/README.md, Weight Semantics: "With 2 UEs and weights [0.7,
\* 0.3]: UE1 gets 0.7 x 48 = 33 PRBs (capped by actual need)". UEs in need of
\* more get their weight's part of the VRBs that were unused.
ShareHonoured ==
  pc = "slice" /\ Len(grants) = Cardinality(Ue) /\ WholeGrid =>
    \A i \in DOMAIN grants :
      LET w == weight[grants[i].ue]
      IN w # NoWeight =>
           Cardinality(grants[i].vrbs) >= (w * this_tti_unused_crbs) \div 10
=============================================================================
