------------------------------- MODULE UeGroup -------------------------------
(***************************************************************************)
(* The round-robin pre-selection of UEs that intra_slice_scheduler makes   *)
(* before the policy ranks the candidates of a slice                       *)
(* (slice_ue_group_scheduler, intra_slice_scheduler.cpp).  A slice with    *)
(* more UEs than GroupSize offers the policy at most GroupSize of them per *)
(* slot and direction.  DL and UL share one group offset, which moves once *)
(* per radio frame (SFN) by the smaller of the two numbers of UEs visited. *)
(*                                                                         *)
(* The slice's UEs are identified by their DU UE index, as in the code:    *)
(* the offset is an index, the jump a number of UEs, and indices have      *)
(* holes.  Which UEs have data and pass create_newtx_dl_candidate /        *)
(* create_newtx_ul_candidate is an input of every call.                    *)
(***************************************************************************)
EXTENDS Integers, FiniteSets, FiniteSetsExt

CONSTANTS MaxUes,     \* MAX_NOF_DU_UES: indices are 0 .. MaxUes - 1
          GroupSize   \* expert_cfg.pre_policy_rr_ue_group_size

ASSUME GroupAssumption == /\ MaxUes \in Nat \ {0}
                          /\ GroupSize \in Nat \ {0}

Index == 0 .. MaxUes - 1
Direction == {"dl", "ul"}

VARIABLES
  ues,       \* indices of the UEs of the slice (slice_ue_repository)
  offset,    \* group_offset
  newFrame,  \* last_pdcch_tx is unset or of another SFN than pdcch_slot
  count,     \* max_dl_ue_count, max_ul_ue_count
  watch,     \* the UE and the direction whose waiting is observed
  held,      \* the watched UE in this frame: "unseen" before the first call
             \* of its direction, "passed" while it was ready in every call
             \* and candidate in none, "free" otherwise
  wait       \* consecutive frames the watched UE was "passed" in

vars == <<ues, offset, newFrame, count, watch, held, wait>>

TypeOK ==
  /\ ues \subseteq Index
  /\ offset \in Index
  /\ newFrame \in BOOLEAN
  /\ count \in [Direction -> 0 .. MaxUes]
  /\ watch \in [ue : Index, dir : Direction]
  /\ held \in {"unseen", "passed", "free"}
  /\ wait \in Nat

Init ==
  /\ ues = {}
  /\ offset = 0
  /\ newFrame = TRUE
  /\ count = [d \in Direction |-> 0]
  /\ watch \in [ue : Index, dir : Direction]
  /\ held = "unseen"
  /\ wait = 0

\* ue_idx_mod: the largest index of the slice, plus one.
IdxMod == Max(ues) + 1

(***************************************************************************)
(* The place of UE u in the visit that starts at lower_bound(off) and      *)
(* wraps around: UEs at or after off come first, and an off beyond the     *)
(* last UE starts from the first one.                                      *)
(***************************************************************************)
Precedes(off, v, u) ==
  \/ off <= v /\ u < off
  \/ (off <= v <=> off <= u) /\ v < u

Place(off, u) == 1 + Cardinality({v \in ues : Precedes(off, v, u)})

\* The first GroupSize ready UEs of the visit become candidates.
Candidates(off, ready) ==
  {u \in ready : Cardinality({v \in ready : Precedes(off, v, u)}) < GroupSize}

\* last_candidate_count: how many UEs were visited up to the last candidate.
LastCandidateCount(off, ready) ==
  Max({0} \cup {Place(off, u) : u \in Candidates(off, ready)})

\* Mutant: the jump follows the direction that got further.
Jump_Larger == Max({count["dl"], count["ul"], GroupSize})

\* The jump of a new frame covers what both directions have visited.
Jump == LET least == Min({count["dl"], count["ul"]})
        IN Max({least, GroupSize})

Moves == Cardinality(ues) > GroupSize /\ newFrame

NextOffset ==
  CASE Cardinality(ues) <= GroupSize -> 0
    [] Moves                         -> (offset + Jump) % IdxMod
    [] OTHER                         -> offset

(***************************************************************************)
(* What a call does to the observation of the watched UE.                  *)
(***************************************************************************)
Observe(dir, off, ready) ==
  LET before == IF newFrame THEN "unseen" ELSE held
      waited == IF newFrame
                  THEN IF held = "passed" /\ Cardinality(ues) > GroupSize
                         THEN wait + 1 ELSE 0
                  ELSE wait
      free == \/ watch.ue \notin ready
              \/ watch.ue \in Candidates(off, ready)
  IN IF dir # watch.dir
       THEN held' = before /\ wait' = waited
       ELSE /\ held' = IF free \/ before = "free" THEN "free" ELSE "passed"
            /\ wait' = IF free \/ before = "free" THEN 0 ELSE waited

(***************************************************************************)
(* fill_ue_candidate_group for one direction in the current PDCCH slot.    *)
(* ready: the UEs with pending data whose candidate can be created.        *)
(***************************************************************************)
FillUeCandidateGroup(dir, ready) ==
  LET off  == NextOffset
      base == IF Moves THEN [d \in Direction |-> 0] ELSE count
  IN /\ ues # {}
     /\ ready \subseteq ues
     /\ offset' = off
     /\ count' = [base EXCEPT
                    ![dir] = Max({@, LastCandidateCount(off, ready)})]
     /\ newFrame' = FALSE
     /\ Observe(dir, off, ready)
     /\ UNCHANGED <<ues, watch>>

\* The PDCCH slot enters the next SFN.
NextSfn ==
  /\ ~newFrame
  /\ newFrame' = TRUE
  /\ UNCHANGED <<ues, offset, count, watch, held, wait>>

\* slice_ue_repository::add_ue and rem_ue: the watch starts over.
Restart == held' = "free" /\ wait' = 0

AddUe(u) ==
  /\ u \notin ues
  /\ ues' = ues \cup {u}
  /\ Restart
  /\ UNCHANGED <<offset, newFrame, count, watch>>

RemUe(u) ==
  /\ u \in ues
  /\ ues' = ues \ {u}
  /\ Restart
  /\ UNCHANGED <<offset, newFrame, count, watch>>

Next ==
  \/ \E dir \in Direction, ready \in SUBSET ues : FillUeCandidateGroup(dir, ready)
  \/ NextSfn
  \/ \E u \in Index : AddUe(u) \/ RemUe(u)

Spec == Init /\ [][Next]_vars

(***************************************************************************)
(* The state is of its type, and a UE that stays ready is not passed over  *)
(* for more frames than the group needs to go once around the slice: the   *)
(* shared offset never jumps over a UE that a direction has not considered *)
(* ("to ensure that no UE is left unconsidered in any direction",          *)
(* intra_slice_scheduler.cpp), although indices have holes, the two        *)
(* directions visit different numbers of UEs and the last visit wraps      *)
(* around.                                                                 *)
(***************************************************************************)
NoUeStarved == TypeOK /\ (ues # {} => wait * GroupSize < IdxMod)

=============================================================================
