------------------------------ MODULE InterSlice ------------------------------
(***************************************************************************)
(* The inter-slice scheduler (lib/scheduler/slicing): how the RBs of a     *)
(* cell are offered to the RAN slices, slot by slot.                       *)
(*                                                                         *)
(* slot_indication builds a queue of slice candidates sorted by priority;  *)
(* get_next_candidate<IsDownlink> pops them and offers each slice a number *)
(* of RBs; the intra-slice scheduler (SliceAllocation for DL) grants       *)
(* reTxs, then newTxs of up to that number, and stores them in the slice.  *)
(* PUSCHs are granted k2 slots ahead, so UL counters live in rings indexed *)
(* by slot.  The template's two instances do not interact: dir says which  *)
(* one a behaviour is about.                                               *)
(*                                                                         *)
(* The lower bits of a priority (slots since the last grant, average RBs)  *)
(* only order slices of equal configured priority; that order is arbitrary *)
(* here, so what holds here holds for every history of grants.             *)
(***************************************************************************)
EXTENDS Integers, Sequences, FiniteSets, FiniteSetsExt, Functions

CONSTANTS
  Slice,      \* slices of the cell
  Prio,       \* configured priority of a slice (cfg.priority)
  Limits,     \* slice -> RB limits it may have: records ded, min, max
  CellRbs,    \* RBs of the cell
  Period,     \* size of slot_ring: slots of a TDD period, 1 in FDD
  DlSlots,    \* slots of the period with PDCCH (is_dl_enabled)
  K2,         \* slot of the period -> k2 values (valid_pusch_td_list)
  RingSize,   \* size of pusch_rb_count_per_slot
  Slots,      \* slot numbers wrap here; both ring sizes divide it
  MaxSkip     \* BOUND: slots between two slot indications

MinK2 == Min(UNION Range(K2))
MaxK2 == Max(UNION Range(K2))

ASSUME SliceAssumption ==
  /\ Slice # {} /\ IsFiniteSet(Slice)
  /\ Prio \in [Slice -> Nat]
  /\ CellRbs \in Nat \ {0}
  /\ Limits \in [Slice -> SUBSET [ded : Nat, min : Nat, max : Nat]]
  /\ \A s \in Slice : \A l \in Limits[s] :
       l.ded <= l.min /\ l.min <= l.max /\ l.max <= CellRbs
  /\ Period \in Nat \ {0} /\ DlSlots \subseteq 0 .. Period - 1
  /\ RingSize \in Nat \ {0}
  /\ K2 \in [0 .. Period - 1 -> SUBSET (1 .. RingSize - 1)]
  /\ UNION Range(K2) # {}
  /\ Slots \in Nat \ {0} /\ Slots % Period = 0 /\ Slots % RingSize = 0
  /\ MaxSkip \in Nat \ {0} /\ MaxSkip < Slots

None == [id |-> "none"]

VARIABLES
  dir,      \* "dl" or "ul": the instance observed
  now,      \* current_slot
  active,   \* slices with UEs (ran_slice_instance::active)
  cfg,      \* slice -> RB limits
  rbs,      \* slice -> ring of RB counters (pdsch_rb_count is a ring of one)
  dedRbs,   \* slot_ring[].count_dl_ded_rbs or count_ul_ded_rbs
  queue,    \* dl_prio_queue or ul_prio_queue
  offer,    \* the candidate handed to the intra-slice scheduler, or None
  granted,  \* HISTORY: slice -> k -> RBs granted in slot now + k
  served,   \* HISTORY: k -> slice -> its dedicated RBs, once the slice was
            \*          scheduled below its minimum for slot now + k
  due,      \* HISTORY: slices below their minimum whose turn has not come
  newtx     \* HISTORY: RBs of newTxs granted in the last step

vars == <<dir, now, active, cfg, rbs, dedRbs, queue, offer, granted, served, due, newtx>>

Ahead == 0 .. MaxK2
Candidate == [id : Slice, start : Nat, stop : Nat, k : Ahead, flag : {0, 1}]

NoDedicated(lim) == [lim EXCEPT !.ded = 0]

TypeOK ==
  /\ dir \in {"dl", "ul"}
  /\ now \in 0 .. Slots - 1
  /\ active \subseteq Slice
  /\ \A s \in Slice : cfg[s] \in Limits[s] \cup {NoDedicated(l) : l \in Limits[s]}
  /\ rbs \in [Slice -> [0 .. RingSize - 1 -> 0 .. CellRbs]]
  /\ dedRbs \in [0 .. Period - 1 -> Nat]
  /\ queue \in Seq(Candidate)
  /\ offer = None \/ offer \in [id : Slice, k : Ahead, max : 1 .. CellRbs]
  /\ granted \in [Slice -> [Ahead -> Nat]]
  /\ served \in [Ahead -> [Slice -> Nat]]
  /\ due \subseteq Slice \X Ahead
  /\ newtx \in 0 .. CellRbs

NoneServed == [s \in Slice |-> 0]

Init ==
  /\ dir \in {"dl", "ul"}
  /\ now = 0
  /\ active = {}
  /\ cfg \in {f \in [Slice -> UNION Range(Limits)] : \A s \in Slice : f[s] \in Limits[s]}
  /\ rbs = [s \in Slice |-> [p \in 0 .. RingSize - 1 |-> 0]]
  /\ dedRbs = [p \in 0 .. Period - 1 |-> 0]
  /\ queue = <<>>
  /\ offer = None
  /\ granted = [s \in Slice |-> [k \in Ahead |-> 0]]
  /\ served = [k \in Ahead |-> NoneServed]
  /\ due = {}
  /\ newtx = 0

RingPos(n) == IF dir = "dl" THEN 0 ELSE n % RingSize

(***************************************************************************)
(* ran_slice_instance::slot_indication for the slots skipped and the new   *)
(* one: PDSCH counters restart; of the PUSCH counters the one that can no  *)
(* longer be allocated (slot + min_k2 - 1) is cleared.  slot_ring forgets  *)
(* the dedicated RBs of the slot before.                                   *)
(***************************************************************************)
\* Mutant: only the last of the slots that have passed is cleared.
Cleared_LastOnly(skip) == {RingPos(now + skip + MinK2 - 1)}

Cleared(skip) == {RingPos(now + i + MinK2 - 1) : i \in 1 .. skip}

\* The priority bit of a candidate that has not reached its minimum.
MinRbFlag(s, stop) == IF stop <= cfg[s].min /\ cfg[s].min > 0 THEN 1 ELSE 0

\* Mutant: the minimum gets no candidate of its own.
SliceCandidates_NoSplit(s, k, n) ==
  {[id |-> s, start |-> n, stop |-> cfg[s].max, k |-> k, flag |-> MinRbFlag(s, cfg[s].max)]}

\* The one or two candidates of a slice for the slot k ahead.
SliceCandidates(s, k, n) ==
  LET lim == cfg[s]
      cand(a, b) == [id |-> s, start |-> a, stop |-> b, k |-> k, flag |-> MinRbFlag(s, b)]
  IN IF n < lim.min /\ lim.max > lim.min
       THEN {cand(n, lim.min), cand(lim.min, lim.max)}
       ELSE {cand(n, lim.max)}

\* get_prio: nearer slots, then slices below their minimum, then configured
\* priority; tie orders the rest.
Before(tie, a, b) ==
  LET key(c) == <<MaxK2 - c.k, c.flag, Prio[c.id], tie[<<c.k, c.flag>>][c.id]>>
      ka == key(a)
      kb == key(b)
  IN \E i \in 1 .. 4 : ka[i] > kb[i] /\ \A j \in 1 .. i - 1 : ka[j] = kb[j]

Sorted(cands, tie) ==
  [i \in 1 .. Cardinality(cands) |->
     CHOOSE c \in cands : Cardinality({d \in cands : Before(tie, d, c)}) = i - 1]

Delays(slot) ==
  IF slot % Period \notin DlSlots THEN {}
  ELSE IF dir = "dl" THEN {0} ELSE K2[slot % Period]

(***************************************************************************)
(* slot_indication.  blocked: slots ahead in which PDSCH is disabled or    *)
(* all PUSCH RBs are in use.                                               *)
(***************************************************************************)
SlotIndication(skip, blocked, tie) ==
  LET slot == (now + skip) % Slots
      cleared == [s \in Slice |-> [p \in DOMAIN rbs[s] |->
                    IF p \in Cleared(skip) THEN 0 ELSE rbs[s][p]]]
      delays == Delays(slot) \ blocked
      count(s, k) == cleared[s][RingPos(slot + k)]
      below == {x \in active \X delays : count(x[1], x[2]) < cfg[x[1]].max}
      cands == UNION {SliceCandidates(x[1], x[2], count(x[1], x[2])) : x \in below}
      shifted(f, none) == [k \in Ahead |-> IF k + skip \in Ahead THEN f[k + skip] ELSE none]
  IN /\ queue = <<>> /\ offer = None
     /\ now' = slot
     /\ rbs' = cleared
     /\ dedRbs' = [p \in DOMAIN dedRbs |->
                     IF p \in {(now + i - 1) % Period : i \in 1 .. skip} THEN 0 ELSE dedRbs[p]]
     /\ queue' = Sorted(cands, tie)
     /\ granted' = [s \in Slice |-> shifted(granted[s], 0)]
     /\ served' = shifted(served, NoneServed)
     /\ due' = {x \in active \X delays : count(x[1], x[2]) < cfg[x[1]].min}
     /\ newtx' = 0
     /\ UNCHANGED <<dir, active, cfg, offer>>

\* Two consecutive candidates of one slice and slot are merged.
Merged(q) == Len(q) > 1 /\ q[2].id = q[1].id /\ q[2].k = q[1].k

\* rem_rbs, a difference of unsigned numbers (2^16 stands for 2^32, which TLC
\* cannot represent; both exceed every limit).
RemRbs(count) == (CellRbs - count) % 65536

\* Mutant: candidates without RB space are not skipped, and 0 means no limit.
Offered_NoLimit(c, rem, n) ==
  IF n \in c.start .. c.stop - 1
    THEN [id |-> c.id, k |-> c.k, max |-> IF rem = 0 THEN cfg[c.id].max ELSE Min({c.stop, rem})]
    ELSE None

\* Whether a popped candidate is returned, and with how many RBs.
Offered(c, rem, n) ==
  IF rem > 0 /\ c.stop > 0 /\ n \in c.start .. c.stop - 1
    THEN [id |-> c.id, k |-> c.k, max |-> Min({c.stop, rem})]
    ELSE None

(***************************************************************************)
(* One turn of the loop of get_next_candidate.                             *)
(***************************************************************************)
PopCandidate ==
  LET top   == queue[1]
      c     == IF Merged(queue)
                 THEN [top EXCEPT !.start = Min({@, queue[2].start}),
                                  !.stop  = Max({@, queue[2].stop})]
                 ELSE top
      pos   == (now + c.k) % Period
      lim   == cfg[c.id]
      below == c.start < lim.min
  IN /\ queue # <<>> /\ offer = None
     /\ queue' = SubSeq(queue, IF Merged(queue) THEN 3 ELSE 2, Len(queue))
     /\ dedRbs' = [dedRbs EXCEPT ![pos] = IF below THEN @ + lim.ded ELSE @]
     /\ offer' = Offered(c, RemRbs(dedRbs[pos]), rbs[c.id][RingPos(now + c.k)])
     /\ served' = IF below THEN [served EXCEPT ![c.k][c.id] = lim.ded] ELSE served
     /\ due' = due \ {<<c.id, c.k>>}
     /\ newtx' = 0
     /\ UNCHANGED <<dir, now, active, cfg, rbs, granted>>

\* Mutant: RBs granted earlier in the slot are not subtracted.
Remaining_Offer(r) == offer.max

\* RBs the slice of the offer has been granted in the slot so far.
Used == rbs[offer.id][RingPos(now + offer.k)]

\* common_ran_slice_candidate::remaining_rbs, after r more RBs.
Remaining(r) == IF offer.max < Used + r THEN 0 ELSE offer.max - (Used + r)

(***************************************************************************)
(* dl_sched or ul_sched: the intra-slice scheduler grants r RBs to reTxs,  *)
(* then n to newTxs, and stores them in the slice (store_grant).  A reTx   *)
(* keeps its number of RBs: remaining_rbs is looked at before and after    *)
(* it, so that the last one may exceed the offer, but newTxs may not.      *)
(* The grants of a slot are disjoint.                                      *)
(***************************************************************************)
IntraSliceSched(r, n) ==
  /\ offer # None
  /\ r > 0 => Remaining(0) > 0
  /\ n <= Remaining(r)
  /\ Used + r + n <= CellRbs
  /\ rbs' = [rbs EXCEPT ![offer.id][RingPos(now + offer.k)] = @ + r + n]
  /\ granted' = [granted EXCEPT ![offer.id][offer.k] = @ + r + n]
  /\ offer' = None
  /\ newtx' = n
  /\ UNCHANGED <<dir, now, active, cfg, dedRbs, queue, served, due>>

\* Between two slots: the first UE of a slice is added, or the last one leaves.
BetweenSlots == queue = <<>> /\ offer = None

AddUe(s) ==
  /\ BetweenSlots
  /\ s \notin active
  /\ active' = active \cup {s}
  /\ newtx' = 0
  /\ UNCHANGED <<dir, now, cfg, rbs, dedRbs, queue, offer, granted, served, due>>

RemUe(s) ==
  /\ BetweenSlots
  /\ s \in active
  /\ active' = active \ {s}
  /\ newtx' = 0
  /\ UNCHANGED <<dir, now, cfg, rbs, dedRbs, queue, offer, granted, served, due>>

\* handle_slice_reconfiguration_request: the DU manager sends {min, max}, so
\* the dedicated RBs become 0.
ReconfSlice(s, lim) ==
  /\ BetweenSlots
  /\ cfg' = [cfg EXCEPT ![s] = NoDedicated(lim)]
  /\ newtx' = 0
  /\ UNCHANGED <<dir, now, active, rbs, dedRbs, queue, offer, granted, served, due>>

Ranks == {f \in [Slice -> 1 .. Cardinality(Slice)] : IsInjective(f)}

Next ==
  \/ \E skip \in 1 .. MaxSkip :
       \E blocked \in SUBSET Delays(now + skip), tie \in [Delays(now + skip) \X {0, 1} -> Ranks] :
         SlotIndication(skip, blocked, tie)
  \/ PopCandidate
  \/ \E r, n \in 0 .. CellRbs : IntraSliceSched(r, n)
  \/ \E s \in Slice : AddUe(s) \/ RemUe(s) \/ (\E lim \in Limits[s] : ReconfSlice(s, lim))

Spec == Init /\ [][Next]_vars

-----------------------------------------------------------------------------
(***************************************************************************)
(* The state is of its type, and the counter a slice is limited by is the  *)
(* number of RBs really granted to it in that slot: no count of a past     *)
(* slot survives in the ring, whatever slots are skipped                   *)
(* (ran_slice_instance::slot_indication).                                  *)
(***************************************************************************)
CountersExact ==
  /\ TypeOK
  /\ \A s \in Slice, k \in Delays(now) : rbs[s][RingPos(now + k)] = granted[s][k]

(***************************************************************************)
(* RBs beyond a slice's minimum are offered only once every other active   *)
(* slice that is below its minimum has had its turn for that slot ("give   *)
(* it a higher priority", get_prio; candidate merging keeps it).           *)
(***************************************************************************)
MinimumBeforeShared ==
  offer # None /\ offer.max > cfg[offer.id].min =>
    \A t \in Slice : <<t, offer.k>> \notin due

(***************************************************************************)
(* A slice is never offered RBs that are dedicated to the slices that were *)
(* scheduled before it in the slot ("Consider the limit imposed by         *)
(* dedicated resources for already scheduled slices").                     *)
(***************************************************************************)
DedicatedToOthers(k, s) == MapThenSumSet(LAMBDA t : served[k][t], Slice \ {s})

DedicatedHonoured ==
  offer # None => offer.max + DedicatedToOthers(offer.k, offer.id) <= CellRbs

(***************************************************************************)
(* A slice is granted RBs in a slot only while it is below its maximum     *)
(* there, and newTxs never take it beyond: whatever PDCCH slots allocate   *)
(* into that slot, at most the last reTx exceeds the maximum               *)
(* (schedule_dl_retx_candidates: "slice.remaining_rbs() == 0").            *)
(***************************************************************************)
MaximumKept ==
  [][\A s \in Slice, k \in Ahead :
       now' = now /\ granted'[s][k] > granted[s][k] =>
         /\ granted[s][k] < cfg[s].max
         /\ newtx' > 0 => granted'[s][k] <= cfg[s].max]_vars

=============================================================================
