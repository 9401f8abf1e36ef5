----------------------------- MODULE HarqManager -----------------------------
(***************************************************************************)
(* The HARQ processes of one UE in one direction of one cell: the pool of  *)
(* cell_harq_repository (cell_harq_manager.cpp), the scheduler's grants    *)
(* that fill it, the UCI, CRC and error indications that empty it, its     *)
(* timeout wheel, and the removal of the UE, which waits for the pool to   *)
(* become empty (ue_repository.cpp).                                       *)
(*                                                                         *)
(* Time is relative to last_sl_ind, the last slot the repository was given *)
(* (indications are handled before the repository sees the new slot): a    *)
(* slot in the record of a process is a number of slots from there.        *)
(* In NTN cells the delays include the koffset of the cell; their HARQ     *)
(* mode B is left out.                                                     *)
(***************************************************************************)
EXTENDS Integers, Sequences, FiniteSets, Functions

CONSTANTS
  NofHarqs,     \* the UE has the HARQ ids 0 .. NofHarqs - 1
  Delays,       \* k1 (from the PDCCH) or k2 of a grant, plus Koffset
  Koffset,      \* ntn_cs_koffset, 0 outside NTN
  MaxRetxs,     \* max_nof_dl_harq_retxs, max_nof_ul_harq_retxs
  AckWait,      \* max_ack_wait_timeout, without the koffset
  ShortWait,    \* SHORT_ACK_TIMEOUT_DTX
  RetxTimeout,  \* harq_retx_timeout
  Wheel,        \* harq_timeout_wheel.size()
  History,      \* slots the resource grid keeps for error indications
  RemDelay,     \* get_max_slot_ul_alloc_delay + 1
  MaxBits,      \* bound: HARQ-ACK bits of one UCI slot
  MaxAge,       \* bound: age at which an undelivered indication is lost
  MaxSkips,     \* bound: skipped slots of a behaviour
  Snrs,         \* the SNRs reported, 0 for none
  None

ASSUME HarqAssumption ==
  /\ NofHarqs \in Nat \ {0}
  /\ Delays # {} /\ IsFiniteSet(Delays) /\ Delays \subseteq Nat \ {0}
  /\ {AckWait, ShortWait, RetxTimeout, Wheel, RemDelay} \subseteq Nat \ {0}
  /\ {Koffset, MaxRetxs, History, MaxBits, MaxAge, MaxSkips} \subseteq Nat
  /\ Snrs \subseteq Nat
  /\ \A k \in Delays : k + AckWait <= Wheel   \* how the wheel is dimensioned
  /\ \A k \in Delays : Koffset <= k /\ k < RemDelay
  /\ History < AckWait    \* RING_MAX_HISTORY_SIZE, DEFAULT_ACK_TIMEOUT_SLOTS
  /\ None \notin Nat

Harqs == 0 .. NofHarqs - 1

VARIABLES
  isDl,   \* the template parameter IsDl
  ue,     \* "active", "leaving" after schedule_ue_rem, "none"
  remIn,  \* slots until the UE may be removed
  proc,   \* the HARQ processes
  granted, \* the process that received this slot's grant
  free,   \* free_harq_ids, used as a stack
  uci,    \* HARQ-ACK bits allocated in the UCI slot k slots ahead
  air,    \* indications of the PHY on their way
  skips,  \* slots skipped so far
  early   \* observed: the timers by which the last slot discarded too early

vars == <<isDl, ue, remIn, proc, granted, free, uci, air, skips, early>>

MaxDelay == CHOOSE k \in Delays : \A l \in Delays : l <= k

(***************************************************************************)
(* A process.  due = slot_timeout, so that its bucket is due % Wheel;      *)
(* ackIn = slot_ack (slot_tx in the UL).  Observed only: got, the values   *)
(* decoded for the ongoing transmission; short, one of two reports came;   *)
(* since, the slots since that report or since the NACK; cancelled, the    *)
(* flag retxs_cancelled, which only a log reads.                           *)
(***************************************************************************)
Empty == [status |-> "empty", ackIn |-> 0, due |-> 0, retxs |-> 0, max |-> 0,
          bit |-> 0, toReceive |-> 0, chosen |-> "dtx", snr |-> 0,
          ackOnTimeout |-> FALSE, got |-> {}, short |-> FALSE, since |-> 0,
          cancelled |-> FALSE]

AckStatus == {"ack", "nack", "dtx"}

\* The timers of a process: for the report of its first transmission or of a
\* retransmission, for the second of two reports, for the scheduler's reTx.
Timers == {"first_tx", "retx", "second_report", "pending_retx"}

Process == [status : {"empty", "waiting_ack", "pending_retx"},
            ackIn : Int, due : Int, retxs : 0 .. MaxRetxs, max : 0 .. MaxRetxs,
            bit : 0 .. MaxBits, toReceive : 0 .. 2, chosen : AckStatus,
            snr : Nat, ackOnTimeout : BOOLEAN,
            got : SUBSET {"ack", "nack"}, short : BOOLEAN, since : Nat,
            cancelled : BOOLEAN]

(***************************************************************************)
(* An indication: the outcome of the UL slot that is age slots old, left   *)
(* the number of times it comes (once for each PUCCH).  id is the HARQ id  *)
(* a CRC names.  of, observed only, gives for every HARQ-ACK bit (for the  *)
(* PUSCH in the UL) the process whose ongoing transmission it answers,     *)
(* None when that transmission is over or never took place.                *)
(***************************************************************************)
Indication == [kind : {"report", "error"}, age : Nat, left : 1 .. 2,
               id : Harqs \cup {None}, of : Seq(Harqs \cup {None})]

TypeOK ==
  /\ isDl \in BOOLEAN
  /\ ue \in {"active", "leaving", "none"}
  /\ remIn \in 0 .. RemDelay
  /\ proc \in [Harqs -> Process]
  /\ granted \in Harqs \cup {None}
  /\ free \in Seq(Harqs)
  /\ uci \in [0 .. MaxDelay -> 0 .. MaxBits]
  /\ air \subseteq Indication
  /\ skips \in 0 .. MaxSkips
  /\ early \subseteq Timers

Busy(h) == proc[h].status # "empty"

Init ==
  /\ isDl \in BOOLEAN
  /\ ue = "none"
  /\ remIn = 0
  /\ proc = [h \in Harqs |-> Empty]
  /\ granted = None
  /\ free = <<>>
  /\ uci = [k \in 0 .. MaxDelay |-> 0]
  /\ air = {}
  /\ skips = 0
  /\ early = {}

-----------------------------------------------------------------------------
(* The repository's operations on a process.  An operation that ends in    *)
(* dealloc_harq returns Empty.                                             *)

\* Observed of a process that will be sent again: all it got were ACKs.
OnlyAck(q) == IF q.got = {"ack"} THEN q.got ELSE {}

\* Mutant: the process stays in the bucket of its ACK timeout.
set_pending_retx_KeepTimer(q) ==
  [Empty EXCEPT !.status = "pending_retx", !.due = q.due, !.retxs = q.retxs,
                !.max = q.max, !.got = OnlyAck(q), !.cancelled = q.cancelled]

\* What new_retx overwrites before it is read again is cleared here.
set_pending_retx(q) ==
  [Empty EXCEPT !.status = "pending_retx", !.due = RetxTimeout, !.retxs = q.retxs,
                !.max = q.max, !.got = OnlyAck(q), !.cancelled = q.cancelled]

handle_ack(q, ack) ==
  IF ack \/ q.retxs >= q.max THEN Empty ELSE set_pending_retx(q)

\* Mutant: a DTX is chosen like a decoded value.
IsChosen_Dtx(q, ack, snr) == q.snr = 0 \/ q.snr < snr

\* A decoded value replaces none, one without SNR, or one of lower SNR.
IsChosen(q, ack, snr) == ack # "dtx" /\ (q.snr = 0 \/ q.snr < snr)

(***************************************************************************)
(* dl_ack_info: remember the better value; the last expected report        *)
(* decides, an earlier one shortens the timeout.                           *)
(***************************************************************************)
dl_ack_info(q, ack, snr) ==
  LET better == IsChosen(q, ack, snr)
      r == [q EXCEPT !.chosen = IF better THEN ack ELSE @,
                     !.snr = IF better THEN snr ELSE @,
                     !.got = @ \cup ({ack} \ {"dtx"})]
  IN  CASE q.status # "waiting_ack" -> q
        [] q.status = "waiting_ack" /\ q.toReceive <= 1 -> handle_ack(r, r.chosen = "ack")
        [] OTHER -> [r EXCEPT !.toReceive = @ - 1, !.ackOnTimeout = r.chosen = "ack",
                              !.due = ShortWait, !.short = TRUE, !.since = 0]

ul_crc_info(q, ok) ==
  IF q.status = "waiting_ack"
  THEN handle_ack([q EXCEPT !.got = {IF ok THEN "ack" ELSE "nack"}], ok) ELSE q

\* Mutant: a waiting process is only marked.
cancel_retxs_Mark(q) ==
  CASE q.status = "pending_retx" -> Empty
    [] q.status = "waiting_ack" -> [q EXCEPT !.cancelled = TRUE]
    [] OTHER -> q

cancel_retxs(q) ==
  CASE q.status = "pending_retx" -> Empty
    [] q.status = "waiting_ack" -> [q EXCEPT !.max = q.retxs, !.cancelled = TRUE]
    [] OTHER -> q

\* Mutant: empty processes are pushed again.
Released_All(new) == {h \in Harqs : new[h].status = "empty"}

\* The processes that dealloc_harq, a no-op on an empty one, releases.
Released(new) == {h \in Harqs : Busy(h) /\ new[h].status = "empty"}

\* The ids of S, the smallest first.
InOrder(S) ==
  [i \in 1 .. Cardinality(S) |-> CHOOSE h \in S : Cardinality({g \in S : g < h}) = i - 1]

\* The processes become new; those released by one event are stacked in the
\* order of their ids.
Update(new) == /\ proc' = new
               /\ free' = free \o InOrder(Released(new))

-----------------------------------------------------------------------------
(* The UE comes and goes.                                                  *)

\* add_ue, reserve_ue_harqs: the ids are stacked in reverse order.
AddUe ==
  /\ ue = "none"
  /\ ue' = "active"
  /\ free' = [i \in 1 .. NofHarqs |-> NofHarqs - i]
  /\ UNCHANGED <<isDl, remIn, proc, granted, uci, air, skips, early>>

\* schedule_ue_rem: no grants and no retransmissions any more.
ScheduleUeRem ==
  /\ ue = "active" /\ granted = None
  /\ ue' = "leaving"
  /\ remIn' = RemDelay
  /\ Update([h \in Harqs |-> cancel_retxs(proc[h])])
  /\ UNCHANGED <<isDl, granted, uci, air, skips, early>>

\* The C-RNTI is unknown from now on: what is on its way is discarded.
Gone == /\ ue' = "none"
        /\ remIn' = 0
        /\ proc' = [h \in Harqs |-> Empty]
        /\ free' = <<>>
        /\ uci' = [k \in DOMAIN uci |-> 0]
        /\ air' = {}

\* handle_cell_deactivation: UEs are removed at once, processes busy or not.
StopCell ==
  /\ ue # "none" /\ granted = None
  /\ Gone
  /\ UNCHANGED <<isDl, granted, skips, early>>

\* Reconfiguration, fallback and CQI 0 cancel the retransmissions of all
\* processes, link adaptation those of one DL process, and a grant for which
\* no MCS fits those of its own.
CancelRetxs(S) ==
  /\ ue # "none"
  /\ \/ granted = None /\ (S = Harqs \/ isDl)
     \/ S = {granted} /\ isDl
  /\ \E h \in S : Busy(h) /\ ~proc[h].cancelled
  /\ Update([h \in Harqs |-> IF h \in S THEN cancel_retxs(proc[h]) ELSE proc[h]])
  /\ UNCHANGED <<isDl, ue, remIn, granted, uci, air, skips, early>>

-----------------------------------------------------------------------------
(* Grants.  A UE receives one grant per slot and direction.                *)

\* The previous transmission of h is over: what is on its way for it answers
\* no process any more.
Orphan(h) ==
  {[r EXCEPT !.of = [i \in DOMAIN r.of |-> IF r.of[i] = h THEN None ELSE r.of[i]]]
     : r \in air}

\* A DL grant takes the next HARQ-ACK bit of the UCI slot; there is one PUSCH
\* of the UE in an UL slot.
SlotFree(k) ==
  IF isDl THEN uci[k] < MaxBits
  ELSE \A h \in Harqs : ~(proc[h].status = "waiting_ack" /\ proc[h].ackIn = k)

HarqBit(k) == IF isDl THEN uci[k] ELSE 0

\* Slots from the report to the timeout: alloc_harq takes the koffset off
\* max_ack_wait_in_slots, handle_new_retx does not.
Wait(retxs) == IF retxs = 0 THEN AckWait ELSE AckWait + Koffset

Grant(h, k, retxs, max) ==
  /\ granted = None
  /\ SlotFree(k)
  /\ proc' = [proc EXCEPT ![h] =
       [Empty EXCEPT !.status = "waiting_ack", !.ackIn = k, !.due = k + Wait(retxs),
                     !.retxs = retxs, !.max = max, !.bit = HarqBit(k),
                     !.cancelled = proc[h].cancelled]]
  /\ uci' = IF isDl THEN [uci EXCEPT ![k] = @ + 1] ELSE uci
  /\ granted' = h
  /\ air' = Orphan(h)
  /\ UNCHANGED <<isDl, ue, remIn, skips, early>>

\* new_dl_tx, new_ul_tx, alloc_harq
NewTx(k) ==
  /\ ue = "active"
  /\ free # <<>>
  /\ Grant(free[Len(free)], k, 0, MaxRetxs)
  /\ free' = SubSeq(free, 1, Len(free) - 1)

\* new_retx, handle_new_retx: the grant loop offers the pending processes.
NewRetx(h, k) ==
  /\ proc[h].status = "pending_retx"
  /\ Grant(h, k, proc[h].retxs + 1, proc[h].max)
  /\ UNCHANGED free

(***************************************************************************)
(* The post-processing of the slot found no RBs for the grant (a weight of *)
(* zero does that): the process is reset and the UCI allocation stays.  In *)
(* the UL an assertion that a build may leave out comes first.             *)
(***************************************************************************)
ResetGrant ==
  /\ granted # None /\ Busy(granted)
  /\ Update([proc EXCEPT ![granted] = Empty])
  /\ UNCHANGED <<isDl, ue, remIn, granted, uci, air, skips, early>>

-----------------------------------------------------------------------------
(* Indications.                                                            *)

\* Mutant: the slot is not compared.
Answers_AnySlot(q, age, bit) == q.status = "waiting_ack" /\ q.bit = bit

\* find_dl_harq_waiting_ack(uci_slot, harq_bit_idx); with the bit always 0,
\* find_ul_harq_waiting_ack(pusch_slot).
Answers(q, age, bit) ==
  q.status = "waiting_ack" /\ q.ackIn = -age /\ q.bit = bit

Found(age, bit) == {h \in Harqs : Answers(proc[h], age, bit)}

Delivered(r) == /\ r \in air
                /\ granted = None     \* before the grants of the slot
                /\ air' = (air \ {r}) \cup
                     (IF r.left = 2 THEN {[r EXCEPT !.left = 1]} ELSE {})
                /\ UNCHANGED <<isDl, ue, remIn, granted, uci, skips, early>>

\* handle_harq_ind: the HARQ-ACK bits of one PUCCH or PUSCH; for each, the
\* first process that answers to it.  The value of a bit without a process
\* is not read.
HarqInd(r, acks, snr) ==
  /\ isDl /\ r.kind = "report"
  /\ \A i \in DOMAIN r.of : Found(r.age, i - 1) = {} => acks[i] = "dtx"
  /\ Delivered(r)
  /\ Update([h \in Harqs |->
       LET bits == {i \in DOMAIN r.of : /\ h \in Found(r.age, i - 1)
                                        /\ \A g \in Found(r.age, i - 1) : h <= g}
       IN  IF bits = {} THEN proc[h]
           ELSE dl_ack_info(proc[h], acks[CHOOSE i \in bits : TRUE], snr)])

\* handle_crc_pdu: the slot and the id must both fit.
CrcInd(r, ok) ==
  /\ ~isDl /\ r.kind = "report"
  /\ Delivered(r)
  /\ Update(IF r.id \in Found(r.age, 0)
            THEN [proc EXCEPT ![r.id] = ul_crc_info(@, ok)] ELSE proc)

\* uci_sched_failed: a DTX for every report that is still expected.
uci_sched_failed(q, age) ==
  CASE ~(q.status = "waiting_ack" /\ q.ackIn = -age) -> q
    [] q.status = "waiting_ack" /\ q.ackIn = -age /\ q.toReceive <= 1 -> dl_ack_info(q, "dtx", 0)
    [] OTHER -> dl_ack_info(dl_ack_info(q, "dtx", 0), "dtx", 0)

\* handle_discarded_pusch: a first transmission is dropped, another NACKed.
discarded_pusch(q) == IF q.retxs = 0 THEN Empty ELSE ul_crc_info(q, FALSE)

(***************************************************************************)
(* handle_error_indication: the PUSCHs and PUCCHs of a slot never reached  *)
(* the PHY.  An UL process is looked up by its id alone.                   *)
(***************************************************************************)
ErrorInd(r) ==
  /\ r.kind = "error"
  /\ Delivered(r)
  /\ Update(CASE r.age > History -> proc
              [] r.age <= History /\ isDl -> [h \in Harqs |-> uci_sched_failed(proc[h], r.age)]
              [] OTHER -> [proc EXCEPT ![r.id] = discarded_pusch(@)])

-----------------------------------------------------------------------------
(* The slot.                                                               *)

\* What the PHY will say of the slot that ends, whose UCI is in n PUCCHs and
\* which reaches the PHY or is discarded.
Sent(n, kind) ==
  LET of(b) == IF Found(0, b) = {} THEN None ELSE CHOOSE h \in Found(0, b) : TRUE
  IN  CASE isDl /\ uci[0] > 0 ->
             {[kind |-> kind, age |-> 0, left |-> IF kind = "error" THEN 1 ELSE n,
               id |-> None, of |-> [i \in 1 .. uci[0] |-> of(i - 1)]]}
        [] ~isDl /\ of(0) # None ->
             {[kind |-> kind, age |-> 0, left |-> 1, id |-> of(0), of |-> <<of(0)>>]}
        [] OTHER -> {}

\* update_harq_pucch_counter: the PUCCHs of the slot that ends.  UCI in a
\* PUSCH leaves the counter at zero, which dl_ack_info takes like one.
Counted(q, n) ==
  IF isDl /\ q.status = "waiting_ack" /\ q.ackIn = 0
  THEN [q EXCEPT !.toReceive = n] ELSE q

Elapsed(q, d) ==
  CASE q.status = "waiting_ack" -> [q EXCEPT !.ackIn = @ - d, !.due = @ - d,
                                    !.since = IF q.short THEN @ + d ELSE @]
    [] q.status = "pending_retx" -> [q EXCEPT !.due = @ - d, !.since = @ + d]
    [] OTHER -> q

\* The bucket of the slot holds the process.
Expired(q) == q.status # "empty" /\ q.due % Wheel = 0

\* Observed: the timer of a process, and the time the process must have waited
\* when it is discarded.
Timer(q) ==
  CASE q.status = "pending_retx" -> "pending_retx"
    [] q.status = "waiting_ack" /\ q.short -> "second_report"
    [] OTHER -> IF q.retxs = 0 THEN "first_tx" ELSE "retx"

WaitedLongEnough(q) ==
  CASE q.status = "pending_retx" -> q.since >= RetxTimeout
    [] q.status = "waiting_ack" /\ q.short -> q.since >= ShortWait
    [] OTHER -> -q.ackIn >= AckWait

\* Mutant: a UE that is still busy when its time comes is forgotten.
RemovalReady_Once(d) == ue = "leaving" /\ remIn \in 1 .. d /\ \A h \in Harqs : ~Busy(h)

\* is_ue_ready_for_removal, once rem_slot is reached.
RemovalReady(d) == ue = "leaving" /\ remIn <= d /\ \A h \in Harqs : ~Busy(h)

(***************************************************************************)
(* The end of a slot and the start of the next one that is scheduled, d    *)
(* slots later: the slots in between were skipped, and whatever the grid   *)
(* held for them is gone.  A UE that leaves is removed when its processes  *)
(* are empty, before the timeouts of the new slot are handled.             *)
(***************************************************************************)
SlotIndication(d, n, kind) ==
  /\ skips + d - 1 <= MaxSkips
  /\ skips' = skips + d - 1
  /\ granted' = None
  /\ UNCHANGED isDl
  /\ \/ RemovalReady(d) /\ Gone /\ UNCHANGED early
     \/ /\ ~RemovalReady(d)
        /\ UNCHANGED ue
        /\ remIn' = IF remIn <= d THEN 0 ELSE remIn - d
        /\ uci' = [k \in DOMAIN uci |-> IF k + d \in DOMAIN uci THEN uci[k + d] ELSE 0]
        /\ air' = {[r EXCEPT !.age = @ + d] : r \in
                     {s \in air \cup Sent(n, kind) : s.age + d <= MaxAge}}
        /\ LET later == [h \in Harqs |-> Elapsed(Counted(proc[h], n), d)]
               timedOut == {h \in Harqs : Expired(later[h])}
           IN  /\ Update([h \in Harqs |-> IF h \in timedOut THEN Empty ELSE later[h]])
               /\ early' = {Timer(later[h]) : h \in {g \in timedOut : ~WaitedLongEnough(later[g])}}

Slot == \E d \in 1 .. 1 + MaxSkips :
          \/ SlotIndication(d, 1, "report")
          \/ isDl /\ uci[0] > 0 /\ SlotIndication(d, 2, "report")
          \/ \E n \in 1 .. 2 : /\ IF isDl THEN uci[0] > 0 ELSE n = 1 /\ Found(0, 0) # {}
                               /\ SlotIndication(d, n, "error")

Next ==
  \/ AddUe
  \/ ScheduleUeRem
  \/ StopCell
  \/ CancelRetxs(Harqs)
  \/ \E h \in Harqs : CancelRetxs({h})
  \/ \E k \in Delays : NewTx(k)
  \/ \E h \in Harqs, k \in Delays : NewRetx(h, k)
  \/ ResetGrant
  \/ \E r \in air, snr \in Snrs : \E acks \in [DOMAIN r.of -> AckStatus] : HarqInd(r, acks, snr)
  \/ \E r \in air, ok \in BOOLEAN : CrcInd(r, ok)
  \/ \E r \in air : ErrorInd(r)
  \/ Slot

\* The slot clock of the PHY drives the scheduler for ever.
Spec == Init /\ [][Next]_vars /\ WF_vars(Slot)

-----------------------------------------------------------------------------
(* Properties.                                                             *)

(***************************************************************************)
(* The state is of its type, and the ids on the free stack are those of    *)
(* the empty processes, each once: no process leaks and none is granted    *)
(* twice, whatever the order of reports, timeouts, errors and              *)
(* cancellations.                                                          *)
(***************************************************************************)
FreeStackExact ==
  /\ TypeOK
  /\ Cardinality(Range(free)) = Len(free)
  /\ ue # "none" => Range(free) = {h \in Harqs : ~Busy(h)}

(***************************************************************************)
(* A late report, a report of a grant that was reset and an error          *)
(* indication reach only the process whose ongoing transmission they are   *)
(* about, although a DL report names just a slot and a bit and an error    *)
(* just a HARQ id: a process that was reused meanwhile is never taken for  *)
(* its predecessor.                                                        *)
(***************************************************************************)
ReportFindsItsTransmission ==
  \A r \in air :
    /\ isDl => \A i \in DOMAIN r.of : Found(r.age, i - 1) \subseteq {r.of[i]}
    /\ ~isDl /\ r.kind = "report" => Found(r.age, 0) \subseteq {r.of[1]}
    /\ ~isDl /\ r.kind = "error" /\ r.age <= History /\ Busy(r.id) => r.of[1] = r.id

(***************************************************************************)
(* A slot indication discards a process only when it waited as long as the *)
(* configuration says: AckWait slots after the slot of the report,         *)
(* ShortWait slots after the first of two reports, RetxTimeout slots after *)
(* the NACK ("Maximum time, in milliseconds, between a HARQ NACK and the   *)
(* scheduler allocating the respective HARQ for retransmission",           *)
(* --harq_retx_timeout).                                                   *)
(***************************************************************************)
NotDiscardedEarly == early = {}

(***************************************************************************)
(* The wheel compares slots modulo its size, so it can be early only with  *)
(* a timer that may be set to more than a turn of it.  How the wheel is    *)
(* dimensioned rules that out for first transmissions, and for the         *)
(* retransmissions of a cell without koffset.                              *)
(***************************************************************************)
SetTo(t) ==
  CASE t = "first_tx" -> MaxDelay + Wait(0)
    [] t = "retx" -> MaxDelay + Wait(1)
    [] t = "second_report" -> ShortWait
    [] OTHER -> RetxTimeout

EarlyOnlyBeyondWheel == \A t \in early : SetTo(t) > Wheel

(***************************************************************************)
(* A transmission is retransmitted only if some report for it was a NACK   *)
(* or none was decoded: a DTX, a lost second report and a discarded slot   *)
(* never undo the only value that was decoded.                             *)
(***************************************************************************)
AckedIsNotRetransmitted ==
  [][\A h \in Harqs :
       proc[h].status = "waiting_ack" /\ proc'[h].status = "pending_retx"
         => proc'[h].got # {"ack"}]_vars

(***************************************************************************)
(* Once cancel_retxs was called (reconfiguration, fallback, CQI 0, UE      *)
(* removal) the transport block of that time is not sent again, and no     *)
(* block is sent more than 1 + MaxRetxs times.                             *)
(***************************************************************************)
NoRetxOnceCancelled ==
  [][\A h \in Harqs :
       proc[h].status = "pending_retx" /\ proc'[h].status = "waiting_ack"
         => ~proc[h].cancelled /\ proc[h].retxs < MaxRetxs]_vars

(***************************************************************************)
(* A UE scheduled for removal is removed: lost reports, retransmissions    *)
(* and skipped slots delay it, but every process becomes empty.            *)
(***************************************************************************)
LeavingUeIsRemoved == ue = "leaving" ~> ue = "none"

=============================================================================
