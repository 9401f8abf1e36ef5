--------------------------- MODULE EdgericControl ---------------------------
(***************************************************************************)
(* The EdgeRIC real-time control loop.                                     *)
(*                                                                         *)
(* Every slot the gNB scheduler (cell_scheduler::run_slot) advances the    *)
(* TTI counter, takes at most one scheduling-weights message and one       *)
(* MCS message from its two subscriber sockets, schedules the UEs with     *)
(* whatever control is still fresh, and publishes the telemetry of the     *)
(* slot.  A muApp takes the newest telemetry, computes a decision for the  *)
(* UEs it lists and sends it back tagged with the TTI of that telemetry.   *)
(*                                                                         *)
(* The VALUE of a weight or MCS override is abstracted to its BASIS, the   *)
(* telemetry it was computed from: <<boot, slot>>, the incarnation of the  *)
(* gNB and the slot number within it.  The code only sees the tag `tti';   *)
(* boot and slot are history, what the properties compare the tag with.    *)
(***************************************************************************)
EXTENDS Integers, Sequences

CONSTANTS
  Apps,               \* the control channels in use, a subset of {"weights", "mcs"}
  Rnti,               \* the C-RNTIs the gNB hands out
  STALENESS_THRESHOLD, \* edgeric::STALENESS_THRESHOLD, 2 in the code
  TtiMod,             \* 2^32 in the code: the width of tti_cnt and tti_index
  TtiOffsets,         \* the --tti-offset values a muApp may be started with
  ControlConflated,   \* whether ZMQ_CONFLATE is effective on the gNB's subscribers
  SubHwm,             \* receive high-water mark of a non-conflated subscriber
  MaxSlot,            \* bound: slots per gNB incarnation
  MaxBoot,            \* bound: gNB incarnations
  MaxChurn,           \* bound: UE attachments and releases
  MaxStops            \* bound: muApp terminations

ASSUME AppsAssumption == Apps \subseteq {"weights", "mcs"}
ASSUME ThresholdAssumption == STALENESS_THRESHOLD \in Nat
ASSUME WidthAssumption == TtiMod \in Nat \ {0}
ASSUME OffsetAssumption == TtiOffsets \subseteq Int
ASSUME QueueAssumption == ControlConflated \in BOOLEAN /\ SubHwm \in Nat \ {0}
ASSUME BoundsAssumption ==
  MaxSlot \in Nat /\ MaxBoot \in Nat \ {0} /\ MaxChurn \in Nat /\ MaxStops \in Nat

VARIABLES
  boot,       \* history: which incarnation of the gNB is running
  slot,       \* history: slots run by this incarnation
  tti_cnt,    \* edgeric::tti_cnt (set from cell_scheduler's tti_counter)
  pc,         \* where run_slot is
  ues,        \* the UEs with telemetry, the keys of edgeric::mac_ue
  er_tti,     \* er_weights_tti and er_mcs_tti
  recved,     \* weights_recved and mcs_recved: the basis of each UE's control
  applied,    \* what get_weights / get_mcs returned to this slot's scheduling
  published,  \* history: the UEs listed in the telemetry of each slot
  queue,      \* per app, the gNB's subscriber socket
  box,        \* per app, its conflated telemetry subscriber: at most one message
  app_up,     \* per app, whether the process runs
  app_pc,     \* per app, "poll" (get_metrics) or "send" (a decision computed)
  seen,       \* per app, current_tti and last_metrics
  tti_offset, \* per app, its --tti-offset
  churn,      \* number of attachments and releases so far
  stops       \* number of muApp terminations so far

gnbVars == <<tti_cnt, pc, ues, er_tti, recved, applied>>
histVars == <<boot, slot, published>>
appVars == <<box, app_up, app_pc, seen, tti_offset>>
boundVars == <<churn, stops>>
vars == <<boot, slot, tti_cnt, pc, ues, er_tti, recved, applied, published,
          queue, box, app_up, app_pc, seen, tti_offset, churn, stops>>

-----------------------------------------------------------------------------
Slots == 0..MaxSlot
Boots == 1..MaxBoot
Ttis == 0..(TtiMod - 1)

\* No decision: get_weights / get_mcs return std::nullopt.
None == [boot |-> 0, slot |-> 0]
Basis == [boot : Boots, slot : Slots]

\* TtiMetrics: its tti_index, and the UEs it lists.
Metrics == [boot : Boots, slot : Slots, tti : Ttis, rows : SUBSET Rnti]
NoMetrics == [boot |-> 0, slot |-> 0, tti |-> 0, rows |-> {}]

\* SchedulingWeights / McsControl. A row whose MCS is 255 means "no override":
\* such a message carries override = FALSE.
Control == [boot : Boots, slot : Slots, tti : Ttis, rows : SUBSET Rnti,
            override : BOOLEAN]

TypeOK ==
  /\ boot \in Boots
  /\ slot \in Slots
  /\ tti_cnt \in Ttis
  /\ pc \in {"idle", "recv_mcs", "sched", "send"}
  /\ ues \in SUBSET Rnti
  /\ er_tti \in [Apps -> Ttis]
  /\ recved \in [Apps -> [Rnti -> Basis \cup {None}]]
  /\ applied \in [Apps -> [Rnti -> Basis \cup {None}]]
  /\ published \in [Slots -> SUBSET Rnti]
  /\ queue \in [Apps -> Seq(Control)]
  /\ box \in [Apps -> Metrics \cup {NoMetrics}]
  /\ app_up \in [Apps -> BOOLEAN]
  /\ app_pc \in [Apps -> {"poll", "send"}]
  /\ seen \in [Apps -> Metrics \cup {NoMetrics}]
  /\ tti_offset \in [Apps -> TtiOffsets]
  /\ churn \in 0..MaxChurn
  /\ stops \in 0..MaxStops

-----------------------------------------------------------------------------
(* The gNB *)

NoControl == [a \in Apps |-> [r \in Rnti |-> None]]

Init ==
  /\ boot = 1
  /\ slot = 0
  /\ tti_cnt = 0
  /\ pc = "idle"
  /\ ues = {}
  /\ er_tti = [a \in Apps |-> 0]
  /\ recved = NoControl
  /\ applied = NoControl
  /\ published = [s \in Slots |-> {}]
  /\ queue = [a \in Apps |-> <<>>]
  /\ box = [a \in Apps |-> NoMetrics]
  /\ app_up = [a \in Apps |-> TRUE]
  /\ app_pc = [a \in Apps |-> "poll"]
  /\ seen = [a \in Apps |-> NoMetrics]
  /\ tti_offset \in [Apps -> TtiOffsets]
  /\ churn = 0
  /\ stops = 0

\* The basis of UE r's control after a message m: the map is cleared, then one
\* entry is inserted per row (an MCS row only if it is an override).
RowsOf(m) ==
  [r \in Rnti |-> IF r \in m.rows /\ m.override
                  THEN [boot |-> m.boot, slot |-> m.slot] ELSE None]

\* Fault: the map is not cleared, and rows are inserted where there is none.
RecvControl_Insert(a) ==
  IF a \in Apps /\ queue[a] # <<>>
  THEN /\ er_tti' = [er_tti EXCEPT ![a] = Head(queue[a]).tti]
       /\ recved' = [recved EXCEPT ![a] = [r \in Rnti |->
            IF @[r] # None THEN @[r] ELSE RowsOf(Head(queue[a]))[r]]]
       /\ queue' = [queue EXCEPT ![a] = Tail(queue[a])]
  ELSE UNCHANGED <<er_tti, recved, queue>>

\* get_weights_from_er / get_mcs_from_er: a non-blocking receive.
RecvControl(a) ==
  IF a \in Apps /\ queue[a] # <<>>
  THEN /\ er_tti' = [er_tti EXCEPT ![a] = Head(queue[a]).tti]
       /\ recved' = [recved EXCEPT ![a] = RowsOf(Head(queue[a]))]
       /\ queue' = [queue EXCEPT ![a] = Tail(queue[a])]
  ELSE UNCHANGED <<er_tti, recved, queue>>

\* run_slot: advance the TTI, then get_weights_from_er.
StartSlot ==
  /\ pc = "idle"
  /\ slot < MaxSlot
  /\ slot' = slot + 1
  /\ tti_cnt' = (tti_cnt + 1) % TtiMod
  /\ RecvControl("weights")
  /\ pc' = "recv_mcs"
  /\ UNCHANGED <<boot, ues, applied, published, appVars, boundVars>>

\* run_slot: get_mcs_from_er.
RecvMcs ==
  /\ pc = "recv_mcs"
  /\ RecvControl("mcs")
  /\ pc' = "sched"
  /\ UNCHANGED <<histVars, tti_cnt, ues, applied, appVars, boundVars>>

\* Fault: the rolled-over index (getTtiIndex) is compared, not the raw TTI.
Age_RolledOver(a) ==
  IF tti_cnt % 4 >= er_tti[a] % 4 THEN (tti_cnt % 4) - (er_tti[a] % 4)
                                  ELSE STALENESS_THRESHOLD + 1

\* are_weights_fresh / are_mcs_fresh.
Age(a) == IF tti_cnt >= er_tti[a] THEN tti_cnt - er_tti[a]
                                  ELSE STALENESS_THRESHOLD + 1

\* Fault: off by one.
Fresh_OffByOne(a) == Age(a) <= STALENESS_THRESHOLD + 1
Fresh(a) == Age(a) <= STALENESS_THRESHOLD

\* Fault: the staleness test is skipped (get_weights_unchecked).
GetControl_Unchecked(a, r) == recved[a][r]

\* get_weights / get_mcs for UE r, None standing for std::nullopt.
GetControl(a, r) == IF Fresh(a) THEN recved[a][r] ELSE None

\* run_slot: the UE scheduler asks for the control of the UEs it schedules.
Schedule ==
  /\ pc = "sched"
  /\ applied' = [a \in Apps |-> [r \in Rnti |->
                   IF r \in ues THEN GetControl(a, r) ELSE None]]
  /\ pc' = "send"
  /\ UNCHANGED <<histVars, tti_cnt, ues, er_tti, recved, queue, appVars, boundVars>>

\* run_slot: send_tti_metrics publishes the slot's telemetry; it reaches any
\* subset of the running muApps, replacing what they have not read yet.
SendTtiMetrics ==
  /\ pc = "send"
  /\ published' = [published EXCEPT ![slot] = ues]
  /\ \E D \in SUBSET {a \in Apps : app_up[a]} :
       box' = [a \in Apps |->
                 IF a \in D
                 THEN [boot |-> boot, slot |-> slot, tti |-> tti_cnt, rows |-> ues]
                 ELSE box[a]]
  /\ applied' = NoControl
  /\ pc' = "idle"
  /\ UNCHANGED <<boot, slot, tti_cnt, ues, er_tti, recved, queue,
                 app_up, app_pc, seen, tti_offset, boundVars>>

\* A UE is attached: its first telemetry creates its mac_ue row.
AddUe(r) ==
  /\ pc = "idle"
  /\ churn < MaxChurn
  /\ r \notin ues
  /\ ues' = ues \cup {r}
  /\ churn' = churn + 1
  /\ UNCHANGED <<histVars, tti_cnt, pc, er_tti, recved, applied, queue, appVars, stops>>

\* unregister_ue_by_rnti: the telemetry row goes, the received control stays.
RemoveUe(r) ==
  /\ pc = "idle"
  /\ churn < MaxChurn
  /\ r \in ues
  /\ ues' = ues \ {r}
  /\ churn' = churn + 1
  /\ UNCHANGED <<histVars, tti_cnt, pc, er_tti, recved, applied, queue, appVars, stops>>

\* The gNB process is restarted: all its static state and its sockets are new.
\* A muApp keeps what it has read, and what its own subscriber holds.
RestartGnb ==
  /\ boot < MaxBoot
  /\ boot' = boot + 1
  /\ slot' = 0
  /\ tti_cnt' = 0
  /\ pc' = "idle"
  /\ ues' = {}
  /\ er_tti' = [a \in Apps |-> 0]
  /\ recved' = NoControl
  /\ applied' = NoControl
  /\ published' = [s \in Slots |-> {}]
  /\ queue' = [a \in Apps |-> <<>>]
  /\ UNCHANGED <<appVars, boundVars>>

-----------------------------------------------------------------------------
(* The muApps *)

\* Fault: the UEs are taken from this telemetry, the TTI from the one before.
GetMetrics_OldTti(a) ==
  /\ app_up[a]
  /\ app_pc[a] = "poll"
  /\ box[a] # NoMetrics
  /\ seen' = [seen EXCEPT ![a] =
                IF @ = NoMetrics THEN box[a] ELSE [@ EXCEPT !.rows = box[a].rows]]
  /\ box' = [box EXCEPT ![a] = NoMetrics]
  /\ app_pc' = [app_pc EXCEPT ![a] = IF box[a].rows # {} THEN "send" ELSE "poll"]
  /\ UNCHANGED <<histVars, gnbVars, queue, app_up, tti_offset, boundVars>>

\* get_metrics: telemetry is available. Without UEs no decision is made.
GetMetrics(a) ==
  /\ app_up[a]
  /\ app_pc[a] = "poll"
  /\ box[a] # NoMetrics
  /\ seen' = [seen EXCEPT ![a] = box[a]]
  /\ box' = [box EXCEPT ![a] = NoMetrics]
  /\ app_pc' = [app_pc EXCEPT ![a] = IF box[a].rows # {} THEN "send" ELSE "poll"]
  /\ UNCHANGED <<histVars, gnbVars, queue, app_up, tti_offset, boundVars>>

\* Fault: a decision is sent although nothing was ever received.
GetMetricsTimeout_NoCheck(a) ==
  /\ app_up[a]
  /\ app_pc[a] = "poll"
  /\ box[a] = NoMetrics
  /\ app_pc' = [app_pc EXCEPT ![a] = "send"]
  /\ UNCHANGED <<histVars, gnbVars, queue, box, app_up, seen, tti_offset, boundVars>>

\* get_metrics: the poll timed out (weights) or found nothing (MCS). The last
\* metrics are used again, under the TTI they came with.
GetMetricsTimeout(a) ==
  /\ app_up[a]
  /\ app_pc[a] = "poll"
  /\ box[a] = NoMetrics
  /\ seen[a].rows # {}
  /\ app_pc' = [app_pc EXCEPT ![a] = "send"]
  /\ UNCHANGED <<histVars, gnbVars, queue, box, app_up, seen, tti_offset, boundVars>>

\* Fault: the offset is not added to the tag.
DecisionTti_NoOffset(a) == seen[a].tti

\* The tti_index of a decision, and whether it is a uint32 at all.
DecisionTti(a) == seen[a].tti + tti_offset[a]
ValidTti(a) == DecisionTti(a) \in Ttis

\* What a subscriber socket holds after one more message (ZeroMQ).
Deliver(q, m) ==
  CASE ControlConflated -> <<m>>
    [] ~ControlConflated /\ Len(q) < SubHwm -> Append(q, m)
    [] OTHER -> q

\* send_weights / send_mcs.
SendControl(a) ==
  /\ app_up[a]
  /\ app_pc[a] = "send"
  /\ ValidTti(a)
  /\ \E o \in (IF a = "mcs" THEN BOOLEAN ELSE {TRUE}) :
       queue' = [queue EXCEPT ![a] = Deliver(@,
                   [boot |-> seen[a].boot, slot |-> seen[a].slot,
                    tti |-> DecisionTti(a), rows |-> seen[a].rows, override |-> o])]
  /\ app_pc' = [app_pc EXCEPT ![a] = "poll"]
  /\ UNCHANGED <<histVars, gnbVars, box, app_up, seen, tti_offset, boundVars>>

\* A tag that is no uint32 makes protobuf raise: scheduling_muapp.py catches
\* the exception and polls again, mcs_muapp.py terminates.
SendControlError(a) ==
  /\ app_up[a]
  /\ app_pc[a] = "send"
  /\ ~ValidTti(a)
  /\ IF a = "mcs"
     THEN /\ app_up' = [app_up EXCEPT ![a] = FALSE]
          /\ seen' = [seen EXCEPT ![a] = NoMetrics]
          /\ box' = [box EXCEPT ![a] = NoMetrics]
     ELSE UNCHANGED <<app_up, seen, box>>
  /\ app_pc' = [app_pc EXCEPT ![a] = "poll"]
  /\ UNCHANGED <<histVars, gnbVars, queue, tti_offset, boundVars>>

\* A muApp terminates, wherever it is in its loop. StopWindow keeps the slots
\* that expiry needs within the bound on slots.
StopWindow ==
  slot + STALENESS_THRESHOLD + 1 <= MaxSlot /\ slot + SubHwm <= MaxSlot
StopApp(a) ==
  /\ app_up[a]
  /\ stops < MaxStops
  /\ StopWindow
  /\ stops' = stops + 1
  /\ app_up' = [app_up EXCEPT ![a] = FALSE]
  /\ app_pc' = [app_pc EXCEPT ![a] = "poll"]
  /\ seen' = [seen EXCEPT ![a] = NoMetrics]
  /\ box' = [box EXCEPT ![a] = NoMetrics]
  /\ UNCHANGED <<histVars, gnbVars, queue, tti_offset, churn>>

\* A muApp is started again, with no memory.
StartApp(a) ==
  /\ ~app_up[a]
  /\ app_up' = [app_up EXCEPT ![a] = TRUE]
  /\ UNCHANGED <<histVars, gnbVars, queue, box, app_pc, seen, tti_offset, boundVars>>

-----------------------------------------------------------------------------
RunSlot == StartSlot \/ RecvMcs \/ Schedule \/ SendTtiMetrics
MuApp(a) == \/ GetMetrics(a) \/ GetMetricsTimeout(a)
            \/ SendControl(a) \/ SendControlError(a)
Next ==
  \/ RunSlot
  \/ \E r \in Rnti : AddUe(r) \/ RemoveUe(r)
  \/ RestartGnb
  \/ \E a \in Apps : MuApp(a) \/ StopApp(a) \/ StartApp(a)

\* The slot indication of the PHY keeps calling run_slot: the gNB is fair.
\* Nothing is assumed of the muApps, of UEs or of restarts.
Fairness == WF_vars(RunSlot)

Spec == Init /\ [][Next]_vars
FairSpec == Spec /\ Fairness

-----------------------------------------------------------------------------
(* Properties *)

Controlled(a, r) == applied[a][r] # None

\* Control computed from telemetry of the running gNB. Of control computed in an
\* earlier incarnation the tag says nothing.
InBoot(c) == c # None /\ c.boot = boot

\* Control applied in a slot that was computed from telemetry of the running
\* gNB is of a slot before this one and, shifted by the sender's --tti-offset, at
\* most STALENESS_THRESHOLD slots old, however long it was queued, resent or
\* delayed; and that telemetry listed the UE. So a muApp whose offset is beyond
\* the threshold controls nothing (muapp-mcs/README.md, "Test staleness (MCS
\* should be rejected)"). The threshold is 2, as STALENESS_THRESHOLD and both
\* muApps' READMEs say. Of weights edgeric.h, at er_weights_tti, says "Weight is
\* only valid if: current_TTI - received_TTI <= 1", and edgeric_messenger.py "RAN
\* discards if current_TTI - received_TTI > 1": the code does not keep that, and
\* with 1 in place of the threshold this formula is violated.
FreshControl ==
  \A a \in Apps, r \in Rnti :
    InBoot(applied[a][r]) =>
      LET age == slot - applied[a][r].slot
      IN /\ age >= 1
         /\ age - tti_offset[a] \in 0..STALENESS_THRESHOLD
         /\ r \in published[applied[a][r].slot]

\* The weights (or MCS overrides) applied in one slot are all from ONE message:
\* get_weights_from_er replaces the map, it does not merge into it.
OneDecisionPerSlot ==
  \A a \in Apps, r1, r2 \in Rnti :
    Controlled(a, r1) /\ Controlled(a, r2) => applied[a][r1] = applied[a][r2]

\* edgeric.h: "If muApp stops sending, control messages expire and scheduler
\* uses defaults". A UE without effective control only gets some, computed by the
\* running gNB's telemetry, by a message.
ExpiredStaysExpired ==
  [][\A a \in Apps, r \in Rnti :
       GetControl(a, r) = None /\ InBoot(GetControl(a, r))'
         => queue'[a] # queue[a]]_vars

\* A stopped muApp's control does expire.
ControlExpires ==
  \A a \in Apps : ~app_up[a] ~> (app_up[a] \/ \A r \in Rnti : ~InBoot(GetControl(a, r)))

-----------------------------------------------------------------------------
(* Refinement: the loop implements ControlContract.                       *)

ContractPhase == CASE pc = "idle" -> "idle"
                   [] pc \in {"recv_mcs", "sched"} -> "decide"
                   [] OTHER -> "publish"

\* A decision is named by the slot of its basis; None is slot 0, where no
\* telemetry exists, and -1 stands for every basis of an earlier incarnation.
DecisionName(c) == IF c = None \/ c.boot = boot THEN c.slot ELSE -1
ContractDecision == [a \in Apps |-> [r \in Rnti |-> DecisionName(applied[a][r])]]
Restarted == boot > 1

Contract == INSTANCE ControlContract WITH
  Threshold <- STALENESS_THRESHOLD, NoDecision <- 0, Foreign <- -1,
  phase <- ContractPhase, decision <- ContractDecision, restarted <- Restarted

\* The control loop implements its contract: in every slot each channel applies
\* nothing or one decision, of a recent slot and to UEs that slot listed; only
\* after a restart of the gNB also one of an earlier incarnation.
ImplementsContract == Contract!Spec
=============================================================================
