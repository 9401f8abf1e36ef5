------------------------ MODULE EdgericControl_proofs ------------------------
(***************************************************************************)
(* Proofs about EdgericControl, for every value of its constants.          *)
(***************************************************************************)
EXTENDS EdgericControl, TLAPS

USE AppsAssumption, ThresholdAssumption, WidthAssumption, OffsetAssumption,
    QueueAssumption, BoundsAssumption

-----------------------------------------------------------------------------
(* Type correctness *)

\* What get_weights_from_er / get_mcs_from_er leave is well typed.
LEMMA RecvControlType ==
  ASSUME TypeOK, NEW a, RecvControl(a)
  PROVE  /\ er_tti' \in [Apps -> Ttis]
         /\ recved' \in [Apps -> [Rnti -> Basis \cup {None}]]
         /\ queue' \in [Apps -> Seq(Control)]
<1>1. CASE a \in Apps /\ queue[a] # <<>>
  <2>1. queue[a] \in Seq(Control) BY <1>1 DEF TypeOK
  <2>2. Head(queue[a]) \in Control /\ Tail(queue[a]) \in Seq(Control) BY <1>1, <2>1
  <2>3. Head(queue[a]).tti \in Ttis BY <2>2 DEF Control
  <2>4. RowsOf(Head(queue[a])) \in [Rnti -> Basis \cup {None}]
    BY <2>2 DEF RowsOf, Control, Basis
  <2>5. /\ er_tti' = [er_tti EXCEPT ![a] = Head(queue[a]).tti]
        /\ recved' = [recved EXCEPT ![a] = RowsOf(Head(queue[a]))]
        /\ queue' = [queue EXCEPT ![a] = Tail(queue[a])]
    BY <1>1 DEF RecvControl
  <2>6. er_tti' \in [Apps -> Ttis] BY <2>3, <2>5 DEF TypeOK
  <2>7. recved' \in [Apps -> [Rnti -> Basis \cup {None}]] BY <2>4, <2>5 DEF TypeOK
  <2>8. queue' \in [Apps -> Seq(Control)] BY <2>2, <2>5 DEF TypeOK
  <2> QED BY <2>6, <2>7, <2>8
<1>2. CASE ~(a \in Apps /\ queue[a] # <<>>)
  BY <1>2 DEF RecvControl, TypeOK
<1> QED BY <1>1, <1>2

\* The offset of a muApp is an integer.
LEMMA OffsetType ==
  ASSUME TypeOK, NEW a \in Apps
  PROVE  tti_offset[a] \in TtiOffsets /\ tti_offset[a] \in Int
<1>1. tti_offset[a] \in TtiOffsets BY DEF TypeOK
<1>2. TtiOffsets \subseteq Int BY OffsetAssumption
<1> QED BY <1>1, <1>2

\* A control message is well typed, and so is the queue that receives it.
LEMMA DeliverType ==
  ASSUME NEW q \in Seq(Control), NEW m \in Control
  PROVE  Deliver(q, m) \in Seq(Control)
BY DEF Deliver

\* A muApp about to send has received telemetry that lists a UE.
SendHasMetrics == \A a \in Apps : app_pc[a] = "send" => seen[a].rows # {}

LEMMA InitType == Init => TypeOK /\ SendHasMetrics
BY DEF Init, TypeOK, SendHasMetrics, NoControl, Boots, Slots, Ttis

LEMMA StepType ==
  ASSUME TypeOK, SendHasMetrics, [Next]_vars
  PROVE  TypeOK' /\ SendHasMetrics'
<1> USE DEF SendHasMetrics
<1>1. CASE StartSlot
  <2>1. slot' \in Slots BY <1>1 DEF StartSlot, TypeOK, Slots
  <2>2. tti_cnt' \in Ttis BY <1>1 DEF StartSlot, TypeOK, Ttis
  <2>3. RecvControl("weights") BY <1>1 DEF StartSlot
  <2> QED BY <1>1, <2>1, <2>2, <2>3, RecvControlType
          DEF StartSlot, TypeOK, appVars, boundVars
<1>2. CASE RecvMcs
  <2>1. RecvControl("mcs") BY <1>2 DEF RecvMcs
  <2> QED BY <1>2, <2>1, RecvControlType
          DEF RecvMcs, TypeOK, appVars, boundVars, histVars
<1>3. CASE Schedule
  <2>1. applied' \in [Apps -> [Rnti -> Basis \cup {None}]]
    BY <1>3 DEF Schedule, TypeOK, GetControl
  <2> QED BY <1>3, <2>1 DEF Schedule, TypeOK, appVars, boundVars, histVars
<1>4. CASE SendTtiMetrics
  <2>1. box' \in [Apps -> Metrics \cup {NoMetrics}]
    BY <1>4 DEF SendTtiMetrics, TypeOK, Metrics
  <2>2. published' \in [Slots -> SUBSET Rnti]
    BY <1>4 DEF SendTtiMetrics, TypeOK
  <2>3. applied' \in [Apps -> [Rnti -> Basis \cup {None}]]
    BY <1>4 DEF SendTtiMetrics, NoControl
  <2> QED BY <1>4, <2>1, <2>2, <2>3 DEF SendTtiMetrics, TypeOK, boundVars
<1>5. CASE \E r \in Rnti : AddUe(r) \/ RemoveUe(r)
  BY <1>5 DEF AddUe, RemoveUe, TypeOK, appVars, histVars
<1>6. CASE RestartGnb
  <2>1. /\ boot' \in Boots
        /\ slot' \in Slots
        /\ tti_cnt' \in Ttis
        /\ er_tti' \in [Apps -> Ttis]
    BY <1>6 DEF RestartGnb, TypeOK, Boots, Slots, Ttis
  <2>2. /\ recved' \in [Apps -> [Rnti -> Basis \cup {None}]]
        /\ applied' \in [Apps -> [Rnti -> Basis \cup {None}]]
        /\ published' \in [Slots -> SUBSET Rnti]
        /\ queue' \in [Apps -> Seq(Control)]
    BY <1>6 DEF RestartGnb, NoControl
  <2> QED BY <1>6, <2>1, <2>2 DEF RestartGnb, TypeOK, appVars, boundVars
<1>7. ASSUME NEW a \in Apps, MuApp(a) \/ StopApp(a) \/ StartApp(a)
      PROVE  TypeOK' /\ SendHasMetrics'
  <2>1. CASE GetMetrics(a)
    BY <2>1 DEF GetMetrics, TypeOK, histVars, gnbVars, boundVars
  <2>2. CASE GetMetricsTimeout(a)
    BY <2>2 DEF GetMetricsTimeout, TypeOK, histVars, gnbVars, boundVars
  <2>3. CASE SendControl(a)
    <3>1. PICK o \in BOOLEAN :
            queue' = [queue EXCEPT ![a] = Deliver(@,
                 [boot |-> seen[a].boot, slot |-> seen[a].slot,
                  tti |-> DecisionTti(a), rows |-> seen[a].rows, override |-> o])]
      BY <2>3 DEF SendControl
    <3>2. seen[a] \in Metrics
      BY <2>3 DEF SendControl, TypeOK, NoMetrics
    <3>3. queue' \in [Apps -> Seq(Control)]
      <4> DEFINE m == [boot |-> seen[a].boot, slot |-> seen[a].slot,
                  tti |-> DecisionTti(a), rows |-> seen[a].rows, override |-> o]
      <4>1. m \in Control
        BY <2>3, <3>2 DEF SendControl, ValidTti, Control, Metrics
      <4>2. queue[a] \in Seq(Control) BY DEF TypeOK
      <4>3. Deliver(queue[a], m) \in Seq(Control) BY <4>1, <4>2, DeliverType
      <4>4. queue' = [queue EXCEPT ![a] = Deliver(queue[a], m)]
        BY <3>1 DEF TypeOK
      <4> HIDE DEF m
      <4> QED BY <4>3, <4>4 DEF TypeOK
    <3> QED BY <2>3, <3>3 DEF SendControl, TypeOK, histVars, gnbVars, boundVars
  <2>4. CASE SendControlError(a)
    <3>a. app_up' \in [Apps -> BOOLEAN] BY <2>4 DEF SendControlError, TypeOK
    <3>b. seen' \in [Apps -> Metrics \cup {NoMetrics}]
      BY <2>4 DEF SendControlError, TypeOK
    <3>c. box' \in [Apps -> Metrics \cup {NoMetrics}]
      BY <2>4 DEF SendControlError, TypeOK
    <3>d. app_pc' \in [Apps -> {"poll", "send"}]
      BY <2>4 DEF SendControlError, TypeOK
    <3>2. \A b \in Apps : app_pc'[b] = "send" =>
            app_pc[b] = "send" /\ seen'[b] = seen[b]
      BY <2>4 DEF SendControlError, TypeOK
    <3> QED BY <2>4, <3>a, <3>b, <3>c, <3>d, <3>2
            DEF SendControlError, TypeOK, histVars, gnbVars, boundVars
  <2>5. CASE StopApp(a)
    BY <2>5 DEF StopApp, TypeOK, histVars, gnbVars
  <2>6. CASE StartApp(a)
    BY <2>6 DEF StartApp, TypeOK, histVars, gnbVars, boundVars
  <2> QED BY <1>7, <2>1, <2>2, <2>3, <2>4, <2>5, <2>6 DEF MuApp
<1>8. CASE UNCHANGED vars
  BY <1>8 DEF vars, TypeOK
<1> QED BY <1>1, <1>2, <1>3, <1>4, <1>5, <1>6, <1>7, <1>8 DEF Next, RunSlot

\* Every variable keeps its type: in particular a decision's tag always is a
\* uint32, and received control always is based on telemetry of some slot.
THEOREM TypeCorrect == Spec => []TypeOK
<1>1. Spec => [](TypeOK /\ SendHasMetrics) BY InitType, StepType, PTL DEF Spec
<1> QED BY <1>1, PTL

-----------------------------------------------------------------------------
(***************************************************************************)
(* The inductive invariant.  A staleness test on a tag says something      *)
(* about AGE only because every tag, wherever it is (a telemetry message,  *)
(* a muApp's memory, a queued decision, the received control), still is    *)
(* the slot of its basis plus the offset, and because no basis of this     *)
(* incarnation lies in the future: it is a slot whose telemetry has been   *)
(* published, with the UEs the decision is for.                            *)
(***************************************************************************)

\* The last slot whose telemetry this incarnation has published.
Done == IF pc = "idle" THEN slot ELSE slot - 1

\* Message m, tagged with offset off, given the incarnation b, its last
\* published slot d and its telemetry pub.
OkMsg(m, off, b, d, pub) ==
  /\ m.boot <= b
  /\ m.tti = m.slot + off
  /\ m.boot = b => m.slot \in 1..d /\ m.rows \subseteq pub[m.slot]

\* Control c of UE r, received with tag t of a muApp of offset off.
OkCtrl(c, t, off, r, b, d, pub) ==
  /\ c.boot <= b
  /\ t = c.slot + off
  /\ c.boot = b => c.slot \in 1..d /\ r \in pub[c.slot]

AppsOk ==
  \A a \in Apps :
    /\ box[a] # NoMetrics => OkMsg(box[a], 0, boot, Done, published)
    /\ seen[a] # NoMetrics => OkMsg(seen[a], 0, boot, Done, published)

QueuesOk ==
  \A a \in Apps : \A i \in 1..Len(queue[a]) :
    OkMsg(queue[a][i], tti_offset[a], boot, Done, published)

ReceivedOk ==
  \A a \in Apps, r \in Rnti : recved[a][r] # None =>
    OkCtrl(recved[a][r], er_tti[a], tti_offset[a], r, boot, Done, published)

\* The received control of a channel is of one message.
ReceivedOne ==
  \A a \in Apps, r1, r2 \in Rnti :
    recved[a][r1] # None /\ recved[a][r2] # None => recved[a][r1] = recved[a][r2]

AppliedOk ==
  \A a \in Apps, r \in Rnti : applied[a][r] # None =>
    pc = "send" /\ applied[a][r] = recved[a][r] /\ Fresh(a)

IInv ==
  /\ TypeOK
  /\ SendHasMetrics
  /\ tti_cnt = slot
  /\ pc # "idle" => slot >= 1
  /\ AppsOk
  /\ QueuesOk
  /\ ReceivedOk
  /\ ReceivedOne
  /\ AppliedOk

-----------------------------------------------------------------------------
(* What a step does to the history, and what that leaves true *)

\* The published telemetry of an incarnation only grows, until a restart; the
\* muApps keep their offsets.
HistoryGrows ==
  /\ tti_offset' = tti_offset
  /\ \/ boot' > boot
     \/ /\ boot' = boot
        /\ Done' >= Done
        /\ \A s \in 1..Done : published'[s] = published[s]

LEMMA OkMsgStable ==
  ASSUME NEW m, NEW off, NEW b \in Int, NEW d \in Int, NEW pub,
         NEW b2 \in Int, NEW d2 \in Int, NEW pub2,
         m.boot \in Int, m.slot \in Int,
         OkMsg(m, off, b, d, pub),
         b2 > b \/ (b2 = b /\ d2 >= d /\ \A s \in 1..d : pub2[s] = pub[s])
  PROVE  OkMsg(m, off, b2, d2, pub2)
BY DEF OkMsg

LEMMA OkCtrlStable ==
  ASSUME NEW c, NEW t, NEW off, NEW r, NEW b \in Int, NEW d \in Int, NEW pub,
         NEW b2 \in Int, NEW d2 \in Int, NEW pub2,
         c.boot \in Int, c.slot \in Int,
         OkCtrl(c, t, off, r, b, d, pub),
         b2 > b \/ (b2 = b /\ d2 >= d /\ \A s \in 1..d : pub2[s] = pub[s])
  PROVE  OkCtrl(c, t, off, r, b2, d2, pub2)
BY DEF OkCtrl

LEMMA DoneType ==
  ASSUME TypeOK
  PROVE  Done \in Int /\ boot \in Int /\ slot \in Int
BY DEF TypeOK, Done, Boots, Slots

LEMMA StepGrowsHistory ==
  ASSUME TypeOK, TypeOK', pc # "idle" => slot >= 1, [Next]_vars
  PROVE  HistoryGrows
<1>0. boot \in Int /\ slot \in Int /\ slot >= 0 /\ boot' \in Int
  BY DEF TypeOK, Boots, Slots
<1>a. ASSUME UNCHANGED <<boot, slot, published, pc, tti_offset>> PROVE HistoryGrows
  BY <1>0, <1>a DEF Done, HistoryGrows
<1>1. CASE StartSlot BY <1>0, <1>1 DEF StartSlot, appVars, Done, HistoryGrows
<1>2. CASE RecvMcs BY <1>0, <1>2 DEF RecvMcs, appVars, histVars, Done, HistoryGrows
<1>3. CASE Schedule BY <1>0, <1>3 DEF Schedule, appVars, histVars, Done, HistoryGrows
<1>4. CASE SendTtiMetrics
  <2>1. \A s \in 1..Done : published'[s] = published[s]
    BY <1>0, <1>4 DEF SendTtiMetrics, Done, TypeOK, Slots
  <2> QED BY <1>0, <1>4, <2>1 DEF SendTtiMetrics, Done, HistoryGrows
<1>5. CASE \E r \in Rnti : AddUe(r) \/ RemoveUe(r)
  BY <1>5, <1>a DEF AddUe, RemoveUe, appVars, histVars
<1>6. CASE RestartGnb BY <1>0, <1>6 DEF RestartGnb, appVars, HistoryGrows
<1>7. CASE \E a \in Apps : MuApp(a) \/ StopApp(a) \/ StartApp(a)
  <2>1. UNCHANGED <<boot, slot, published, pc, tti_offset>>
    BY <1>7 DEF MuApp, GetMetrics, GetMetricsTimeout, SendControl,
                SendControlError, StopApp, StartApp, histVars, gnbVars
  <2> QED BY <2>1, <1>a
<1>8. CASE UNCHANGED vars BY <1>8, <1>a DEF vars
<1> QED BY <1>1, <1>2, <1>3, <1>4, <1>5, <1>6, <1>7, <1>8 DEF Next, RunSlot

\* Telemetry and queued decisions stay sound in a step that leaves them alone.
LEMMA MetricsStable ==
  ASSUME TypeOK, TypeOK', HistoryGrows, NEW m \in Metrics,
         OkMsg(m, 0, boot, Done, published)
  PROVE  OkMsg(m, 0, boot', Done', published')
<1>1. m.boot \in Int /\ m.slot \in Int BY DEF Metrics, Boots, Slots
<1>2. /\ Done \in Int /\ boot \in Int
      /\ Done' \in Int /\ boot' \in Int
  BY DEF TypeOK, Done, Boots, Slots
<1> QED BY <1>1, <1>2, OkMsgStable DEF HistoryGrows

LEMMA ControlStable ==
  ASSUME TypeOK, TypeOK', HistoryGrows, NEW m \in Control, NEW off,
         OkMsg(m, off, boot, Done, published)
  PROVE  OkMsg(m, off, boot', Done', published')
<1>1. m.boot \in Int /\ m.slot \in Int BY DEF Control, Boots, Slots
<1>2. /\ Done \in Int /\ boot \in Int
      /\ Done' \in Int /\ boot' \in Int
  BY DEF TypeOK, Done, Boots, Slots
<1> QED BY <1>1, <1>2, OkMsgStable DEF HistoryGrows

LEMMA AppsStable ==
  ASSUME TypeOK, TypeOK', HistoryGrows, AppsOk, UNCHANGED <<box, seen>>
  PROVE  AppsOk'
<1> SUFFICES ASSUME NEW a \in Apps
             PROVE  /\ box[a] # NoMetrics => OkMsg(box[a], 0, boot', Done', published')
                    /\ seen[a] # NoMetrics => OkMsg(seen[a], 0, boot', Done', published')
  BY DEF AppsOk
<1>1. box[a] # NoMetrics => OkMsg(box[a], 0, boot', Done', published')
  BY MetricsStable DEF AppsOk, TypeOK
<1>2. seen[a] # NoMetrics => OkMsg(seen[a], 0, boot', Done', published')
  BY MetricsStable DEF AppsOk, TypeOK
<1> QED BY <1>1, <1>2

LEMMA QueuesStable ==
  ASSUME TypeOK, TypeOK', HistoryGrows, QueuesOk,
         NEW a \in Apps, NEW i \in 1..Len(queue[a])
  PROVE  OkMsg(queue[a][i], tti_offset[a], boot', Done', published')
<1>1. queue[a] \in Seq(Control) BY DEF TypeOK
<1>2. queue[a][i] \in Control BY <1>1
<1>3. OkMsg(queue[a][i], tti_offset[a], boot, Done, published) BY DEF QueuesOk
<1> QED BY <1>2, <1>3, ControlStable

LEMMA ReceivedStable ==
  ASSUME TypeOK, TypeOK', HistoryGrows, ReceivedOk,
         NEW a \in Apps, NEW r \in Rnti, recved[a][r] # None
  PROVE  OkCtrl(recved[a][r], er_tti[a], tti_offset[a], r, boot', Done', published')
<1>1. recved[a][r] \in Basis BY DEF TypeOK
<1>2. recved[a][r].boot \in Int /\ recved[a][r].slot \in Int
  BY <1>1 DEF Basis, Boots, Slots
<1>3. /\ Done \in Int /\ boot \in Int
      /\ Done' \in Int /\ boot' \in Int
  BY DEF TypeOK, Done, Boots, Slots
<1>4. OkCtrl(recved[a][r], er_tti[a], tti_offset[a], r, boot, Done, published) BY DEF ReceivedOk
<1> QED BY <1>2, <1>3, <1>4, OkCtrlStable DEF HistoryGrows

\* A step of the gNB that leaves the received control alone.
LEMMA ReceivedUnchanged ==
  ASSUME TypeOK, TypeOK', HistoryGrows, ReceivedOk, ReceivedOne,
         UNCHANGED <<recved, er_tti>>
  PROVE  ReceivedOk' /\ ReceivedOne'
BY ReceivedStable DEF ReceivedOk, ReceivedOne, HistoryGrows

LEMMA QueuesUnchanged ==
  ASSUME TypeOK, TypeOK', HistoryGrows, QueuesOk, UNCHANGED queue
  PROVE  QueuesOk'
BY QueuesStable DEF QueuesOk, HistoryGrows

\* Receiving control moves a sound message into the received control.
LEMMA RecvControlOk ==
  ASSUME TypeOK, TypeOK', HistoryGrows, QueuesOk, ReceivedOk, ReceivedOne,
         NEW a, RecvControl(a)
  PROVE  QueuesOk' /\ ReceivedOk' /\ ReceivedOne'
<1>1. CASE ~(a \in Apps /\ queue[a] # <<>>)
  BY <1>1, ReceivedUnchanged, QueuesUnchanged DEF RecvControl
<1>2. CASE a \in Apps /\ queue[a] # <<>>
  <2> DEFINE m == Head(queue[a])
  <2>1. queue[a] \in Seq(Control) /\ queue[a] # <<>> BY <1>2 DEF TypeOK
  <2>2. m \in Control /\ m = queue[a][1] /\ 1 \in 1..Len(queue[a]) BY <2>1
  <2>3. OkMsg(m, tti_offset[a], boot', Done', published') BY <1>2, <2>2, QueuesStable
  <2>4. /\ er_tti' = [er_tti EXCEPT ![a] = m.tti]
        /\ recved' = [recved EXCEPT ![a] = RowsOf(m)]
        /\ queue' = [queue EXCEPT ![a] = Tail(queue[a])]
    BY <1>2 DEF RecvControl
  <2>5. QueuesOk'
    <3> SUFFICES ASSUME NEW b \in Apps, NEW i \in 1..Len(queue'[b])
                 PROVE  OkMsg(queue'[b][i], tti_offset[b], boot', Done', published')
      BY DEF QueuesOk, HistoryGrows
    <3>1. CASE b # a
      <4>1. queue'[b] = queue[b] BY <2>4, <3>1 DEF TypeOK
      <4> QED BY <4>1, QueuesStable
    <3>2. CASE b = a
      <4>1. queue'[b] = Tail(queue[a]) BY <1>2, <2>4, <3>2 DEF TypeOK
      <4>2. i + 1 \in 1..Len(queue[a]) /\ Tail(queue[a])[i] = queue[a][i + 1]
        BY <2>1, <4>1
      <4> QED BY <1>2, <3>2, <4>1, <4>2, QueuesStable
    <3> QED BY <3>1, <3>2
  <2> HIDE DEF m
  <2>6. \A r \in Rnti : RowsOf(m)[r] # None =>
           r \in m.rows /\ RowsOf(m)[r] = [boot |-> m.boot, slot |-> m.slot]
    BY DEF RowsOf
  <2>7. ReceivedOk'
    <3> SUFFICES ASSUME NEW b \in Apps, NEW r \in Rnti, recved'[b][r] # None
                 PROVE  OkCtrl(recved'[b][r], er_tti'[b], tti_offset[b], r, boot', Done', published')
      BY DEF ReceivedOk, HistoryGrows
    <3>1. CASE b # a
      <4>1. recved'[b] = recved[b] /\ er_tti'[b] = er_tti[b]
        BY <2>4, <3>1 DEF TypeOK
      <4> QED BY <4>1, ReceivedStable
    <3>2. CASE b = a
      <4>1. recved'[b] = RowsOf(m) /\ er_tti'[b] = m.tti
        BY <1>2, <2>4, <3>2 DEF TypeOK
      <4> QED BY <2>3, <2>6, <3>2, <4>1 DEF OkMsg, OkCtrl
    <3> QED BY <3>1, <3>2
  <2>8. ReceivedOne'
    <3> SUFFICES ASSUME NEW b \in Apps, NEW r1 \in Rnti, NEW r2 \in Rnti,
                        recved'[b][r1] # None, recved'[b][r2] # None
                 PROVE  recved'[b][r1] = recved'[b][r2]
      BY DEF ReceivedOne
    <3>1. CASE b # a
      <4>1. recved'[b] = recved[b] BY <2>4, <3>1 DEF TypeOK
      <4> QED BY <4>1 DEF ReceivedOne
    <3>2. CASE b = a
      <4>1. recved'[b] = RowsOf(m) BY <1>2, <2>4, <3>2 DEF TypeOK
      <4> QED BY <2>6, <4>1
    <3> QED BY <3>1, <3>2
  <2> QED BY <2>5, <2>7, <2>8
<1> QED BY <1>1, <1>2

-----------------------------------------------------------------------------
(* The invariant is inductive *)

\* A muApp step keeps the loop invariant.
LEMMA MuAppKeepsIInv ==
  ASSUME IInv, TypeOK', SendHasMetrics', HistoryGrows,
         NEW a \in Apps, MuApp(a) \/ StopApp(a) \/ StartApp(a)
  PROVE  IInv'
<1> USE DEF IInv
<1>0. UNCHANGED <<boot, slot, published, tti_cnt, pc, er_tti, recved, applied>>
  BY DEF MuApp, GetMetrics, GetMetricsTimeout, SendControl, SendControlError,
         StopApp, StartApp, histVars, gnbVars
<1>1. UNCHANGED Done BY <1>0 DEF Done
<1>2. ReceivedOk' /\ ReceivedOne' BY <1>0, ReceivedUnchanged
<1>3. AppliedOk' BY <1>0 DEF AppliedOk, Fresh, Age
<1>4. AppsOk' /\ QueuesOk'
  <2>1. CASE GetMetrics(a)
    <3>1. UNCHANGED queue BY <2>1 DEF GetMetrics
    <3>2. \A b \in Apps : /\ box'[b] \in {box[b], NoMetrics}
                         /\ seen'[b] \in {box[b], seen[b]}
      BY <2>1 DEF GetMetrics, TypeOK
    <3> QED BY <1>0, <1>1, <3>1, <3>2, QueuesUnchanged DEF AppsOk
  <2>2. CASE GetMetricsTimeout(a)
    BY <2>2, QueuesUnchanged, AppsStable DEF GetMetricsTimeout
  <2>3. CASE SendControl(a)
    <3>1. PICK o \in BOOLEAN :
              queue' = [queue EXCEPT ![a] = Deliver(@,
                   [boot |-> seen[a].boot, slot |-> seen[a].slot,
                    tti |-> DecisionTti(a), rows |-> seen[a].rows, override |-> o])]
      BY <2>3 DEF SendControl
    <3> DEFINE m == [boot |-> seen[a].boot, slot |-> seen[a].slot,
                    tti |-> DecisionTti(a), rows |-> seen[a].rows, override |-> o]
    <3>2. seen[a] # NoMetrics /\ seen[a] \in Metrics
      BY <2>3 DEF SendControl, SendHasMetrics, NoMetrics, TypeOK
    <3>3. OkMsg(m, tti_offset[a], boot, Done, published)
      <4>1. OkMsg(seen[a], 0, boot, Done, published) BY <3>2 DEF AppsOk
      <4>2. seen[a].slot \in Int /\ seen[a].tti \in Int
        BY <3>2 DEF Metrics, Slots, Ttis
      <4> QED BY <4>1, <4>2 DEF OkMsg, DecisionTti
    <3>4. queue' = [queue EXCEPT ![a] = Deliver(queue[a], m)] BY <3>1 DEF TypeOK
    <3> HIDE DEF m
    <3>5. \A i \in 1..Len(Deliver(queue[a], m)) :
            \/ Deliver(queue[a], m)[i] = m
            \/ i \in 1..Len(queue[a]) /\ Deliver(queue[a], m)[i] = queue[a][i]
      <4>1. queue[a] \in Seq(Control) BY DEF TypeOK
      <4> QED BY <4>1 DEF Deliver
    <3>6. QueuesOk'
      <4> SUFFICES ASSUME NEW b \in Apps, NEW i \in 1..Len(queue'[b])
                   PROVE  OkMsg(queue'[b][i], tti_offset[b], boot', Done', published')
        BY DEF QueuesOk, HistoryGrows
      <4>1. CASE b # a
        <5>1. queue'[b] = queue[b] BY <3>4, <4>1 DEF TypeOK
        <5> QED BY <5>1, QueuesStable
      <4>2. CASE b = a
        <5>1. queue'[b] = Deliver(queue[a], m) BY <3>4, <4>2 DEF TypeOK
        <5> QED BY <1>0, <1>1, <3>3, <3>5, <4>2, <5>1 DEF QueuesOk
      <4> QED BY <4>1, <4>2
    <3>7. AppsOk' BY <2>3, AppsStable DEF SendControl
    <3> QED BY <3>6, <3>7
  <2>4. CASE SendControlError(a) \/ StopApp(a)
    <3>1. UNCHANGED queue BY <2>4 DEF SendControlError, StopApp
    <3>2. \A b \in Apps : /\ box'[b] \in {box[b], NoMetrics}
                         /\ seen'[b] \in {seen[b], NoMetrics}
      BY <2>4 DEF SendControlError, StopApp, TypeOK
    <3> QED BY <1>0, <1>1, <3>1, <3>2, QueuesUnchanged DEF AppsOk
  <2>5. CASE StartApp(a)
    BY <2>5, QueuesUnchanged, AppsStable DEF StartApp
  <2> QED BY <2>1, <2>2, <2>3, <2>4, <2>5 DEF MuApp
<1> QED BY <1>0, <1>2, <1>3, <1>4

\* The 32-bit counter is the slot number until it wraps.
LEMMA ModSmall ==
  ASSUME NEW n \in Nat, NEW k \in Nat, k < n
  PROVE  k % n = k
OBVIOUS

\* A gNB step keeps the loop invariant, as long as the TTI does not wrap.
LEMMA GnbKeepsIInv ==
  ASSUME MaxSlot < TtiMod, IInv, TypeOK', SendHasMetrics', HistoryGrows,
         RunSlot \/ (\E r \in Rnti : AddUe(r) \/ RemoveUe(r)) \/ RestartGnb
  PROVE  IInv'
<1> USE DEF IInv
<1>1. CASE StartSlot
  <2>1. RecvControl("weights") BY <1>1 DEF StartSlot
  <2>2. QueuesOk' /\ ReceivedOk' /\ ReceivedOne' BY <2>1, RecvControlOk
  <2>3. AppsOk' BY <1>1, AppsStable DEF StartSlot, appVars
  <2>4. tti_cnt' = slot' /\ slot' >= 1
    <3>1. slot \in Nat /\ slot + 1 < TtiMod /\ slot' = slot + 1
      BY <1>1 DEF StartSlot, TypeOK, Slots
    <3>2. tti_cnt' = (slot + 1) % TtiMod BY <1>1 DEF StartSlot
    <3>3. TtiMod \in Nat OBVIOUS
    <3> DEFINE k == slot + 1
    <3>4. k \in Nat /\ k < TtiMod BY <3>1
    <3> HIDE DEF k
    <3>5. k % TtiMod = k BY <3>3, <3>4, ModSmall
    <3> QED BY <3>1, <3>2, <3>5 DEF k
  <2>5. AppliedOk' BY <1>1 DEF StartSlot, AppliedOk
  <2> QED BY <2>2, <2>3, <2>4, <2>5
<1>2. CASE RecvMcs
  <2>1. RecvControl("mcs") BY <1>2 DEF RecvMcs
  <2>2. QueuesOk' /\ ReceivedOk' /\ ReceivedOne' BY <2>1, RecvControlOk
  <2>3. AppsOk' BY <1>2, AppsStable DEF RecvMcs, appVars
  <2>4. AppliedOk' BY <1>2 DEF RecvMcs, AppliedOk
  <2> QED BY <1>2, <2>2, <2>3, <2>4 DEF RecvMcs, histVars
<1>3. CASE Schedule
  <2>1. UNCHANGED <<queue, recved, er_tti, box, seen, tti_cnt, slot>>
    BY <1>3 DEF Schedule, appVars, histVars
  <2>2. AppliedOk'
    <3>1. \A a \in Apps, r \in Rnti : applied'[a][r] # None =>
             applied'[a][r] = recved[a][r] /\ Fresh(a)
      BY <1>3 DEF Schedule, GetControl
    <3> QED BY <1>3, <2>1, <3>1 DEF Schedule, AppliedOk, Fresh, Age
  <2> QED BY <1>3, <2>1, <2>2, AppsStable, QueuesUnchanged, ReceivedUnchanged
          DEF Schedule
<1>4. CASE SendTtiMetrics
  <2>1. UNCHANGED <<queue, recved, er_tti, seen, tti_cnt, slot, boot>>
    BY <1>4 DEF SendTtiMetrics
  <2>2. AppliedOk' BY <1>4 DEF SendTtiMetrics, NoControl, AppliedOk
  <2>3. AppsOk'
    <3> DEFINE m == [boot |-> boot, slot |-> slot, tti |-> tti_cnt, rows |-> ues]
    <3>1. \A a \in Apps : box'[a] \in {box[a], m}
      BY <1>4 DEF SendTtiMetrics
    <3>2. OkMsg(m, 0, boot', Done', published')
      BY <1>4 DEF SendTtiMetrics, OkMsg, Done, TypeOK, Slots, Boots
    <3> HIDE DEF m
    <3> SUFFICES ASSUME NEW a \in Apps
                 PROVE  /\ box'[a] # NoMetrics => OkMsg(box'[a], 0, boot', Done', published')
                        /\ seen[a] # NoMetrics => OkMsg(seen[a], 0, boot', Done', published')
      BY <2>1 DEF AppsOk
    <3>3. box[a] # NoMetrics => OkMsg(box[a], 0, boot', Done', published')
      BY MetricsStable DEF AppsOk, TypeOK
    <3>4. seen[a] # NoMetrics => OkMsg(seen[a], 0, boot', Done', published')
      BY MetricsStable DEF AppsOk, TypeOK
    <3> QED BY <3>1, <3>2, <3>3, <3>4
  <2> QED BY <1>4, <2>1, <2>2, <2>3, QueuesUnchanged, ReceivedUnchanged
          DEF SendTtiMetrics
<1>5. CASE \E r \in Rnti : AddUe(r) \/ RemoveUe(r)
  <2>1. UNCHANGED <<queue, recved, er_tti, box, seen, tti_cnt, slot, pc, applied>>
    BY <1>5 DEF AddUe, RemoveUe, appVars, histVars
  <2>2. AppliedOk' BY <2>1 DEF AppliedOk, Fresh, Age
  <2> QED BY <2>1, <2>2, AppsStable, QueuesUnchanged, ReceivedUnchanged
<1>6. CASE RestartGnb
  <2>1. AppsOk' BY <1>6, AppsStable DEF RestartGnb, appVars
  <2>2. QueuesOk' BY <1>6 DEF RestartGnb, QueuesOk
  <2>3. ReceivedOk' /\ ReceivedOne' /\ AppliedOk'
    BY <1>6 DEF RestartGnb, NoControl, ReceivedOk, ReceivedOne, AppliedOk
  <2> QED BY <1>6, <2>1, <2>2, <2>3 DEF RestartGnb
<1> QED BY <1>1, <1>2, <1>3, <1>4, <1>5, <1>6 DEF RunSlot

\* Tags stay truthful and bases stay published, in every incarnation.
THEOREM LoopInvariant == MaxSlot < TtiMod => (Spec => []IInv)
<1> SUFFICES ASSUME MaxSlot < TtiMod PROVE Spec => []IInv
  OBVIOUS
<1>1. Init => IInv
  <2> SUFFICES ASSUME Init PROVE IInv
    OBVIOUS
  <2>1. TypeOK /\ SendHasMetrics BY InitType
  <2>2. AppsOk /\ QueuesOk BY DEF Init, AppsOk, QueuesOk
  <2>3. ReceivedOk /\ ReceivedOne /\ AppliedOk
    BY DEF Init, NoControl, ReceivedOk, ReceivedOne, AppliedOk
  <2> QED BY <2>1, <2>2, <2>3 DEF IInv, Init
<1>2. IInv /\ [Next]_vars => IInv'
  <2> SUFFICES ASSUME IInv, [Next]_vars PROVE IInv'
    OBVIOUS
  <2>1. TypeOK' /\ SendHasMetrics' BY StepType DEF IInv
  <2>2. HistoryGrows BY <2>1, StepGrowsHistory DEF IInv
  <2>3. CASE RunSlot \/ (\E r \in Rnti : AddUe(r) \/ RemoveUe(r)) \/ RestartGnb
    BY <2>1, <2>2, <2>3, GnbKeepsIInv
  <2>4. CASE \E a \in Apps : MuApp(a) \/ StopApp(a) \/ StartApp(a)
    BY <2>1, <2>2, <2>4, MuAppKeepsIInv
  <2>5. CASE UNCHANGED vars
    <3>1. UNCHANGED <<queue, recved, er_tti, box, seen, tti_cnt, slot, pc, applied>>
      BY <2>5 DEF vars
    <3>2. AppliedOk' BY <3>1 DEF IInv, AppliedOk, Fresh, Age
    <3> QED BY <2>1, <2>2, <3>1, <3>2, AppsStable, QueuesUnchanged, ReceivedUnchanged
            DEF IInv
  <2> QED BY <2>3, <2>4, <2>5 DEF Next
<1> QED BY <1>1, <1>2, PTL DEF Spec

-----------------------------------------------------------------------------
(* What the invariant gives *)

\* Applied control of this incarnation: its basis and age.
LEMMA AppliedBasis ==
  ASSUME IInv, NEW a \in Apps, NEW r \in Rnti, applied[a][r] # None
  PROVE  LET c == applied[a][r] IN
         /\ c \in Basis
         /\ c.boot <= boot
         /\ Fresh(a)
         /\ er_tti[a] = c.slot + tti_offset[a]
         /\ tti_cnt = slot
         /\ c.boot = boot => c.slot \in 1..(slot - 1) /\ r \in published[c.slot]
<1>1. pc = "send" /\ applied[a][r] = recved[a][r] /\ Fresh(a)
  BY DEF IInv, AppliedOk
<1>2. OkCtrl(applied[a][r], er_tti[a], tti_offset[a], r, boot, Done, published)
  BY <1>1 DEF IInv, ReceivedOk
<1>3. applied[a][r] \in Basis BY DEF IInv, TypeOK
<1> QED BY <1>1, <1>2, <1>3 DEF OkCtrl, Done, IInv

\* For every number of restarts and all offsets: control of this incarnation is
\* fresh and is for a UE its telemetry listed (get_weights / get_mcs,
\* are_*_fresh).
THEOREM FreshControlAlways == MaxSlot < TtiMod => (Spec => []FreshControl)
<1> SUFFICES ASSUME MaxSlot < TtiMod PROVE Spec => []FreshControl
  OBVIOUS
<1>1. IInv => FreshControl
  <2> SUFFICES ASSUME IInv, NEW a \in Apps, NEW r \in Rnti, InBoot(applied[a][r])
               PROVE  LET age == slot - applied[a][r].slot
                      IN /\ age >= 1
                         /\ age - tti_offset[a] \in 0..STALENESS_THRESHOLD
                         /\ r \in published[applied[a][r].slot]
    BY DEF FreshControl
  <2>1. /\ Fresh(a)
        /\ er_tti[a] = applied[a][r].slot + tti_offset[a]
        /\ tti_cnt = slot
        /\ applied[a][r].slot \in 1..(slot - 1)
        /\ r \in published[applied[a][r].slot]
    BY AppliedBasis DEF InBoot
  <2>2. slot \in Int BY DEF IInv, TypeOK, Slots
  <2>3. tti_offset[a] \in Int BY OffsetType DEF IInv
  <2> QED BY <2>1, <2>2, <2>3 DEF Fresh, Age
<1> QED BY <1>1, LoopInvariant, PTL

\* All the control a channel applies in a slot is of one message.
THEOREM OneDecisionAlways == MaxSlot < TtiMod => (Spec => []OneDecisionPerSlot)
<1> SUFFICES ASSUME MaxSlot < TtiMod PROVE Spec => []OneDecisionPerSlot
  OBVIOUS
<1>1. IInv => OneDecisionPerSlot
  <2> SUFFICES ASSUME IInv, NEW a \in Apps, NEW r1 \in Rnti, NEW r2 \in Rnti,
                      applied[a][r1] # None, applied[a][r2] # None
               PROVE  applied[a][r1] = applied[a][r2]
    BY DEF OneDecisionPerSlot, Controlled
  <2>1. applied[a][r1] = recved[a][r1] /\ applied[a][r2] = recved[a][r2]
    BY DEF IInv, AppliedOk
  <2> QED BY <2>1 DEF IInv, ReceivedOne
<1> QED BY <1>1, LoopInvariant, PTL

-----------------------------------------------------------------------------
(* Expiry *)

\* Taking a message from a queue changes it.
LEMMA TailDiffers ==
  ASSUME NEW S, NEW q \in Seq(S), q # <<>>
  PROVE  Tail(q) # q
<1>1. Len(q) \in Nat OBVIOUS
<1>2. Len(Tail(q)) = Len(q) - 1 OBVIOUS
<1>3. \A n \in Nat : n - 1 # n OBVIOUS
<1> QED BY <1>1, <1>2, <1>3, Zenon

\* Without a message from its socket a channel keeps its map and its tag, and
\* the TTI counter only advances, unless the gNB is restarted, which clears the map.
LEMMA QuietStep ==
  ASSUME MaxSlot < TtiMod, IInv, [Next]_vars,
         NEW a \in Apps, queue'[a] = queue[a], ~RestartGnb
  PROVE  /\ er_tti'[a] = er_tti[a]
         /\ recved'[a] = recved[a]
         /\ tti_cnt' >= tti_cnt
         /\ boot' = boot
<1>0. tti_cnt = slot /\ slot \in 0..MaxSlot BY DEF IInv, TypeOK, Slots
<1>1. ASSUME NEW b, RecvControl(b)
      PROVE  er_tti'[a] = er_tti[a] /\ recved'[a] = recved[a]
  <2>1. CASE b \in Apps /\ queue[b] # <<>>
    <3>1. /\ er_tti' = [er_tti EXCEPT ![b] = Head(queue[b]).tti]
          /\ recved' = [recved EXCEPT ![b] = RowsOf(Head(queue[b]))]
          /\ queue' = [queue EXCEPT ![b] = Tail(queue[b])]
      BY <1>1, <2>1 DEF RecvControl
    <3>2. queue[b] \in Seq(Control) BY <2>1 DEF IInv, TypeOK
    <3>3. Tail(queue[b]) # queue[b] BY <2>1, <3>2, TailDiffers
    <3>4. a # b BY <2>1, <3>1, <3>3 DEF IInv, TypeOK
    <3> QED BY <3>1, <3>4 DEF IInv, TypeOK
  <2>2. CASE ~(b \in Apps /\ queue[b] # <<>>) BY <1>1, <2>2 DEF RecvControl
  <2> QED BY <2>1, <2>2
<1>2. CASE StartSlot
  <2>1. RecvControl("weights") BY <1>2 DEF StartSlot
  <2>2. tti_cnt' = tti_cnt + 1 BY <1>0, <1>2, ModSmall DEF StartSlot
  <2> QED BY <1>0, <1>1, <1>2, <2>1, <2>2 DEF StartSlot
<1>3. CASE RecvMcs
  <2>1. RecvControl("mcs") /\ tti_cnt' = tti_cnt BY <1>3 DEF RecvMcs
  <2> QED BY <1>0, <1>1, <1>3, <2>1 DEF RecvMcs, histVars
<1>5. CASE \/ Schedule \/ SendTtiMetrics
           \/ \E r \in Rnti : AddUe(r) \/ RemoveUe(r)
           \/ \E b \in Apps : MuApp(b) \/ StopApp(b) \/ StartApp(b)
           \/ UNCHANGED vars
  <2>1. UNCHANGED <<tti_cnt, er_tti, recved, boot>>
    BY <1>5 DEF Schedule, SendTtiMetrics, AddUe, RemoveUe, MuApp, GetMetrics,
         GetMetricsTimeout, SendControl, SendControlError, StopApp, StartApp,
         histVars, gnbVars, vars
  <2> QED BY <1>0, <2>1
<1> QED BY <1>2, <1>3, <1>5 DEF Next, RunSlot

\* Control that has expired comes back only with a message (no tags ahead of the
\* TTI counter: such a tag becomes fresh by itself).
THEOREM ExpiredStaysExpiredAlways ==
  MaxSlot < TtiMod /\ (\A o \in TtiOffsets : o <= 0) => (Spec => ExpiredStaysExpired)
<1> SUFFICES ASSUME MaxSlot < TtiMod, \A o \in TtiOffsets : o <= 0
             PROVE  Spec => ExpiredStaysExpired
  OBVIOUS
<1>1. ASSUME IInv, [Next]_vars, NEW a \in Apps, NEW r \in Rnti,
             GetControl(a, r) = None, queue'[a] = queue[a]
      PROVE  ~InBoot(GetControl(a, r))'
  <2>1. CASE RestartGnb
    <3>1. recved'[a][r] = None BY <2>1 DEF RestartGnb, NoControl
    <3> QED BY <3>1 DEF GetControl, InBoot
  <2>2. CASE ~RestartGnb
    <3>0. /\ er_tti'[a] = er_tti[a]
          /\ recved'[a] = recved[a]
          /\ tti_cnt' >= tti_cnt
          /\ boot' = boot
      BY <1>1, <2>2, QuietStep
    <3>1. CASE recved[a][r] = None \/ recved[a][r].boot # boot
      BY <3>0, <3>1 DEF GetControl, InBoot
    <3>2. CASE recved[a][r] # None /\ recved[a][r].boot = boot
      <4>1. recved[a][r].slot \in Int
        BY <1>1, <3>2 DEF IInv, TypeOK, Basis, Slots
      <4>2. /\ er_tti[a] = recved[a][r].slot + tti_offset[a]
            /\ recved[a][r].slot \in 1..Done
        BY <1>1, <3>2 DEF IInv, ReceivedOk, OkCtrl
      <4>a. slot \in Int /\ tti_cnt = slot /\ er_tti[a] \in Int
        BY <1>1 DEF IInv, TypeOK, Slots, Ttis
      <4>b. tti_cnt' \in Int
        <5>1. TypeOK' BY <1>1, StepType DEF IInv
        <5> QED BY <5>1 DEF TypeOK, Ttis
      <4>c. tti_offset[a] \in Int /\ tti_offset[a] <= 0
        BY <1>1, OffsetType DEF IInv
      <4>3. /\ slot \in Int /\ tti_cnt = slot /\ er_tti[a] \in Int /\ tti_cnt' \in Int
            /\ tti_offset[a] \in Int /\ tti_offset[a] <= 0
        BY <4>a, <4>b, <4>c
      <4>4. er_tti[a] <= tti_cnt BY <4>1, <4>2, <4>3 DEF Done
      <4>5. ~Fresh(a) BY <1>1, <3>2 DEF GetControl
      <4>6. ~Fresh(a)' BY <3>0, <4>3, <4>4, <4>5 DEF Fresh, Age
      <4> QED BY <4>6 DEF GetControl, InBoot
    <3> QED BY <3>1, <3>2
  <2> QED BY <2>1, <2>2
<1>2. IInv /\ [Next]_vars =>
        [\A a \in Apps, r \in Rnti :
           GetControl(a, r) = None /\ InBoot(GetControl(a, r))'
             => queue'[a] # queue[a]]_vars
  BY <1>1
<1> QED BY <1>2, LoopInvariant, PTL DEF Spec, ExpiredStaysExpired

-----------------------------------------------------------------------------
(* Refinement of the contract *)

Promises == IInv /\ FreshControl /\ OneDecisionPerSlot

\* What a decision is called: 0 exactly for no decision, a slot before this one
\* for control of this incarnation, -1 for the rest, which takes a restart.
LEMMA DecisionNames ==
  ASSUME Promises, NEW a \in Apps, NEW r \in Rnti
  PROVE  /\ DecisionName(applied[a][r]) \in 0..MaxSlot \cup {-1}
         /\ applied[a][r] = None <=> DecisionName(applied[a][r]) = 0
         /\ InBoot(applied[a][r]) =>
              /\ DecisionName(applied[a][r]) = applied[a][r].slot
              /\ applied[a][r].slot \in 1..(slot - 1)
         /\ applied[a][r] # None /\ ~InBoot(applied[a][r]) =>
              DecisionName(applied[a][r]) = -1 /\ Restarted
<1>1. CASE applied[a][r] = None
  <2>1. DecisionName(applied[a][r]) = 0 BY <1>1 DEF DecisionName, None
  <2> QED BY <1>1, <2>1 DEF InBoot
<1>2. CASE InBoot(applied[a][r])
  <2>1. applied[a][r] # None /\ applied[a][r].boot = boot BY <1>2 DEF InBoot
  <2>2. applied[a][r].slot \in 1..(slot - 1) BY <2>1, AppliedBasis DEF Promises
  <2>3. slot \in 0..MaxSlot BY DEF Promises, IInv, TypeOK, Slots
  <2> QED BY <1>2, <2>1, <2>2, <2>3 DEF DecisionName
<1>3. CASE applied[a][r] # None /\ ~InBoot(applied[a][r])
  <2>1. DecisionName(applied[a][r]) = -1 BY <1>3 DEF DecisionName, InBoot
  <2>2. applied[a][r] \in Basis /\ applied[a][r].boot <= boot /\ applied[a][r].boot # boot
    BY <1>3, AppliedBasis DEF Promises, InBoot
  <2>3. Restarted BY <2>2 DEF Basis, Boots, Promises, IInv, TypeOK, Restarted
  <2> QED BY <1>3, <2>1, <2>3
<1> QED BY <1>1, <1>2, <1>3 DEF InBoot

\* What the scheduling of a slot applies is permitted by the contract.
LEMMA AppliedPermitted ==
  ASSUME \A o \in TtiOffsets : o <= 0, Promises, NEW a \in Apps
  PROVE  Contract!Permitted(ContractDecision[a])
<1>0. \A r \in Rnti : ContractDecision[a][r] = DecisionName(applied[a][r])
  BY DEF ContractDecision
<1>1. CASE \A r \in Rnti : applied[a][r] = None
  BY <1>0, <1>1, DecisionNames DEF Contract!Permitted
<1>2. ASSUME NEW q \in Rnti, InBoot(applied[a][q])
      PROVE  Contract!Permitted(ContractDecision[a])
  <2> DEFINE s == applied[a][q].slot
  <2>1. slot - s \in 1..STALENESS_THRESHOLD /\ s \in 1..(slot - 1)
    <3>1. s \in 1..(slot - 1) BY <1>2, DecisionNames
    <3>2. slot - s >= 1 /\ slot - s - tti_offset[a] \in 0..STALENESS_THRESHOLD
      BY <1>2 DEF Promises, FreshControl
    <3>3. tti_offset[a] \in Int /\ tti_offset[a] <= 0
      BY OffsetType DEF Promises, IInv
    <3>4. slot \in Int BY DEF Promises, IInv, TypeOK, Slots
    <3> QED BY <3>1, <3>2, <3>3, <3>4
  <2>2. s \in Contract!Window BY <2>1 DEF Contract!Window
  <2>3. ASSUME NEW r \in Rnti, ContractDecision[a][r] # 0
        PROVE  ContractDecision[a][r] = s /\ r \in published[s]
    <3>1. Controlled(a, r) /\ Controlled(a, q)
      BY <1>0, <1>2, <2>3, DecisionNames DEF Controlled, InBoot
    <3>2. applied[a][r] = applied[a][q] BY <3>1 DEF Promises, OneDecisionPerSlot
    <3>3. DecisionName(applied[a][r]) = s BY <1>2, <3>2, DecisionNames
    <3> QED BY <1>0, <1>2, <3>2, <3>3 DEF Promises, FreshControl
  <2> HIDE DEF s
  <2> QED BY <2>2, <2>3 DEF Contract!Permitted
<1>3. ASSUME NEW q \in Rnti, applied[a][q] # None, ~InBoot(applied[a][q])
      PROVE  Contract!Permitted(ContractDecision[a])
  <2>1. Restarted BY <1>3, DecisionNames
  <2>2. ASSUME NEW r \in Rnti
        PROVE  ContractDecision[a][r] \in {0, -1}
    <3>1. CASE applied[a][r] = None BY <1>0, <3>1, DecisionNames
    <3>2. CASE applied[a][r] # None
      <4>1. applied[a][r] = applied[a][q]
        BY <1>3, <3>2 DEF Promises, OneDecisionPerSlot, Controlled
      <4> QED BY <1>0, <1>3, <4>1, DecisionNames
    <3> QED BY <3>1, <3>2
  <2> QED BY <2>1, <2>2 DEF Contract!Permitted
<1> QED BY <1>1, <1>2, <1>3

\* The two facts, in a form that also holds of the next state.
LEMMA PromisesPermit ==
  ASSUME \A o \in TtiOffsets : o <= 0
  PROVE  Promises =>
           /\ \A a \in Apps : Contract!Permitted(ContractDecision[a])
           /\ \A a \in Apps, r \in Rnti : DecisionName(applied[a][r]) \in 0..MaxSlot \cup {-1}
BY AppliedPermitted, DecisionNames

\* Every step of the loop is a step of the contract or a stutter.
LEMMA StepRefines ==
  ASSUME \A o \in TtiOffsets : o <= 0, Promises, Promises', [Next]_vars
  PROVE  [Contract!Next]_(Contract!vars)
<1> USE DEF Contract!vars
<1>1. CASE StartSlot
  <2>1. ContractDecision' = ContractDecision /\ Restarted' = Restarted
    BY <1>1 DEF StartSlot, ContractDecision, DecisionName, Restarted
  <2>2. ContractPhase = "idle" /\ ContractPhase' = "decide"
    BY <1>1 DEF StartSlot, ContractPhase
  <2> QED BY <1>1, <2>1, <2>2 DEF StartSlot, Contract!Next, Contract!Begin
<1>2. CASE RecvMcs
  <2>1. ContractDecision' = ContractDecision /\ Restarted' = Restarted
    BY <1>2 DEF RecvMcs, histVars, ContractDecision, DecisionName, Restarted
  <2>2. ContractPhase' = ContractPhase BY <1>2 DEF RecvMcs, ContractPhase
  <2> QED BY <1>2, <2>1, <2>2 DEF RecvMcs, histVars
<1>3. CASE Schedule
  <2>1. ContractPhase = "decide" /\ ContractPhase' = "publish"
    BY <1>3 DEF Schedule, ContractPhase
  <2>2. UNCHANGED <<slot, published, Restarted>> BY <1>3 DEF Schedule, histVars, Restarted
  <2>3. (/\ \A a \in Apps : Contract!Permitted(ContractDecision[a])
         /\ \A a \in Apps, r \in Rnti : DecisionName(applied[a][r]) \in 0..MaxSlot \cup {-1})'
    BY PromisesPermit, PTL
  <2>4. ContractDecision' \in [Apps -> [Rnti -> 0..MaxSlot \cup {0, -1}]]
    BY <2>3 DEF ContractDecision
  <2>5. \A a \in Apps : Contract!Permitted(ContractDecision'[a])
    BY <2>2, <2>3 DEF Contract!Permitted, Contract!Window
  <2> QED BY <2>1, <2>2, <2>4, <2>5 DEF Contract!Next, Contract!Decide
<1>4. CASE SendTtiMetrics
  <2>1. ContractPhase = "publish" /\ ContractPhase' = "idle"
    BY <1>4 DEF SendTtiMetrics, ContractPhase
  <2>2. ContractDecision' = Contract!Default
    BY <1>4 DEF SendTtiMetrics, NoControl, None, ContractDecision, DecisionName, Contract!Default
  <2>3. /\ published' = [published EXCEPT ![slot] = ues] /\ ues \in SUBSET Rnti
        /\ Restarted' = Restarted
    BY <1>4 DEF SendTtiMetrics, Promises, IInv, TypeOK, Restarted
  <2> QED BY <1>4, <2>1, <2>2, <2>3
          DEF SendTtiMetrics, Contract!Next, Contract!Publish
<1>5. CASE RestartGnb
  <2>1. ContractPhase' = "idle" /\ slot' = 0 /\ published' = [s \in 0..MaxSlot |-> {}]
    BY <1>5 DEF RestartGnb, ContractPhase, Slots
  <2>2. ContractDecision' = Contract!Default
    BY <1>5 DEF RestartGnb, NoControl, None, ContractDecision, DecisionName, Contract!Default
  <2>3. Restarted' = TRUE
    BY <1>5 DEF RestartGnb, Restarted, Promises, IInv, TypeOK, Boots
  <2> QED BY <2>1, <2>2, <2>3 DEF Contract!Next, Contract!Restart
<1>6. CASE \/ \E r \in Rnti : AddUe(r) \/ RemoveUe(r)
           \/ \E a \in Apps : MuApp(a) \/ StopApp(a) \/ StartApp(a)
           \/ UNCHANGED vars
  <2>1. UNCHANGED <<boot, slot, pc, published, applied>>
    BY <1>6 DEF AddUe, RemoveUe, MuApp, GetMetrics, GetMetricsTimeout, SendControl,
         SendControlError, StopApp, StartApp, histVars, gnbVars, vars
  <2> QED BY <2>1 DEF ContractPhase, ContractDecision, DecisionName, Restarted
<1> QED BY <1>1, <1>2, <1>3, <1>4, <1>5, <1>6 DEF Next, RunSlot

\* The control loop implements ControlContract.
THEOREM LoopImplementsContract ==
  MaxSlot < TtiMod /\ (\A o \in TtiOffsets : o <= 0) => (Spec => ImplementsContract)
<1> SUFFICES ASSUME MaxSlot < TtiMod, \A o \in TtiOffsets : o <= 0
             PROVE  Spec => ImplementsContract
  OBVIOUS
<1>1. Init => Contract!Init
  BY DEF Init, Contract!Init, ContractPhase, ContractDecision, DecisionName, NoControl,
         None, Contract!Default, Slots, Restarted
<1>2. Spec => []Promises
  BY LoopInvariant, FreshControlAlways, OneDecisionAlways, PTL DEF Promises
<1>3. Promises /\ Promises' /\ [Next]_vars => [Contract!Next]_(Contract!vars)
  BY StepRefines
<1> QED BY <1>1, <1>2, <1>3, PTL DEF Spec, ImplementsContract, Contract!Spec
=============================================================================
