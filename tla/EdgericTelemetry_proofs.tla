----------------------- MODULE EdgericTelemetry_proofs -----------------------
(***************************************************************************)
(* Proofs about EdgericTelemetry, for every number of connections, indices *)
(* and ACKs.                                                               *)
(***************************************************************************)
EXTENDS EdgericTelemetry, TLAPS, FiniteSetTheorems, WellFoundedInduction

USE UeAssumption, IndexAssumption, SwitchAssumption

-----------------------------------------------------------------------------
(***************************************************************************)
(* The inductive invariant.  A report that RLC queued under a DU index is  *)
(* attributed to the right RNTI only because the index stays with its      *)
(* connection until the last such report has run, and because indices of   *)
(* live contexts differ; an ACK is exported exactly once only because the  *)
(* rows of a message are a snapshot that nothing changes before the reset. *)
(***************************************************************************)

\* A connection with a DU UE context, and one that RLC may report about.
Live(c) == du_st[c] \notin {"none", "gone"}
HasBearer(c) == du_st[c] \in {"active", "stopping", "removed"}

\* RNTIs count up, live contexts hold an index each, no two the same one.
IndexInv ==
  /\ \A c \in Conn : c > last_rnti => du_st[c] = "none"
  /\ \A c \in Conn : Live(c) => du_idx[c] \in DuIdx
  /\ \A c, d \in Conn : Live(c) /\ Live(d) /\ du_idx[c] = du_idx[d] => c = d

\* unregister_ue_by_rnti works on a UE that its context still names.
UnregInv ==
  /\ sched_pc \in {"unreg_rlc", "unreg_cp", "unreg_du"} <=> unreg # NoRnti
  /\ unreg # NoRnti => MetricsEnabled /\ du_st[unreg] = "stopping"

\* The index of a connection with bearers leads to it, or nowhere.
RlcInv ==
  /\ \A c \in rlc_push : HasBearer(c)
  /\ \A c \in Conn : HasBearer(c) => du_ue_to_rnti[du_idx[c]] \in {NoRnti, c}

DuMapExact ==
  MetricsEnabled =>
    \A i \in DuIdx : du_ue_to_rnti[i] # NoRnti =>
      /\ du_st[du_ue_to_rnti[i]] \in {"active", "stopping"}
      /\ du_idx[du_ue_to_rnti[i]] = i

CpMapExact ==
  \A i \in CpIdx : ue_index_to_rnti[i] # NoRnti => cp_idx[ue_index_to_rnti[i]] = i

\* A message under construction has one row for each UE already taken from
\* todo, with the ACKs still in its counter.
MsgInv ==
  /\ sched_pc # "export" => msg = {} /\ todo = {}
  /\ \A m \in msg : m.rnti \notin todo /\ m.ack = dl_acked[m.rnti]
  /\ sched_pc = "export" => mac_ue = todo \cup {m.rnti : m \in msg}

\* Rows are of UEs in the scheduler.
MacInv == MetricsEnabled => \A r \in mac_ue : InSched(r)

\* ACKs are counted from the UE's addition, in a row, and lost only with it.
AckInv ==
  /\ \A c \in Conn : dl_acked[c] # 0 => c \in mac_ue
  /\ \A c \in Conn : du_st[c] \in {"none", "adding"} => acks[c] = 0
  /\ \A c \in Conn : sent[c] + dl_acked[c] <= acks[c]
  /\ AcksExportedOnce

IInv == /\ TypeOK /\ IndexInv /\ UnregInv /\ RlcInv /\ RlcAttribution
        /\ DuMapExact /\ CpMapExact /\ MsgInv /\ MacInv /\ AckInv

-----------------------------------------------------------------------------
(* Operators *)

\* A non-empty set of naturals has a least element.
LEMMA Least ==
  ASSUME NEW T \in SUBSET Nat, T # {}
  PROVE  \E x \in T : \A y \in T : x <= y
<1> DEFINE R == {ss \in Nat \X Nat : ss[1] < ss[2]}
<1>1. IsWellFoundedOn(R, Nat)
  BY NatLessThanWellFounded DEF OpToRel
<1> HIDE DEF R
<1>2. PICK x \in T : \A y \in T : ~(<<y, x>> \in R)
  BY <1>1, WFMin, Zenon
<1>3. \A y \in T : ~(y < x)
  BY <1>2 DEF R
<1> QED
  BY <1>3

\* A round-robin position is a CU-CP index.
LEMMA CpIdxFromType ==
  ASSUME NEW k \in Nat, next_cp \in CpIdx
  PROVE  CpIdxFrom(k) \in CpIdx
BY DEF CpIdxFrom, CpIdx

\* The row send_tti_metrics adds for the lowest RNTI of todo.
ExportedRnti == CHOOSE x \in todo : \A y \in todo : x <= y

LEMMA ExportedRntiInTodo ==
  ASSUME TypeOK, todo # {}
  PROVE  ExportedRnti \in todo /\ ExportedRnti \in Conn
<1>1. todo \in SUBSET Nat BY DEF TypeOK, Conn
<1>2. \E x \in todo : \A y \in todo : x <= y BY <1>1, Least
<1>3. ExportedRnti \in todo BY <1>2, Zenon DEF ExportedRnti
<1> QED BY <1>3 DEF TypeOK

LEMMA ExportUeRow ==
  ASSUME TypeOK, ExportUe
  PROVE  \E row \in Row :
           /\ msg' = msg \cup {row}
           /\ row.rnti = ExportedRnti
           /\ row.ack = dl_acked[ExportedRnti]
<1> DEFINE r == ExportedRnti
           P == {i \in UpIdx : pdcp_drb[i] # NoRnti /\ RntiFromCuUp(i) = r}
           G == {i \in UpIdx : gtp_ue[i] # {} /\ RntiFromCuUp(i) = r}
           g == IF G = {} THEN {} ELSE gtp_ue[CHOOSE i \in G : \A j \in G : i <= j]
           row == [rnti |-> r, ack |-> dl_acked[r], rlc |-> rlc_drb[r], buf |-> r \in rlc_buf,
                   pdcp |-> {pdcp_drb[i] : i \in P}, gtp |-> g]
<1>1. r \in Conn BY ExportedRntiInTodo DEF ExportUe
<1>2. {pdcp_drb[i] : i \in P} \in SUBSET Conn
  <2>1. \A i \in P : pdcp_drb[i] \in Conn BY DEF TypeOK
  <2> HIDE DEF P
  <2> QED BY <2>1
<1>3. g \in SUBSET Conn
  <2>1. CASE G = {} BY <2>1
  <2>2. CASE G # {}
    <3>1. G \in SUBSET Nat BY DEF UpIdx
    <3>2. \E i \in G : \A j \in G : i <= j BY <2>2, <3>1, Least
    <3>3. (CHOOSE i \in G : \A j \in G : i <= j) \in G BY <3>2, Zenon
    <3>4. \A i \in G : gtp_ue[i] \in SUBSET Conn BY DEF TypeOK
    <3> QED BY <2>2, <3>3, <3>4
  <2> QED BY <2>1, <2>2
<1>4. /\ dl_acked[r] \in 0..MaxAck
      /\ rlc_drb[r] \in Conn \cup {NoRnti}
  BY <1>1 DEF TypeOK
<1>5. msg' = msg \cup {row} BY Zenon DEF ExportUe, ExportedRnti
<1> HIDE DEF P, G, g, r
<1>6. row \in Row BY <1>1, <1>2, <1>3, <1>4 DEF Row
<1>7. row.rnti = r /\ row.ack = dl_acked[r] OBVIOUS
<1> HIDE DEF row
<1> QED BY <1>5, <1>6, <1>7 DEF r

-----------------------------------------------------------------------------
(* Type correctness *)

\* What the message says of a UE's ACKs is what its counter still holds.
LEMMA ExportedIsCounted ==
  ASSUME TypeOK, MsgInv, AckInv, sched_pc = "export", todo = {}, NEW c \in Conn
  PROVE  Exported(c) = dl_acked[c]
<1>1. CASE \E m \in msg : m.rnti = c
  <2> DEFINE m == CHOOSE x \in msg : x.rnti = c
  <2>1. m \in msg /\ m.rnti = c BY <1>1, Zenon
  <2>2. Exported(c) = m.ack BY <1>1, Zenon DEF Exported
  <2> HIDE DEF m
  <2> QED BY <2>1, <2>2 DEF MsgInv
<1>2. CASE ~(\E m \in msg : m.rnti = c)
  <2>1. c \notin mac_ue BY <1>2 DEF MsgInv
  <2> QED BY <1>2, <2>1 DEF AckInv, Exported
<1> QED BY <1>1, <1>2

LEMMA InitInv == Init => IInv
<1> SUFFICES ASSUME Init PROVE IInv OBVIOUS
<1> USE DEF Init, NoRnti, NoIdx, DuIdx, CpIdx, UpIdx
<1>1. TypeOK BY DEF TypeOK, DuStates
<1>2. IndexInv /\ UnregInv /\ RlcInv BY DEF IndexInv, Live, UnregInv, RlcInv, HasBearer
<1>3. RlcAttribution BY DEF RlcAttribution
<1>4. DuMapExact BY DEF DuMapExact
<1>5. CpMapExact BY DEF CpMapExact
<1>6. MsgInv /\ MacInv BY DEF MsgInv, MacInv
<1>7. AckInv BY DEF AckInv, AcksExportedOnce, InSched
<1> QED BY <1>1, <1>2, <1>3, <1>4, <1>5, <1>6, <1>7 DEF IInv

LEMMA TypeStep ==
  ASSUME IInv, Next
  PROVE  TypeOK'
<1> USE DEF IInv, NoRnti, NoIdx
<1>1. CASE CreateDuUe
  <2>1. NextRnti \in Conn BY <1>1 DEF CreateDuUe, TypeOK, NextRnti, Conn
  <2>2. last_rnti' \in 0..MaxUe BY <1>1 DEF CreateDuUe, TypeOK, NextRnti
  <2> QED BY <1>1, <2>1, <2>2 DEF CreateDuUe, TypeOK, DuStates, macVars, rlcVars, mapVars,
             cuVars, schedVars, histVars
<1>2. ASSUME NEW c \in Conn, SchedAddUe(c) PROVE TypeOK'
  BY <1>2 DEF SchedAddUe, TypeOK, DuStates, macVars, rlcVars, cuVars, schedVars, histVars
<1>3. ASSUME NEW c \in Conn, StopBearers(c) \/ RemoveDuUe(c) PROVE TypeOK'
  BY <1>3 DEF StopBearers, RemoveDuUe, TypeOK, DuStates, macVars, rlcVars, mapVars, cuVars,
     schedVars, histVars
<1>4. ASSUME NEW c \in Conn, SchedRemoveUe(c) PROVE TypeOK'
  BY <1>4 DEF SchedRemoveUe, TypeOK, DuStates, macVars, rlcVars, mapVars, cuVars, histVars
<1>5. CASE UnregisterRlc
  BY <1>5 DEF UnregisterRlc, TypeOK, gnbVars, macVars, mapVars, cuVars, histVars
<1>6. CASE UnregisterCp
  BY <1>6 DEF UnregisterCp, TypeOK, gnbVars, macVars, rlcVars, cuVars, histVars
<1>7. CASE UnregisterDu
  BY <1>7 DEF UnregisterDu, TypeOK, E1apRnti, DuStates, macVars, rlcVars, histVars
<1>8. ASSUME NEW c \in Conn, Rlc(c) PROVE TypeOK'
  <2>1. CASE DlTraffic(c)
    BY <2>1 DEF DlTraffic, TypeOK, macVars, rlcVars, mapVars, cuVars, schedVars, histVars
  <2>2. CASE PushRlcMetrics(c)
    BY <2>2 DEF PushRlcMetrics, TypeOK, macVars, rlcVars, mapVars, cuVars, schedVars, histVars
  <2>3. CASE ReportRlcMetrics(c)
    BY <2>3 DEF ReportRlcMetrics, TypeOK, macVars, rlcVars, mapVars, cuVars, schedVars, histVars
  <2> QED BY <1>8, <2>1, <2>2, <2>3 DEF Rlc
<1>9. ASSUME NEW c \in Conn, RegisterUe(c) PROVE TypeOK'
  <2>1. PICK k \in 0..(NofCpUes - 1) :
          /\ cp_idx' = [cp_idx EXCEPT ![c] = CpIdxFrom(k)]
          /\ next_cp' = CpIdxFrom(k + 1)
          /\ ue_index_to_rnti' = [ue_index_to_rnti EXCEPT ![CpIdxFrom(k)] = c]
    BY <1>9 DEF RegisterUe
  <2>2. next_cp \in CpIdx BY DEF TypeOK
  <2>3. CpIdxFrom(k) \in CpIdx /\ CpIdxFrom(k + 1) \in CpIdx BY <2>2, CpIdxFromType
  <2> QED BY <1>9, <2>1, <2>3 DEF RegisterUe, TypeOK, macVars, rlcVars, cuVars, schedVars, histVars
<1>10. ASSUME NEW c \in Conn, UnregisterUe(c) PROVE TypeOK'
  BY <1>10 DEF UnregisterUe, TypeOK, macVars, rlcVars, cuVars, schedVars, histVars
<1>11. ASSUME NEW c \in Conn, AddCuUpUe(c) \/ RemoveCuUpUe(c) \/ CuUpUeStopped(c) PROVE TypeOK'
  BY <1>11 DEF AddCuUpUe, RemoveCuUpUe, CuUpUeStopped, TypeOK, macVars, rlcVars, mapVars, cuVars,
     schedVars, histVars
<1>12. ASSUME NEW c \in Conn, ReportPdcpMetrics(c) \/ ReportGtpPkt(c) PROVE TypeOK'
  BY <1>12 DEF ReportPdcpMetrics, ReportGtpPkt, TypeOK, gnbVars, macVars, rlcVars, mapVars,
     schedVars, histVars
<1>13. ASSUME NEW c \in Conn, DlHarqAck(c) PROVE TypeOK'
  <2>1. /\ sent[c] + dl_acked[c] = acks[c]
        /\ acks[c] < MaxAck
        /\ sent[c] \in 0..MaxAck /\ dl_acked[c] \in 0..MaxAck /\ acks[c] \in 0..MaxAck
    BY <1>13 DEF DlHarqAck, AckInv, AcksExportedOnce, TypeOK
  <2>2. dl_acked[c] + 1 \in 0..MaxAck /\ acks[c] + 1 \in 0..MaxAck BY <2>1
  <2> QED BY <1>13, <2>2 DEF DlHarqAck, TypeOK, gnbVars, rlcVars, mapVars, cuVars, schedVars
<1>14. CASE CollectTelemetry
  BY <1>14 DEF CollectTelemetry, TypeOK, gnbVars, mapVars, cuVars, histVars
<1>15. CASE ExportUe
  <2>1. PICK row \in Row : msg' = msg \cup {row} BY <1>15, ExportUeRow
  <2>2. todo' \in SUBSET Conn BY <1>15 DEF ExportUe, TypeOK
  <2>3. msg' \in SUBSET Row BY <2>1 DEF TypeOK
  <2> QED BY <1>15, <2>2, <2>3
          DEF ExportUe, TypeOK, gnbVars, macVars, rlcVars, mapVars, cuVars, histVars
<1>16. CASE SendTtiMetrics
  <2>1. \A c \in Conn : sent[c] + Exported(c) \in 0..MaxAck
    <3> SUFFICES ASSUME NEW c \in Conn PROVE sent[c] + Exported(c) \in 0..MaxAck OBVIOUS
    <3>1. Exported(c) = dl_acked[c] BY <1>16, ExportedIsCounted DEF SendTtiMetrics
    <3> QED BY <3>1 DEF AckInv, TypeOK
  <2>2. sent' \in [Conn -> 0..MaxAck] BY <1>16, <2>1 DEF SendTtiMetrics
  <2> QED BY <1>16, <2>2
          DEF SendTtiMetrics, TypeOK, gnbVars, rlcVars, mapVars, cuVars
<1> QED
  BY <1>1, <1>2, <1>3, <1>4, <1>5, <1>6, <1>7, <1>8, <1>9, <1>10, <1>11, <1>12, <1>13, <1>14,
     <1>15, <1>16 DEF Next, Sched, Du, Cu

-----------------------------------------------------------------------------
(* Indices, bearers and the correlation maps *)

\* Actions that leave the DU UE contexts and the scheduler's removal alone.
OtherThanDu ==
  \/ UnregisterRlc \/ UnregisterCp \/ CollectTelemetry \/ ExportUe \/ SendTtiMetrics
  \/ \E c \in Conn : DlHarqAck(c) \/ Rlc(c) \/ Cu(c)

LEMMA OtherThanDuFrame ==
  ASSUME OtherThanDu
  PROVE  UNCHANGED <<last_rnti, du_st, du_idx, unreg, du_ue_to_rnti>>
BY DEF OtherThanDu, UnregisterRlc, UnregisterCp, CollectTelemetry, ExportUe, SendTtiMetrics,
   DlHarqAck, Rlc, DlTraffic, PushRlcMetrics, ReportRlcMetrics, Cu, RegisterUe, UnregisterUe,
   AddCuUpUe, RemoveCuUpUe, CuUpUeStopped, ReportPdcpMetrics, ReportGtpPkt, gnbVars, mapVars,
   schedVars

LEMMA NextCases ==
  ASSUME Next
  PROVE  \/ CreateDuUe \/ UnregisterDu \/ OtherThanDu
         \/ \E c \in Conn : SchedAddUe(c) \/ StopBearers(c) \/ SchedRemoveUe(c) \/ RemoveDuUe(c)
BY DEF Next, Sched, Du, OtherThanDu

\* The RNTI counter gives a connection that did not exist before.
LEMMA CreateDuUeFrame ==
  ASSUME TypeOK, IndexInv, CreateDuUe
  PROVE  /\ NextRnti \in Conn
         /\ du_st[NextRnti] = "none" /\ du_st'[NextRnti] = "adding"
         /\ \A d \in Conn : d # NextRnti => du_st'[d] = du_st[d] /\ du_idx'[d] = du_idx[d]
<1>1. NextRnti \in Conn /\ du_st[NextRnti] = "none"
  BY DEF CreateDuUe, TypeOK, IndexInv, NextRnti, Conn
<1> QED BY <1>1 DEF CreateDuUe, TypeOK

LEMMA IndexStep ==
  ASSUME IInv, Next
  PROVE  IndexInv'
<1> USE DEF IInv, IndexInv, Live
<1>1. CASE CreateDuUe
  <2>1. NextRnti \in Conn /\ last_rnti \in Nat
    BY <1>1 DEF CreateDuUe, TypeOK, NextRnti, Conn
  <2>2. PICK i \in DuIdx : i \notin UsedDuIdx /\ du_idx' = [du_idx EXCEPT ![NextRnti] = i]
    BY <1>1 DEF CreateDuUe
  <2>3. \A d \in Conn : Live(d) => du_idx[d] # i BY <2>2 DEF UsedDuIdx
  <2>4. last_rnti' = last_rnti + 1 /\ NextRnti = last_rnti + 1
    BY <1>1 DEF CreateDuUe, NextRnti
  <2>5. du_st' = [du_st EXCEPT ![NextRnti] = "adding"] BY <1>1 DEF CreateDuUe
  <2>6. \A c \in Conn : c > last_rnti' => du_st'[c] = "none"
    BY <2>1, <2>4, <2>5 DEF TypeOK, Conn
  <2>7. \A c \in Conn : c # NextRnti => du_st'[c] = du_st[c] /\ du_idx'[c] = du_idx[c]
    BY <2>2, <2>5 DEF TypeOK
  <2>8. du_idx'[NextRnti] = i BY <2>1, <2>2 DEF TypeOK
  <2> QED BY <2>1, <2>2, <2>3, <2>6, <2>7, <2>8
<1>2. ASSUME NEW c \in Conn, SchedAddUe(c) \/ StopBearers(c) \/ SchedRemoveUe(c)
      PROVE  IndexInv'
  BY <1>2 DEF SchedAddUe, StopBearers, SchedRemoveUe, TypeOK
<1>3. ASSUME NEW c \in Conn, RemoveDuUe(c) PROVE IndexInv'
  BY <1>3 DEF RemoveDuUe, TypeOK
<1>4. CASE UnregisterDu
  BY <1>4 DEF UnregisterDu, UnregInv, TypeOK
<1>5. CASE OtherThanDu
  BY <1>5, OtherThanDuFrame
<1> QED BY <1>1, <1>2, <1>3, <1>4, <1>5, NextCases

LEMMA UnregStep ==
  ASSUME IInv, Next
  PROVE  UnregInv'
<1> USE DEF IInv, UnregInv, NoRnti
<1>1. CASE CreateDuUe
  BY <1>1 DEF CreateDuUe, TypeOK, IndexInv, NextRnti, Conn, schedVars
<1>2. ASSUME NEW c \in Conn, SchedAddUe(c) \/ StopBearers(c) PROVE UnregInv'
  BY <1>2 DEF SchedAddUe, StopBearers, TypeOK, schedVars
<1>3. ASSUME NEW c \in Conn, SchedRemoveUe(c) PROVE UnregInv'
  BY <1>3 DEF SchedRemoveUe, TypeOK, Conn, macVars
<1>4. ASSUME NEW c \in Conn, RemoveDuUe(c) PROVE UnregInv'
  BY <1>4 DEF RemoveDuUe, TypeOK, schedVars
<1>5. CASE UnregisterDu
  BY <1>5 DEF UnregisterDu
<1>6. CASE OtherThanDu
  <2>1. UNCHANGED <<du_st, unreg>> BY <1>6, OtherThanDuFrame
  <2>2. (sched_pc \in {"unreg_rlc", "unreg_cp", "unreg_du"}) =
        (sched_pc' \in {"unreg_rlc", "unreg_cp", "unreg_du"})
    BY <1>6 DEF OtherThanDu, UnregisterRlc, UnregisterCp, CollectTelemetry, ExportUe,
       SendTtiMetrics, DlHarqAck, Rlc, DlTraffic, PushRlcMetrics, ReportRlcMetrics, Cu,
       RegisterUe, UnregisterUe, AddCuUpUe, RemoveCuUpUe, CuUpUeStopped, ReportPdcpMetrics,
       ReportGtpPkt, schedVars
  <2> QED BY <2>1, <2>2
<1> QED BY <1>1, <1>2, <1>3, <1>4, <1>5, <1>6, NextCases

LEMMA RlcStep ==
  ASSUME IInv, Next
  PROVE  RlcInv'
<1> USE DEF IInv, RlcInv, HasBearer, NoRnti
<1>1. CASE CreateDuUe
  BY <1>1, CreateDuUeFrame DEF CreateDuUe, TypeOK, mapVars
<1>2. ASSUME NEW c \in Conn, SchedAddUe(c) PROVE RlcInv'
  <2>1. /\ du_ue_to_rnti' = [du_ue_to_rnti EXCEPT ![du_idx[c]] = c]
        /\ du_st' = [du_st EXCEPT ![c] = "active"]
        /\ UNCHANGED <<du_idx, rlc_push>>
        /\ du_st[c] = "adding"
    BY <1>2 DEF SchedAddUe
  <2>2. \A d \in Conn : d # c /\ HasBearer(d) => du_idx[d] # du_idx[c]
    BY <2>1 DEF IndexInv, Live
  <2>3. \A d \in Conn : HasBearer(d) \/ d = c => du_idx[d] \in DuIdx
    BY <2>1 DEF IndexInv, Live
  <2> QED BY <2>1, <2>2, <2>3 DEF TypeOK
<1>3. ASSUME NEW c \in Conn, StopBearers(c) \/ SchedRemoveUe(c) PROVE RlcInv'
  BY <1>3 DEF StopBearers, SchedRemoveUe, TypeOK, mapVars
<1>4. ASSUME NEW c \in Conn, RemoveDuUe(c) PROVE RlcInv'
  BY <1>4 DEF RemoveDuUe, TypeOK, mapVars
<1>5. CASE UnregisterDu
  <2>1. \A d \in Conn : HasBearer(d) => du_idx[d] \in DuIdx BY DEF IndexInv, Live
  <2> QED BY <1>5, <2>1 DEF UnregisterDu, UnregInv, TypeOK
<1>6. CASE OtherThanDu
  <2>1. UNCHANGED <<du_st, du_idx, du_ue_to_rnti>> BY <1>6, OtherThanDuFrame
  <2>2. \A d \in rlc_push' : d \in rlc_push \/ HasDrb(d)
    BY <1>6 DEF OtherThanDu, UnregisterRlc, UnregisterCp, CollectTelemetry, ExportUe,
       SendTtiMetrics, DlHarqAck, Rlc, DlTraffic, PushRlcMetrics, ReportRlcMetrics, Cu,
       RegisterUe, UnregisterUe, AddCuUpUe, RemoveCuUpUe, CuUpUeStopped, ReportPdcpMetrics,
       ReportGtpPkt, gnbVars
  <2> QED BY <2>1, <2>2 DEF HasDrb
<1> QED BY <1>1, <1>2, <1>3, <1>4, <1>5, <1>6, NextCases

LEMMA AttributionStep ==
  ASSUME IInv, Next
  PROVE  RlcAttribution'
<1> USE DEF IInv, RlcAttribution, NoRnti
<1>1. ASSUME NEW c \in Conn, ReportRlcMetrics(c) PROVE RlcAttribution'
  <2>1. du_ue_to_rnti[du_idx[c]] \in {NoRnti, c} BY <1>1 DEF ReportRlcMetrics, RlcInv
  <2> QED BY <1>1, <2>1 DEF ReportRlcMetrics, TypeOK, rlcVars
<1>2. CASE CollectTelemetry
  BY <1>2 DEF CollectTelemetry, TypeOK
<1>3. CASE UnregisterRlc
  BY <1>3 DEF UnregisterRlc, TypeOK
<1>4. CASE UNCHANGED rlc_drb
  BY <1>4
<1>5. \/ UNCHANGED rlc_drb \/ UnregisterRlc \/ CollectTelemetry
      \/ \E c \in Conn : ReportRlcMetrics(c)
  BY DEF Next, Sched, Du, Rlc, Cu, SchedAddUe, SchedRemoveUe, DlHarqAck, UnregisterCp,
     UnregisterDu, ExportUe, SendTtiMetrics, CreateDuUe, StopBearers, RemoveDuUe, DlTraffic,
     PushRlcMetrics, RegisterUe, UnregisterUe, AddCuUpUe, RemoveCuUpUe, CuUpUeStopped,
     ReportPdcpMetrics, ReportGtpPkt, rlcVars
<1> QED BY <1>1, <1>2, <1>3, <1>4, <1>5

LEMMA DuMapStep ==
  ASSUME IInv, Next
  PROVE  DuMapExact'
<1> SUFFICES ASSUME MetricsEnabled PROVE DuMapExact' BY DEF DuMapExact
<1> USE DEF IInv, DuMapExact, NoRnti
<1>1. CASE CreateDuUe
  <2>1. UNCHANGED du_ue_to_rnti BY <1>1 DEF CreateDuUe, mapVars
  <2>2. \A i \in DuIdx : du_ue_to_rnti[i] # NoRnti => du_ue_to_rnti[i] \in Conn \ {NextRnti}
    BY <1>1, CreateDuUeFrame DEF TypeOK
  <2> QED BY <1>1, <2>1, <2>2, CreateDuUeFrame
<1>2. ASSUME NEW c \in Conn, SchedAddUe(c) PROVE DuMapExact'
  BY <1>2 DEF SchedAddUe, TypeOK
<1>3. ASSUME NEW c \in Conn, StopBearers(c) \/ SchedRemoveUe(c) PROVE DuMapExact'
  BY <1>3 DEF StopBearers, SchedRemoveUe, TypeOK, mapVars
<1>4. ASSUME NEW c \in Conn, RemoveDuUe(c) PROVE DuMapExact'
  BY <1>4 DEF RemoveDuUe, TypeOK, mapVars
<1>5. CASE UnregisterDu
  BY <1>5 DEF UnregisterDu, TypeOK
<1>6. CASE OtherThanDu
  BY <1>6, OtherThanDuFrame
<1> QED BY <1>1, <1>2, <1>3, <1>4, <1>5, <1>6, NextCases

LEMMA CpMapStep ==
  ASSUME IInv, Next
  PROVE  CpMapExact'
<1> USE DEF IInv, CpMapExact, NoRnti, NoIdx
<1>1. ASSUME NEW c \in Conn, RegisterUe(c) PROVE CpMapExact'
  <2>1. PICK k \in 0..(NofCpUes - 1) :
          /\ cp_idx' = [cp_idx EXCEPT ![c] = CpIdxFrom(k)]
          /\ ue_index_to_rnti' = [ue_index_to_rnti EXCEPT ![CpIdxFrom(k)] = c]
    BY <1>1 DEF RegisterUe
  <2>2. next_cp \in CpIdx BY DEF TypeOK
  <2>3. CpIdxFrom(k) \in CpIdx BY <2>2, CpIdxFromType
  <2>4. \A i \in CpIdx : ue_index_to_rnti[i] # c
    BY <1>1 DEF RegisterUe, CpIdx, Conn
  <2> QED BY <2>1, <2>3, <2>4 DEF TypeOK
<1>2. ASSUME NEW c \in Conn, UnregisterUe(c) PROVE CpMapExact'
  BY <1>2 DEF UnregisterUe, TypeOK
<1>3. CASE UnregisterCp
  BY <1>3 DEF UnregisterCp, TypeOK, gnbVars
<1>4. CASE UNCHANGED <<cp_idx, ue_index_to_rnti>>
  BY <1>4
<1>5. \/ UNCHANGED <<cp_idx, ue_index_to_rnti>> \/ UnregisterCp
      \/ \E c \in Conn : RegisterUe(c) \/ UnregisterUe(c)
  BY DEF Next, Sched, Du, Rlc, Cu, SchedAddUe, SchedRemoveUe, DlHarqAck, UnregisterRlc,
     UnregisterDu, CollectTelemetry, ExportUe, SendTtiMetrics, CreateDuUe, StopBearers,
     RemoveDuUe, DlTraffic, PushRlcMetrics, ReportRlcMetrics, AddCuUpUe, RemoveCuUpUe,
     CuUpUeStopped, ReportPdcpMetrics, ReportGtpPkt, mapVars, gnbVars
<1> QED BY <1>1, <1>2, <1>3, <1>4, <1>5

-----------------------------------------------------------------------------
(* Rows, messages and ACKs *)

\* Actions that do not touch the MAC rows, the message or the ACKs.
LEMMA StatsFrame ==
  ASSUME Next
  PROVE  \/ UNCHANGED <<mac_ue, dl_acked, todo, msg, acks, sent, sched_pc>>
         \/ UNCHANGED <<mac_ue, dl_acked, todo, msg, acks, sent>>
            /\ sched_pc # "export" /\ sched_pc' # "export"
         \/ CollectTelemetry \/ ExportUe \/ SendTtiMetrics
         \/ \E c \in Conn : SchedRemoveUe(c) \/ DlHarqAck(c)
BY DEF Next, Sched, Du, Rlc, Cu, SchedAddUe, UnregisterRlc, UnregisterCp, UnregisterDu,
   CreateDuUe, StopBearers, RemoveDuUe, DlTraffic, PushRlcMetrics, ReportRlcMetrics, RegisterUe,
   UnregisterUe, AddCuUpUe, RemoveCuUpUe, CuUpUeStopped, ReportPdcpMetrics, ReportGtpPkt,
   macVars, schedVars, histVars

LEMMA MsgStep ==
  ASSUME IInv, Next
  PROVE  MsgInv'
<1> USE DEF IInv, MsgInv
<1>1. CASE CollectTelemetry
  BY <1>1 DEF CollectTelemetry
<1>2. CASE ExportUe
  <2>1. PICK row \in Row : /\ msg' = msg \cup {row}
                           /\ row.rnti = ExportedRnti
                           /\ row.ack = dl_acked[ExportedRnti]
    BY <1>2, ExportUeRow
  <2>2. todo' = todo \ {ExportedRnti} /\ UNCHANGED <<mac_ue, dl_acked, sched_pc>>
    BY <1>2, Zenon DEF ExportUe, ExportedRnti, macVars
  <2>3. ExportedRnti \in todo BY <1>2, ExportedRntiInTodo DEF ExportUe
  <2>4. sched_pc = "export" BY <1>2 DEF ExportUe
  <2>5. {m.rnti : m \in msg'} = {m.rnti : m \in msg} \cup {ExportedRnti} BY <2>1
  <2>6. mac_ue = todo' \cup {m.rnti : m \in msg'} BY <2>2, <2>3, <2>4, <2>5
  <2>7. \A m \in msg' : m.rnti \notin todo' /\ m.ack = dl_acked[m.rnti] BY <2>1, <2>2
  <2> QED BY <2>2, <2>4, <2>6, <2>7
<1>3. CASE SendTtiMetrics
  BY <1>3 DEF SendTtiMetrics
<1>4. ASSUME NEW c \in Conn, SchedRemoveUe(c) PROVE MsgInv'
  BY <1>4 DEF SchedRemoveUe
<1>5. ASSUME NEW c \in Conn, DlHarqAck(c) PROVE MsgInv'
  BY <1>5 DEF DlHarqAck, schedVars
<1>6. CASE UNCHANGED <<mac_ue, dl_acked, todo, msg, acks, sent, sched_pc>>
  BY <1>6
<1>7. CASE /\ UNCHANGED <<mac_ue, dl_acked, todo, msg, acks, sent>>
           /\ sched_pc # "export" /\ sched_pc' # "export"
  BY <1>7
<1> QED BY <1>1, <1>2, <1>3, <1>4, <1>5, <1>6, <1>7, StatsFrame

\* A UE leaves the scheduler only when its removal starts, or with the metrics
\* disabled.
LEMMA InSchedKept ==
  ASSUME IInv, Next, MetricsEnabled, NEW r \in Conn, InSched(r)
  PROVE  InSched(r)' \/ SchedRemoveUe(r)
<1> USE DEF IInv, InSched, NoRnti
<1>1. CASE CreateDuUe
  BY <1>1, CreateDuUeFrame DEF CreateDuUe, schedVars
<1>2. ASSUME NEW c \in Conn, SchedAddUe(c) \/ StopBearers(c) \/ RemoveDuUe(c)
      PROVE  InSched(r)'
  BY <1>2 DEF SchedAddUe, StopBearers, RemoveDuUe, TypeOK, schedVars
<1>3. ASSUME NEW c \in Conn, SchedRemoveUe(c) PROVE InSched(r)' \/ SchedRemoveUe(r)
  BY <1>3 DEF SchedRemoveUe
<1>4. CASE UnregisterDu
  BY <1>4 DEF UnregisterDu, TypeOK, Conn
<1>5. CASE OtherThanDu
  BY <1>5, OtherThanDuFrame
<1> QED BY <1>1, <1>2, <1>3, <1>4, <1>5, NextCases

LEMMA MacStep ==
  ASSUME IInv, Next
  PROVE  MacInv'
<1> SUFFICES ASSUME MetricsEnabled, NEW r \in mac_ue' PROVE InSched(r)'
  BY DEF MacInv
<1>1. r \in mac_ue \/ InSched(r)
  <2>1. CASE CollectTelemetry BY <2>1 DEF CollectTelemetry
  <2>2. ASSUME NEW c \in Conn, SchedRemoveUe(c) PROVE r \in mac_ue
    BY <2>2 DEF SchedRemoveUe
  <2>3. ASSUME NEW c \in Conn, DlHarqAck(c) PROVE r \in mac_ue \/ InSched(r)
    BY <2>3 DEF DlHarqAck
  <2> QED BY <2>1, <2>2, <2>3, StatsFrame DEF ExportUe, SendTtiMetrics, macVars
<1>2. InSched(r) /\ r \in Conn
  <2>1. mac_ue' \in SUBSET Conn BY TypeStep DEF TypeOK
  <2> QED BY <1>1, <2>1 DEF IInv, MacInv
<1>3. ~SchedRemoveUe(r)
  BY DEF SchedRemoveUe
<1> QED BY <1>2, <1>3, InSchedKept

LEMMA AckStep ==
  ASSUME IInv, Next
  PROVE  AckInv'
<1> USE DEF IInv
<1>0. /\ \A c \in Conn : du_st'[c] \in {"none", "adding"} => du_st[c] \in {"none", "adding"}
      /\ \A c \in Conn : InSched(c)' => InSched(c) \/ du_st[c] = "adding"
  <2> USE DEF InSched, NoRnti
  <2>1. CASE CreateDuUe
    BY <2>1, CreateDuUeFrame DEF CreateDuUe, schedVars
  <2>2. ASSUME NEW c \in Conn, SchedAddUe(c) \/ StopBearers(c) \/ RemoveDuUe(c)
        PROVE  <1>0!:
    BY <2>2 DEF SchedAddUe, StopBearers, RemoveDuUe, TypeOK, schedVars
  <2>3. ASSUME NEW c \in Conn, SchedRemoveUe(c)
        PROVE  <1>0!:
    <3>1. unreg = NoRnti BY <2>3 DEF SchedRemoveUe, UnregInv
    <3>2. \/ UNCHANGED du_st
          \/ du_st' = [du_st EXCEPT ![c] = "removed"]
      BY <2>3 DEF SchedRemoveUe
    <3>3. \A d \in Conn : du_st'[d] = du_st[d] \/ du_st'[d] = "removed"
      BY <3>2 DEF TypeOK
    <3>4. \A d \in Conn : unreg # d BY <3>1 DEF Conn
    <3> QED BY <3>3, <3>4
  <2>4. CASE UnregisterDu
    BY <2>4 DEF UnregisterDu, UnregInv, TypeOK, Conn
  <2>5. CASE OtherThanDu
    BY <2>5, OtherThanDuFrame
  <2> QED BY <2>1, <2>2, <2>3, <2>4, <2>5, NextCases
<1>a. \A c \in Conn : /\ sent[c] \in 0..MaxAck /\ dl_acked[c] \in 0..MaxAck
                      /\ acks[c] \in 0..MaxAck
  BY DEF TypeOK
<1>b. \A c \in Conn : du_st[c] = "adding" => sent[c] + dl_acked[c] = acks[c]
  BY <1>a DEF AckInv
<1>c. \A c \in Conn : InSched(c)' => sent[c] + dl_acked[c] = acks[c]
  BY <1>0, <1>b DEF AckInv, AcksExportedOnce
<1>1. CASE UNCHANGED <<dl_acked, acks, sent>> /\ mac_ue \subseteq mac_ue'
  BY <1>0, <1>1, <1>c DEF AckInv, AcksExportedOnce
<1>2. CASE SendTtiMetrics
  <2>1. \A c \in Conn : sent'[c] = sent[c] + dl_acked[c]
    BY <1>2, ExportedIsCounted DEF SendTtiMetrics
  <2>2. /\ UNCHANGED acks
        /\ \A c \in Conn : dl_acked'[c] = 0
    BY <1>2 DEF SendTtiMetrics
  <2>3. \A c \in Conn : sent'[c] + dl_acked'[c] = sent[c] + dl_acked[c]
    BY <1>a, <2>1, <2>2
  <2> QED BY <1>0, <1>c, <2>2, <2>3 DEF AckInv, AcksExportedOnce
<1>3. ASSUME NEW r \in Conn, SchedRemoveUe(r) PROVE AckInv'
  <2>1. CASE MetricsEnabled
    <3>1. /\ mac_ue' = mac_ue \ {r}
          /\ dl_acked' = [dl_acked EXCEPT ![r] = 0]
          /\ unreg' = r
          /\ UNCHANGED <<acks, sent, du_st>>
      BY <1>3, <2>1 DEF SchedRemoveUe, histVars
    <3>2. \A c \in Conn : c # r => dl_acked'[c] = dl_acked[c] BY <3>1 DEF TypeOK
    <3>3. dl_acked'[r] = 0 BY <3>1 DEF TypeOK
    <3>4. \A c \in Conn : sent[c] + dl_acked'[c] <= acks[c]
      BY <1>a, <3>2, <3>3 DEF AckInv
    <3>5. ~InSched(r)' BY <3>1 DEF InSched
    <3>6. \A c \in Conn : dl_acked'[c] # 0 => c \in mac_ue' BY <3>1, <3>2, <3>3 DEF AckInv
    <3> QED BY <1>0, <1>c, <3>1, <3>2, <3>4, <3>5, <3>6 DEF AckInv, AcksExportedOnce
  <2>2. CASE ~MetricsEnabled
    <3>1. UNCHANGED <<dl_acked, acks, sent, mac_ue>>
      BY <1>3, <2>2 DEF SchedRemoveUe, macVars, histVars
    <3> QED BY <1>1, <3>1
  <2> QED BY <2>1, <2>2
<1>4. ASSUME NEW r \in Conn, DlHarqAck(r) PROVE AckInv'
  <2>1. /\ mac_ue' = mac_ue \cup {r}
        /\ dl_acked' = [dl_acked EXCEPT ![r] = dl_acked[r] + 1]
        /\ acks' = [acks EXCEPT ![r] = acks[r] + 1]
        /\ UNCHANGED <<sent, du_st>>
        /\ InSched(r)
    BY <1>4 DEF DlHarqAck, gnbVars
  <2>2. /\ \A c \in Conn : c # r => dl_acked'[c] = dl_acked[c] /\ acks'[c] = acks[c]
        /\ dl_acked'[r] = dl_acked[r] + 1 /\ acks'[r] = acks[r] + 1
    BY <2>1 DEF TypeOK
  <2>3. \A c \in Conn : sent[c] + dl_acked'[c] <= acks'[c] BY <1>a, <2>2 DEF AckInv
  <2>4. \A c \in Conn : InSched(c)' => sent[c] + dl_acked'[c] = acks'[c] BY <1>a, <1>c, <2>2
  <2>5. \A c \in Conn : dl_acked'[c] # 0 => c \in mac_ue' BY <2>1, <2>2 DEF AckInv
  <2>6. \A c \in Conn : du_st[c] \in {"none", "adding"} => acks'[c] = 0
    BY <2>1, <2>2 DEF AckInv, InSched
  <2> QED BY <1>0, <2>1, <2>3, <2>4, <2>5, <2>6 DEF AckInv, AcksExportedOnce
<1>5. CASE CollectTelemetry \/ ExportUe
  BY <1>1, <1>5 DEF CollectTelemetry, ExportUe, macVars, histVars
<1> QED BY <1>1, <1>2, <1>3, <1>4, <1>5, StatsFrame

-----------------------------------------------------------------------------
(* Theorems *)

\* The inductive invariant: indices, maps, message and counters agree in every
\* interleaving of the scheduler, RLC, CU-CP and CU-UP.
THEOREM TelemetryInvariant == Spec => []IInv
<1>1. Init => IInv BY InitInv
<1>2. IInv /\ [Next]_vars => IInv'
  <2> SUFFICES ASSUME IInv, [Next]_vars PROVE IInv' OBVIOUS
  <2>1. CASE Next
    BY <2>1, TypeStep, IndexStep, UnregStep, RlcStep, AttributionStep, DuMapStep, CpMapStep,
       MsgStep, MacStep, AckStep DEF IInv
  <2>2. CASE UNCHANGED vars
    <3> USE <2>2 DEF IInv, vars
    <3>1. TypeOK' BY DEF TypeOK
    <3>2. IndexInv' /\ UnregInv' /\ RlcInv'
      BY DEF IndexInv, Live, UnregInv, RlcInv, HasBearer
    <3>3. RlcAttribution' BY DEF RlcAttribution
    <3>4. DuMapExact' BY DEF DuMapExact
    <3>5. CpMapExact' BY DEF CpMapExact
    <3>6. MsgInv' BY DEF MsgInv
    <3>7. MacInv' /\ AckInv' BY DEF MacInv, AckInv, AcksExportedOnce, InSched
    <3> QED BY <3>1, <3>2, <3>3, <3>4, <3>5, <3>6, <3>7
  <2> QED BY <2>1, <2>2
<1> QED BY <1>1, <1>2, PTL DEF Spec

\* An RLC row describes the connection it is stored under, with the scheduler
\* metrics enabled or not (report_rlc_metrics, unregister_ue_by_rnti).
THEOREM RlcAttributionAlways == Spec => []RlcAttribution
BY TelemetryInvariant, PTL DEF IInv

\* With metrics enabled, only UEs of the scheduler have rows and are streamed
\* (send_tti_metrics).
THEOREM OnlyActiveAlways == MetricsEnabled => (Spec => []OnlyActiveUesStreamed)
<1> SUFFICES ASSUME MetricsEnabled PROVE Spec => []OnlyActiveUesStreamed OBVIOUS
<1>1. IInv => OnlyActiveUesStreamed BY DEF IInv, MacInv, MsgInv, OnlyActiveUesStreamed
<1> QED BY <1>1, TelemetryInvariant, PTL

\* Every ACK of a UE in the scheduler is exported once (inc_dl_ok,
\* send_tti_metrics).
THEOREM AcksExportedAlways == Spec => []AcksExportedOnce
BY TelemetryInvariant, PTL DEF IInv, AckInv

\* The state keeps its type, and with metrics enabled the correlation maps are
\* exact (register_du_ue, register_ue and the unregister calls).
THEOREM CorrelationAlways == Spec => []CorrelationExact
<1>1. IInv => CorrelationExact BY DEF IInv, DuMapExact, CpMapExact, CorrelationExact
<1> QED BY <1>1, TelemetryInvariant, PTL
=============================================================================
