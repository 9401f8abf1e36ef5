-------------------------- MODULE EdgericTelemetry --------------------------
(***************************************************************************)
(* The EdgeRIC agent's telemetry stores and their correlation by UE.       *)
(*                                                                         *)
(* Four layers report about a UE under four names: the scheduler under its *)
(* C-RNTI, RLC under the DU UE index, the CU-CP registers a CU-CP UE index *)
(* and PDCP and GTP-U report under the CU-UP UE index.  send_tti_metrics   *)
(* joins them under the RNTI.  The scheduler thread adds and removes UEs   *)
(* and exports; RLC, CU-CP and CU-UP threads run concurrently, each call   *)
(* atomic under its mutex or as a single map operation.                    *)
(*                                                                         *)
(* A connection is identified by its C-RNTI, which the DU allocates from a *)
(* counter and does not reuse within the bound.  A metrics row is          *)
(* abstracted to its OWNER, the connection whose traffic it describes.     *)
(* Each UE has one DRB.                                                    *)
(***************************************************************************)
EXTENDS Integers, FiniteSets

CONSTANTS
  MaxUe,           \* bound: connections, the RNTIs 1..MaxUe
  NofDuUes,        \* MAX_NOF_DU_UES: DU UE indices
  NofCpUes,        \* max_nof_ues: CU-CP UE indices
  NofUpUes,        \* MAX_NOF_UES: CU-UP UE indices
  MetricsEnabled,  \* cell_metrics_handler::enabled(), the --enable_sched option
  MaxAck           \* bound: DL HARQ ACKs per connection

ASSUME UeAssumption == MaxUe \in Nat
ASSUME IndexAssumption ==
  NofDuUes \in Nat \ {0} /\ NofCpUes \in Nat \ {0} /\ NofUpUes \in Nat \ {0}
ASSUME SwitchAssumption == MetricsEnabled \in BOOLEAN /\ MaxAck \in Nat

Conn == 1..MaxUe
NoRnti == 0                  \* no entry of a map, no row
DuIdx == 0..(NofDuUes - 1)
CpIdx == 0..(NofCpUes - 1)
UpIdx == 0..(NofUpUes - 1)
NoIdx == -1

VARIABLES
  \* the gNB, outside the agent
  last_rnti,       \* rnti_manager's counter: the connections so far
  du_st,           \* per connection, its life in the DU
  du_idx,          \* its DU UE index, while it has one
  cp_idx,          \* its CU-CP UE index, or NoIdx
  next_cp,         \* ue_manager::next_ue_index
  up_st,           \* per connection, its CU-UP context
  up_idx,          \* its CU-UP UE index, or NoIdx
  pending,         \* the connections with DL bytes pending in RLC
  rlc_push,        \* the connections with an RLC report queued on their executor
  \* the agent
  mac_ue,          \* keys of mac_ue
  dl_acked,        \* mac_ue[r].dl_harq_ack, 0 where there is no row
  rlc_drb,         \* owner of the RLC row of an RNTI
  rlc_buf,         \* the RNTIs whose RLC row has dl_buffer > 0
  du_ue_to_rnti, ue_index_to_rnti,
  pdcp_drb,        \* per CU-UP index, the owner of its PDCP row
  gtp_ue,          \* per CU-UP index, the connections its GTP counters count
  \* the scheduler thread
  sched_pc,        \* where it is
  unreg,           \* the RNTI that unregister_ue_by_rnti works on
  todo,            \* active_rntis still to be added to the message
  msg,             \* the rows of the message built so far
  \* history
  acks, sent       \* ACKs received, and exported, per connection

gnbVars == <<last_rnti, du_st, du_idx, cp_idx, next_cp, up_st, up_idx, pending, rlc_push>>
macVars == <<mac_ue, dl_acked>>
rlcVars == <<rlc_drb, rlc_buf>>
mapVars == <<du_ue_to_rnti, ue_index_to_rnti>>
cuVars == <<pdcp_drb, gtp_ue>>
schedVars == <<sched_pc, unreg, todo, msg>>
histVars == <<acks, sent>>
vars == <<last_rnti, du_st, du_idx, cp_idx, next_cp, up_st, up_idx, pending, rlc_push,
          mac_ue, dl_acked, rlc_drb, rlc_buf, du_ue_to_rnti, ue_index_to_rnti, pdcp_drb,
          gtp_ue, sched_pc, unreg, todo, msg, acks, sent>>

\* du_st: "adding" RNTI and index allocated, "active" in the scheduler,
\* "stopping" bearers stopped, "removed" gone from the scheduler (RLC bearers
\* still exist), "gone" DU UE context freed.
DuStates == {"none", "adding", "active", "stopping", "removed", "gone"}

Row == [rnti : Conn, ack : 0..MaxAck, rlc : Conn \cup {NoRnti}, buf : BOOLEAN,
        pdcp : SUBSET Conn, gtp : SUBSET Conn]

TypeOK ==
  /\ last_rnti \in 0..MaxUe
  /\ du_st \in [Conn -> DuStates]
  /\ du_idx \in [Conn -> DuIdx \cup {NoIdx}]
  /\ cp_idx \in [Conn -> CpIdx \cup {NoIdx}]
  /\ next_cp \in CpIdx
  /\ up_st \in [Conn -> {"none", "up", "stopping", "gone"}]
  /\ up_idx \in [Conn -> UpIdx \cup {NoIdx}]
  /\ pending \in SUBSET Conn
  /\ rlc_push \in SUBSET Conn
  /\ mac_ue \in SUBSET Conn
  /\ dl_acked \in [Conn -> 0..MaxAck]
  /\ rlc_drb \in [Conn -> Conn \cup {NoRnti}]
  /\ rlc_buf \in SUBSET Conn
  /\ du_ue_to_rnti \in [DuIdx -> Conn \cup {NoRnti}]
  /\ ue_index_to_rnti \in [CpIdx -> Conn \cup {NoRnti}]
  /\ pdcp_drb \in [UpIdx -> Conn \cup {NoRnti}]
  /\ gtp_ue \in [UpIdx -> SUBSET Conn]
  /\ sched_pc \in {"idle", "unreg_rlc", "unreg_cp", "unreg_du", "export"}
  /\ unreg \in Conn \cup {NoRnti}
  /\ todo \in SUBSET Conn
  /\ msg \in SUBSET Row
  /\ acks \in [Conn -> 0..MaxAck]
  /\ sent \in [Conn -> 0..MaxAck]

Init ==
  /\ last_rnti = 0
  /\ du_st = [c \in Conn |-> "none"]
  /\ du_idx = [c \in Conn |-> NoIdx]
  /\ cp_idx = [c \in Conn |-> NoIdx]
  /\ next_cp = 0
  /\ up_st = [c \in Conn |-> "none"]
  /\ up_idx = [c \in Conn |-> NoIdx]
  /\ pending = {}
  /\ rlc_push = {}
  /\ mac_ue = {}
  /\ dl_acked = [c \in Conn |-> 0]
  /\ rlc_drb = [c \in Conn |-> NoRnti]
  /\ rlc_buf = {}
  /\ du_ue_to_rnti = [i \in DuIdx |-> NoRnti]
  /\ ue_index_to_rnti = [i \in CpIdx |-> NoRnti]
  /\ pdcp_drb = [i \in UpIdx |-> NoRnti]
  /\ gtp_ue = [i \in UpIdx |-> {}]
  /\ sched_pc = "idle"
  /\ unreg = NoRnti
  /\ todo = {}
  /\ msg = {}
  /\ acks = [c \in Conn |-> 0]
  /\ sent = [c \in Conn |-> 0]

-----------------------------------------------------------------------------
(* DU: creation and deletion of a UE *)

\* Fault: the index is free as soon as the scheduler has removed the UE.
UsedDuIdx_FreedEarly ==
  {du_idx[c] : c \in {d \in Conn : du_st[d] \notin {"none", "removed", "gone"}}}

\* du_ue_manager::ue_db.
UsedDuIdx == {du_idx[c] : c \in {d \in Conn : du_st[d] \notin {"none", "gone"}}}

\* rnti_manager::allocate: a counter.
NextRnti == last_rnti + 1

\* The next RNTI and find_unused_du_ue_index, the lowest index without a UE
\* context.
CreateDuUe ==
  /\ last_rnti < MaxUe
  /\ last_rnti' = NextRnti
  /\ \E i \in DuIdx :
       /\ i \notin UsedDuIdx
       /\ \A j \in DuIdx : j < i => j \in UsedDuIdx
       /\ du_idx' = [du_idx EXCEPT ![NextRnti] = i]
  /\ du_st' = [du_st EXCEPT ![NextRnti] = "adding"]
  /\ UNCHANGED <<cp_idx, next_cp, up_st, up_idx, pending, rlc_push, macVars, rlcVars,
                 mapVars, cuVars, schedVars, histVars>>

\* ue_repository::add_ue calls register_du_ue.
SchedAddUe(c) ==
  /\ sched_pc = "idle"
  /\ du_st[c] = "adding"
  /\ du_st' = [du_st EXCEPT ![c] = "active"]
  /\ du_ue_to_rnti' = [du_ue_to_rnti EXCEPT ![du_idx[c]] = c]
  /\ UNCHANGED <<last_rnti, du_idx, cp_idx, next_cp, up_st, up_idx, pending, rlc_push,
                 macVars, rlcVars, ue_index_to_rnti, cuVars, schedVars, histVars>>

\* ue_deletion_procedure: stop_ue_bearer_traffic. The F1AP release command starts
\* it, after the CU-UP's bearer context release, or a re-establishment that moves
\* to another connection, with the bearer context still up.
StopBearers(c) ==
  /\ du_st[c] = "active"
  /\ du_st' = [du_st EXCEPT ![c] = "stopping"]
  /\ UNCHANGED <<last_rnti, du_idx, cp_idx, next_cp, up_st, up_idx, pending, rlc_push,
                 macVars, rlcVars, mapVars, cuVars, schedVars, histVars>>

\* ue_repository::slot_indication removes the UE, handle_ue_delete_complete
\* calls cell_metrics_handler::handle_ue_deletion, which calls
\* unregister_ue_by_rnti: it erases the MAC rows first.
SchedRemoveUe(c) ==
  /\ sched_pc = "idle"
  /\ du_st[c] = "stopping"
  /\ IF MetricsEnabled
     THEN /\ mac_ue' = mac_ue \ {c}
          /\ dl_acked' = [dl_acked EXCEPT ![c] = 0]
          /\ unreg' = c
          /\ sched_pc' = "unreg_rlc"
          /\ UNCHANGED du_st
     ELSE /\ du_st' = [du_st EXCEPT ![c] = "removed"]
          /\ UNCHANGED <<macVars, unreg, sched_pc>>
  /\ pending' = pending \ {c}
  /\ UNCHANGED <<last_rnti, du_idx, cp_idx, next_cp, up_st, up_idx, rlc_push, rlcVars,
                 mapVars, cuVars, todo, msg, histVars>>

\* unregister_ue_by_rnti: under rlc_mutex, the RLC rows of the RNTI.
UnregisterRlc ==
  /\ sched_pc = "unreg_rlc"
  /\ rlc_drb' = [rlc_drb EXCEPT ![unreg] = NoRnti]
  /\ rlc_buf' = rlc_buf \ {unreg}
  /\ sched_pc' = "unreg_cp"
  /\ UNCHANGED <<gnbVars, macVars, mapVars, cuVars, unreg, todo, msg, histVars>>

\* unregister_ue_by_rnti: the CU-CP entries that point to the RNTI.
UnregisterCp ==
  /\ sched_pc = "unreg_cp"
  /\ ue_index_to_rnti' = [i \in CpIdx |->
       IF ue_index_to_rnti[i] = unreg THEN NoRnti ELSE ue_index_to_rnti[i]]
  /\ sched_pc' = "unreg_du"
  /\ UNCHANGED <<gnbVars, macVars, rlcVars, du_ue_to_rnti, cuVars, unreg, todo, msg, histVars>>

\* e1ap_id_to_rnti composed with cu_up_ue_to_e1ap_id. No code calls
\* register_e1ap_rnti or register_cu_up_ue_e1ap: both maps stay empty.
E1apRnti(i) == NoRnti

\* Fault: the DU mapping of a released UE is kept.
UnregisterDu_KeepMapping ==
  /\ sched_pc = "unreg_du"
  /\ du_st' = [du_st EXCEPT ![unreg] = "removed"]
  /\ unreg' = NoRnti
  /\ sched_pc' = "idle"
  /\ UNCHANGED <<last_rnti, du_idx, cp_idx, next_cp, up_st, up_idx, pending, rlc_push,
                 macVars, rlcVars, mapVars, cuVars, todo, msg, histVars>>

\* unregister_ue_by_rnti: under du_ue_mutex the DU entries that point to the
\* RNTI, then the PDCP and GTP rows of the CU-UP indices that the E1AP maps
\* relate to it. The scheduler then reports the UE as removed.
UnregisterDu ==
  /\ sched_pc = "unreg_du"
  /\ du_ue_to_rnti' = [i \in DuIdx |->
       IF du_ue_to_rnti[i] = unreg THEN NoRnti ELSE du_ue_to_rnti[i]]
  /\ pdcp_drb' = [i \in UpIdx |-> IF E1apRnti(i) = unreg THEN NoRnti ELSE pdcp_drb[i]]
  /\ gtp_ue' = [i \in UpIdx |-> IF E1apRnti(i) = unreg THEN {} ELSE gtp_ue[i]]
  /\ du_st' = [du_st EXCEPT ![unreg] = "removed"]
  /\ unreg' = NoRnti
  /\ sched_pc' = "idle"
  /\ UNCHANGED <<last_rnti, du_idx, cp_idx, next_cp, up_st, up_idx, pending, rlc_push,
                 macVars, rlcVars, ue_index_to_rnti, todo, msg, histVars>>

\* du_ue_manager::remove_ue: the context and its RLC bearers are destroyed, the
\* index is free. A queued RLC report refers to the bearer: it has run before.
RemoveDuUe(c) ==
  /\ du_st[c] = "removed"
  /\ c \notin rlc_push
  /\ du_st' = [du_st EXCEPT ![c] = "gone"]
  /\ du_idx' = [du_idx EXCEPT ![c] = NoIdx]
  /\ UNCHANGED <<last_rnti, cp_idx, next_cp, up_st, up_idx, pending, rlc_push, macVars,
                 rlcVars, mapVars, cuVars, schedVars, histVars>>

-----------------------------------------------------------------------------
(* RLC *)

\* The DRB is set up after the bearer context of the CU-UP.
HasDrb(c) == du_st[c] \in {"active", "stopping"} /\ up_st[c] # "none"

\* Traffic arrives for a UE, or its RLC queue drains.
DlTraffic(c) ==
  /\ HasDrb(c)
  /\ unreg # c
  /\ pending' = IF c \in pending THEN pending \ {c} ELSE pending \cup {c}
  /\ UNCHANGED <<last_rnti, du_st, du_idx, cp_idx, next_cp, up_st, up_idx, rlc_push,
                 macVars, rlcVars, mapVars, cuVars, schedVars, histVars>>

\* push_tx_low_metrics and the like: the period's metrics are complete and the
\* report is queued on the UE executor. stop() stops the lower timers from the
\* cell executor, before the scheduler can remove the UE.
PushRlcMetrics(c) ==
  /\ HasDrb(c)
  /\ unreg # c
  /\ c \notin rlc_push
  /\ rlc_push' = rlc_push \cup {c}
  /\ UNCHANGED <<last_rnti, du_st, du_idx, cp_idx, next_cp, up_st, up_idx, pending,
                 macVars, rlcVars, mapVars, cuVars, schedVars, histVars>>

\* push_report calls report_rlc_metrics: dropped without a mapping, else the
\* row is overwritten, its dl_buffer with 0.
ReportRlcMetrics(c) ==
  /\ c \in rlc_push
  /\ rlc_push' = rlc_push \ {c}
  /\ LET r == du_ue_to_rnti[du_idx[c]]
     IN IF r = NoRnti
        THEN UNCHANGED rlcVars
        ELSE /\ rlc_drb' = [rlc_drb EXCEPT ![r] = c]
             /\ rlc_buf' = rlc_buf \ {r}
  /\ UNCHANGED <<last_rnti, du_st, du_idx, cp_idx, next_cp, up_st, up_idx, pending,
                 macVars, mapVars, cuVars, schedVars, histVars>>

-----------------------------------------------------------------------------
(* CU-CP and CU-UP *)

UsedCpIdx == {cp_idx[c] : c \in Conn} \ {NoIdx}

\* ue_manager::allocate_ue_index: round robin from next_ue_index.
CpIdxFrom(k) == (next_cp + k) % NofCpUes
FirstFree(k) == /\ CpIdxFrom(k) \notin UsedCpIdx
                /\ \A j \in 0..(k - 1) : CpIdxFrom(j) \in UsedCpIdx

\* The DU forwards the first UL-CCCH message once the scheduler has the UE;
\* update_du_ue calls register_ue.
RegisterUe(c) ==
  /\ du_st[c] = "active"
  /\ cp_idx[c] = NoIdx
  /\ \E k \in 0..(NofCpUes - 1) :
       /\ FirstFree(k)
       /\ cp_idx' = [cp_idx EXCEPT ![c] = CpIdxFrom(k)]
       /\ next_cp' = CpIdxFrom(k + 1)
       /\ ue_index_to_rnti' = [ue_index_to_rnti EXCEPT ![CpIdxFrom(k)] = c]
  /\ UNCHANGED <<last_rnti, du_st, du_idx, up_st, up_idx, pending, rlc_push, macVars,
                 rlcVars, du_ue_to_rnti, cuVars, schedVars, histVars>>

\* ue_manager::remove_ue calls unregister_ue, once the DU has answered.
UnregisterUe(c) ==
  /\ cp_idx[c] # NoIdx
  /\ du_st[c] = "gone"
  /\ ue_index_to_rnti' = [ue_index_to_rnti EXCEPT ![cp_idx[c]] = NoRnti]
  /\ cp_idx' = [cp_idx EXCEPT ![c] = NoIdx]
  /\ UNCHANGED <<last_rnti, du_st, du_idx, next_cp, up_st, up_idx, pending, rlc_push,
                 macVars, rlcVars, du_ue_to_rnti, cuVars, schedVars, histVars>>

\* CU-UP ue_manager::ue_db: a context that is being stopped is in it no more.
UsedUpIdx == {up_idx[c] : c \in {d \in Conn : up_st[d] = "up"}}

\* Bearer context setup: CU-UP ue_manager::add_ue, the lowest free index.
AddCuUpUe(c) ==
  /\ du_st[c] = "active"
  /\ cp_idx[c] # NoIdx
  /\ up_st[c] = "none"
  /\ \E i \in UpIdx :
       /\ i \notin UsedUpIdx
       /\ \A j \in UpIdx : j < i => j \in UsedUpIdx
       /\ up_idx' = [up_idx EXCEPT ![c] = i]
  /\ up_st' = [up_st EXCEPT ![c] = "up"]
  /\ UNCHANGED <<last_rnti, du_st, du_idx, cp_idx, next_cp, pending, rlc_push, macVars,
                 rlcVars, mapVars, cuVars, schedVars, histVars>>

\* CU-UP ue_manager::remove_ue: the index is free at once, the context stops
\* on its own executor.
RemoveCuUpUe(c) ==
  /\ up_st[c] = "up"
  /\ up_st' = [up_st EXCEPT ![c] = "stopping"]
  /\ UNCHANGED <<last_rnti, du_st, du_idx, cp_idx, next_cp, up_idx, pending, rlc_push,
                 macVars, rlcVars, mapVars, cuVars, schedVars, histVars>>

CuUpUeStopped(c) ==
  /\ up_st[c] = "stopping"
  /\ up_st' = [up_st EXCEPT ![c] = "gone"]
  /\ up_idx' = [up_idx EXCEPT ![c] = NoIdx]
  /\ UNCHANGED <<last_rnti, du_st, du_idx, cp_idx, next_cp, pending, rlc_push, macVars,
                 rlcVars, mapVars, cuVars, schedVars, histVars>>

\* pdcp_metrics_aggregator::push_report calls report_pdcp_metrics.
ReportPdcpMetrics(c) ==
  /\ up_idx[c] # NoIdx
  /\ pdcp_drb' = [pdcp_drb EXCEPT ![up_idx[c]] = c]
  /\ UNCHANGED <<gnbVars, macVars, rlcVars, mapVars, gtp_ue, schedVars, histVars>>

\* A GTP-U packet: report_gtp_dl_pkt or report_gtp_ul_pkt adds to the counters.
ReportGtpPkt(c) ==
  /\ up_idx[c] # NoIdx
  /\ gtp_ue' = [gtp_ue EXCEPT ![up_idx[c]] = @ \cup {c}]
  /\ UNCHANGED <<gnbVars, macVars, rlcVars, mapVars, pdcp_drb, schedVars, histVars>>

-----------------------------------------------------------------------------
(* The scheduler thread's slot *)

InSched(c) == du_st[c] \in {"active", "stopping"} /\ unreg # c

\* Fault: feedback is counted for a UE that has been removed.
DlHarqAck_NoCheck(c) ==
  /\ MetricsEnabled
  /\ sched_pc = "idle"
  /\ du_st[c] \in {"active", "stopping", "removed"}
  /\ acks[c] < MaxAck
  /\ mac_ue' = mac_ue \cup {c}
  /\ dl_acked' = [dl_acked EXCEPT ![c] = @ + 1]
  /\ acks' = [acks EXCEPT ![c] = @ + 1]
  /\ UNCHANGED <<gnbVars, rlcVars, mapVars, cuVars, schedVars, sent>>

\* handle_dl_harq_ack calls inc_dl_ok, for a UE it knows.
DlHarqAck(c) ==
  /\ MetricsEnabled
  /\ sched_pc = "idle"
  /\ InSched(c)
  /\ acks[c] < MaxAck
  /\ mac_ue' = mac_ue \cup {c}
  /\ dl_acked' = [dl_acked EXCEPT ![c] = @ + 1]
  /\ acks' = [acks EXCEPT ![c] = @ + 1]
  /\ UNCHANGED <<gnbVars, rlcVars, mapVars, cuVars, schedVars, sent>>

\* ue_scheduler_impl::run_slot: collect_ue_telemetry for every UE, and
\* set_drb_dl_buffer where bytes are pending; then send_tti_metrics begins.
CollectTelemetry ==
  /\ sched_pc = "idle"
  /\ LET U == {c \in Conn : InSched(c)}
         B == U \cap pending
     IN /\ mac_ue' = mac_ue \cup U
        /\ rlc_drb' = [r \in Conn |-> IF r \in B /\ rlc_drb[r] = NoRnti THEN r ELSE rlc_drb[r]]
        /\ rlc_buf' = rlc_buf \cup B
        /\ todo' = mac_ue \cup U
  /\ sched_pc' = "export"
  /\ UNCHANGED <<gnbVars, dl_acked, mapVars, cuVars, unreg, msg, histVars>>

\* The element of a set of integers with n smaller ones, or NoRnti.
Nth(S, n) ==
  LET E == {x \in S : Cardinality({y \in S : y < x}) = n}
  IN IF E = {} THEN NoRnti ELSE CHOOSE x \in E : TRUE

CpKeys == {i \in CpIdx : ue_index_to_rnti[i] # NoRnti}

\* get_rnti_from_cu_up_ue_index: the E1AP maps, else the CU-UP index taken as a
\* position among the registered CU-CP indices, else among the MAC's RNTIs.
RntiFromCuUp(i) ==
  CASE E1apRnti(i) # NoRnti -> E1apRnti(i)
    [] E1apRnti(i) = NoRnti /\ i < Cardinality(CpKeys) ->
         ue_index_to_rnti[CHOOSE k \in CpKeys : Cardinality({j \in CpKeys : j < k}) = i]
    [] OTHER -> Nth(mac_ue, i)

\* send_tti_metrics: the rows of one UE, each store read under its mutex. Of
\* the GTP rows that map to the RNTI only the first is taken.
ExportUe ==
  /\ sched_pc = "export"
  /\ todo # {}
  /\ LET r == CHOOSE x \in todo : \A y \in todo : x <= y
         P == {i \in UpIdx : pdcp_drb[i] # NoRnti /\ RntiFromCuUp(i) = r}
         G == {i \in UpIdx : gtp_ue[i] # {} /\ RntiFromCuUp(i) = r}
     IN /\ msg' = msg \cup {[rnti |-> r, ack |-> dl_acked[r], rlc |-> rlc_drb[r],
                             buf |-> r \in rlc_buf,
                             pdcp |-> {pdcp_drb[i] : i \in P},
                             gtp |-> IF G = {} THEN {}
                                     ELSE gtp_ue[CHOOSE i \in G : \A j \in G : i <= j]]}
        /\ todo' = todo \ {r}
  /\ UNCHANGED <<gnbVars, macVars, rlcVars, mapVars, cuVars, sched_pc, unreg, histVars>>

\* What the message says about a connection's ACKs.
Exported(c) == IF \E m \in msg : m.rnti = c
               THEN (CHOOSE m \in msg : m.rnti = c).ack ELSE 0

\* Fault: the counters are not reset after they are sent.
SendTtiMetrics_NoReset ==
  /\ sched_pc = "export"
  /\ todo = {}
  /\ sent' = [c \in Conn |-> sent[c] + Exported(c)]
  /\ msg' = {}
  /\ sched_pc' = "idle"
  /\ UNCHANGED <<gnbVars, macVars, rlcVars, mapVars, cuVars, unreg, todo, acks>>

\* send_tti_metrics: the message is published and the counters reset.
SendTtiMetrics ==
  /\ sched_pc = "export"
  /\ todo = {}
  /\ sent' = [c \in Conn |-> sent[c] + Exported(c)]
  /\ dl_acked' = [c \in Conn |-> 0]
  /\ msg' = {}
  /\ sched_pc' = "idle"
  /\ UNCHANGED <<gnbVars, mac_ue, rlcVars, mapVars, cuVars, unreg, todo, acks>>

-----------------------------------------------------------------------------
Sched == \/ \E c \in Conn : SchedAddUe(c) \/ SchedRemoveUe(c) \/ DlHarqAck(c)
         \/ UnregisterRlc \/ UnregisterCp \/ UnregisterDu
         \/ CollectTelemetry \/ ExportUe \/ SendTtiMetrics
Du == CreateDuUe \/ \E c \in Conn : StopBearers(c) \/ RemoveDuUe(c)
Rlc(c) == DlTraffic(c) \/ PushRlcMetrics(c) \/ ReportRlcMetrics(c)
Cu(c) == \/ RegisterUe(c) \/ UnregisterUe(c)
         \/ AddCuUpUe(c) \/ RemoveCuUpUe(c) \/ CuUpUeStopped(c)
         \/ ReportPdcpMetrics(c) \/ ReportGtpPkt(c)

Next == Sched \/ Du \/ \E c \in Conn : Rlc(c) \/ Cu(c)
Spec == Init /\ [][Next]_vars
-----------------------------------------------------------------------------
(* Properties *)

\* An RLC row describes the connection it is stored and exported under,
\* although RLC only knows an index that is reused and reports while the UE is
\* being removed: what du_ue_to_rnti is for.
RlcAttribution == \A r \in Conn : rlc_drb[r] \in {NoRnti, r}

\* edgeric-collector.md: "This ensures only active UEs have their metrics
\* streamed". Every UE that has a row or is in a message is in the scheduler.
OnlyActiveUesStreamed ==
  /\ \A r \in mac_ue : InSched(r)
  /\ \A m \in msg : InSched(m.rnti)

\* Every ACK of a UE is exported once: those sent in earlier messages and those
\* waiting for the next one add up to those received.
AcksExportedOnce ==
  \A c \in Conn : InSched(c) => sent[c] + dl_acked[c] = acks[c]

\* The state is of its type and, with metrics enabled, the maps are exact: a DU
\* index leads to the connection that holds it in the scheduler, a CU-CP index
\* to the one that holds it in the CU-CP.
CorrelationExact ==
  /\ TypeOK
  /\ MetricsEnabled =>
    /\ \A i \in DuIdx : du_ue_to_rnti[i] # NoRnti =>
         /\ du_st[du_ue_to_rnti[i]] \in {"active", "stopping"}
         /\ du_idx[du_ue_to_rnti[i]] = i
    /\ \A i \in CpIdx : ue_index_to_rnti[i] # NoRnti => cp_idx[ue_index_to_rnti[i]] = i

\* edgeric-collector.md: "When a UE reconnects [...] it gets a new RNTI and
\* starts with fresh metrics". The PDCP and GTP figures in a message are of the
\* connection they are listed under.
CuUpAttribution == \A m \in msg : m.pdcp \subseteq {m.rnti} /\ m.gtp \subseteq {m.rnti}
=============================================================================
