# EdgeRIC-srsRAN: a TLA+ development

This directory specifies and verifies the part of the repository that is its
own: the EdgeRIC real-time control loop that is grafted onto the srsRAN gNB.
The gNB's scheduler publishes telemetry every TTI; small Python programs
(muApps) answer with scheduling weights or MCS overrides; the scheduler applies
them if they are still fresh. The modules below model the loop, the telemetry
stores and the weighted allocation of resource blocks, and then the gNB state
machines around it: those that decide which UEs the loop may act on (slices, UE
groups, HARQ processes) and those whose figures it publishes (RLC, PDCP).

Tools: `tlasany M.tla`, `tlc -config X.cfg M`, `tlapm M.tla`.

## 1. Inventory

| Part | State it keeps | Operations | Interacts with |
|---|---|---|---|
| EdgeRIC agent, control path (`lib/edgeric/edgeric.cpp`) | `tti_cnt`, `er_weights_tti`, `er_mcs_tti`, `weights_recved`, `mcs_recved`, two ZeroMQ subscribers | `setTTI`, `get_weights_from_er`, `get_mcs_from_er`, `are_*_fresh`, `get_weights`, `get_mcs` | called by the scheduler; receives from the muApps |
| EdgeRIC agent, telemetry path (same file) | `mac_ue`, `mac_drb`, `rlc_drb`, `pdcp_drb`, `gtp_ue`, the correlation maps `du_ue_to_rnti`, `ue_index_to_rnti`, `e1ap_id_to_rnti`, `cu_up_ue_to_e1ap_id` | the `set_*`, `inc_*` and `report_*` calls, `register_*`, `unregister_ue_by_rnti`, `send_tti_metrics` | written by the scheduler, RLC, CU-CP and CU-UP threads; published to the muApps |
| Slot loop (`lib/scheduler/cell_scheduler.cpp`) | `tti_counter` | `run_slot` | calls the agent before and after UE scheduling |
| muApps (`edgeric/muapp-scheduling`, `edgeric/muapp-mcs`) | `current_tti`, `last_metrics`, `ran_index` | `get_metrics`, a decision, `send_weights` / `send_mcs` | telemetry in, control out |
| Intra-slice scheduler (`lib/scheduler/ue_scheduling/intra_slice_scheduler.cpp`) | used VRBs, attempts, pending grants | `slot_indication`, `dl_sched`, `ul_sched`, `post_process_results` | calls the grid allocator and the policy |
| Weighted RBs (`grant_params_selector.cpp`, `rb_helper.h`) | `count_tti`, `this_tti_unused_crbs` | `compute_newtx_dl_vrbs`, `find_empty_interval_of_length` | reads the agent's weights |
| Grid allocator (`ue_cell_grid_allocator.cpp`) | grants of the slot, HARQ processes, PDCCH and UCI reservations | `allocate_dl_grant`, `set_pdsch_params`, `post_process_results` | reads the agent's MCS overrides |
| UE groups (`intra_slice_scheduler.cpp`, `slice_ue_group_scheduler`) | `group_offset`, the DL and UL counts, last SFN | `fill_ue_candidate_group` | offers the policy part of a slice's UEs |
| Inter-slice scheduler (`lib/scheduler/slicing`) | candidate queues, RB counters per slice and slot, dedicated RBs per slot | `slot_indication`, `get_next_candidate`, `store_*_grant`, UE addition and removal, reconfiguration | offers RBs to the intra-slice scheduler |
| HARQ manager (`lib/scheduler/cell/cell_harq_manager.cpp`) | processes, free ids, timeout wheel, reTx list | new transmission, reTx, `dl_ack_info`, `ul_crc_info`, timeouts, cancellation, UE removal | filled by grants, emptied by UCI, CRC and error indications; the UE repository waits for it |
| RLC AM (`lib/rlc/rlc_{tx,rx}_am_entity.cpp`) | windows, retx_queue, poll and status state, three timers | SDUs, `pull_pdu`, data and STATUS PDUs, timers | MAC below, PDCP above, the peer across the air |
| PDCP receiver (`lib/pdcp/pdcp_entity_rx.cpp`) and the CU-UP procedures (`lib/cu_up`) | RX_NEXT, RX_DELIV, RX_REORD, window, crypto tokens, buffered PDUs, keys | `handle_pdu`, crypto workers, `apply_reordering`, t-Reordering, key change, release | UE executors, a pool of crypto workers, control coroutines |
| UE lifecycle (DU UE manager, CU-CP and CU-UP UE managers, scheduler UE repository) | UE contexts and their indices | creation, deletion, index allocation | register and unregister UEs with the agent |
| The rest of srsRAN | protocol procedures, PHY, RU, E2, ... | upstream | not changed by EdgeRIC |

Every part, also those left out, is listed with its status in `PROJECT.json`.

What is hard, and what makes each part correct:

* **Control path.** Telemetry may be lost, decisions may be late, repeated or
  queued, a muApp or the gNB may restart, UEs come and go. The staleness test
  on a tag is the only protection. Correct means: what is applied in a slot was
  computed from recent telemetry of this gNB, for a UE that telemetry listed,
  all from one decision; and control of a silent muApp ends.
* **Telemetry path.** Four layers on several threads name a UE in four ways,
  and the names are reused. Correct means: figures are exported under the UE
  they belong to, only for UEs that exist, and counters exactly once.
* **Weighted allocation.** Stage 1 selects UEs from estimates, stage 2 places
  VRBs on a fragmented grid with carried-over remainders. Correct means: grants
  do not overlap or exceed the slice, the assertions hold, reserved control
  resources are not wasted, weights have the documented effect.
* **UE groups.** One offset serves two directions that visit different numbers
  of UEs, over indices with holes, while UEs come and go. Correct means: no UE
  that stays ready is passed over for more than a round.
* **Inter-slice scheduler.** PUSCHs are granted slots ahead, several PUSCH slots
  from one PDCCH slot; counters live in rings, slots may be skipped, limits may be
  reconfigured, retransmissions keep their size. Correct means: a counter is that of
  its slot, newTxs do not take a slice over its maximum, minimums come first and dedicated RBs are kept free.
* **HARQ manager.** Reports are late, lost, doubled or for a grant that was taken
  back; processes are reused; timeouts sit in a wheel. Correct means: no process
  leaks or is granted twice, a report reaches the transmission it is about, an
  acknowledged or cancelled block is not sent again, and a leaving UE is removed.
* **RLC AM.** Data and STATUS PDUs are lost and overtake each other, SNs wrap,
  SDUs are segmented to any grant, STATUS PDUs cut to any grant. Correct means:
  delivered once, acknowledged only if delivered, no assertion fails, and the
  transmitter keeps asking until it has an answer.
* **PDCP receiver.** Three executors handle a PDU, the workers in any order, while
  a procedure changes the keys or ends the UE. Correct means: SDUs go up in order
  and once, with the right COUNT; a gap is given up in the end; a procedure waits
  for all tasks that use the old keys, and does end.

## 2. Modules

| Module | Models | Depends on |
|---|---|---|
| `EdgericControl` | the control loop: `run_slot`'s EdgeRIC steps, the two subscribers, the staleness test, the muApps, restarts and churn | `ControlContract` (INSTANCE) |
| `ControlContract` | what the loop promises: per slot and channel nothing, or decisions based on one of the last `Threshold` slots; after a restart also those of an earlier incarnation | |
| `EdgericControl_proofs` | theorems about `EdgericControl` | `EdgericControl`, `TLAPS` |
| `EdgericTelemetry` | the agent's stores and maps, the lifecycle of UEs in DU, CU-CP and CU-UP, the concurrent reports, export and reset | |
| `EdgericTelemetry_proofs` | theorems about `EdgericTelemetry` | `EdgericTelemetry`, `TLAPS` |
| `SliceAllocation` | a slot of DL allocation: reTxs, stage 1, stage 2, over several slice opportunities | |
| `SliceAllocation_proofs` | theorems about `SliceAllocation` | `SliceAllocation`, `TLAPS` |
| `UeGroup` | the round-robin pre-selection of UEs in front of `SliceAllocation`'s stage 1, for DL and UL | |
| `InterSlice` | the sequence of slice opportunities that `SliceAllocation` takes as given | |
| `HarqManager` | the HARQ processes of one UE in one direction, and the removal of the UE | |
| `UeGroup_proofs`, `InterSlice_proofs`, `HarqManager_proofs`, `RlcAm_proofs`, `PdcpRx_proofs` | theorems about the module of the same name | that module, `TLAPS` |
| `RlcAm` | both AM entities of one direction of a bearer, and the air between them | |
| `PdcpRx` | the receiving PDCP entity of a DRB, its crypto tokens, the key change and the release | |
| `MC_Control`, `MC_Telemetry`, `MC_SliceAllocation`, `MC_UeGroup`, `MC_InterSlice`, `MC_HarqManager`, `MC_RlcAm`, `MC_PdcpRx` | the finite instances TLC checks | the module of the same name |

### EdgericControl

`StartSlot`, `RecvMcs`, `Schedule` and `SendTtiMetrics` are the steps of
`cell_scheduler::run_slot`, in this order (`pc`); muApps, UE attachment,
release and restarts interleave with them. `recved` and `er_tti` are the maps
and tags of the agent; `queue` is a subscriber socket of the gNB, `box` the
conflated subscriber of a muApp, `seen` a muApp's `current_tti` and
`last_metrics`. A weight or MCS is abstracted to its *basis*, the telemetry it
was computed from: `boot` (the gNB incarnation) and `slot`. The code sees only
the tag `tti`; the basis is what properties compare the tag with. Both channels
are the same code twice and one parameterised set of actions here; they differ
in that an MCS row may be 255 ("no override"), and in what a tag that is no
uint32 does (the weights muApp catches the exception, the MCS muApp ends). Each
muApp is started with an offset (`tti_offset`, `--tti-offset`), 0 in operation.

`edgeric::init` sets `conflate` after `connect`, where ZeroMQ need not apply it
to the existing connection: `ControlConflated` covers both outcomes, and
`SubHwm` is the length of the queue if it is not applied. Telemetry is published
with `dontwait` and conflated: `SendTtiMetrics` reaches any subset of the
running muApps and overwrites what was not read.

### EdgericTelemetry

One action per call that reaches the agent, and the lifecycle steps that order them.
`unregister_ue_by_rnti` takes several mutexes in turn and is four steps
(`SchedRemoveUe` with the MAC rows, `UnregisterRlc`, `UnregisterCp`,
`UnregisterDu`); `send_tti_metrics` is one step per UE (`ExportUe`) plus the
publication and reset. A metrics row is abstracted to its owner, the connection
whose traffic it describes. RLC reports are queued on the UE executor (`rlc_push`)
and run later. The deletion of a DU UE does not wait for the CU-UP: at a
re-establishment the old DU UE goes while the bearer context is up. `E1apRnti` is
constantly "none" because nothing in the repository calls `register_e1ap_rnti` or
`register_cu_up_ue_e1ap`. `ue_index_to_rnti` has no lock in the code: each single
map operation is atomic in the model, the undefined behaviour of the race is not
modelled.

### SliceAllocation

`dl_sched` for a sequence of slice opportunities. Abstracted: the policy, to an
arbitrary order of candidates (so the properties do not depend on it); MCS and TBS,
to the number of RBs needed; PDCCH, UCI and HARQ allocation, to success or one of
the failure causes of `allocate_dl_grant`. Kept: every loop exit, the attempts
counter across slices, the estimate with weights, the per-TTI capture in
`this_tti_unused_crbs`, the even share with carried-over remainder, the first-fit
search. `CrbLims` are the RBs within `pdsch_crb_limits`: those outside count as in
use from the start, and `UnusedCrbs` is the code's difference of the limits' length
and all RBs in use, which wraps below 0. Weights are in tenths. A negative weight
makes the float-to-unsigned conversion undefined; `Cast` takes 0 or a huge value.
The MCS failure of `set_pdsch_params` keeps the VRBs and is not distinguished.

### UeGroup

Each call of `fill_ue_candidate_group` is an action that takes the set of UEs
that are ready in that direction; the visit order, the truncation to the group,
the two counts, and the jump at a new SFN are as in the code. `watch`, `held`
and `wait` only observe: a UE and a direction chosen at the start, and for how
many frames in a row that UE was ready in every call and candidate in none.

### InterSlice

`slot_indication` clears rings and builds the queue, `get_next_candidate` pops an
entry, skips or narrows it and may put it back, the intra-slice scheduler grants
retransmissions, which keep their number of RBs, and then new transmissions from
what is left of the offer. DL and UL are two instances of one template and are checked
as two kinds of behaviour (`dir`). The low bits of a priority only order slices of
equal configured priority; here that order is arbitrary. `granted`, `served` and
`due` observe what was granted for which slot and who is still below its minimum.

### HarqManager

All slots are relative to `last_sl_ind`, which makes the state space finite without
a bound on time. `air` holds the outcome of each UL slot until it is delivered, in
one or two parts, replaced by an error indication, or lost. `Slot` is the order of
`ue_scheduler_impl::run_slot`: indications before the repository's slot, timeouts,
then grants. `Wheel` is a parameter, bound only by how the code sizes it; `early`
observes by which timer a process was discarded before its time. `Koffset` is the
cell's NTN offset: it is part of the delays, and `Wait` takes it off the timeout of a
new transmission but not of a retransmission, as the code does. Left out: HARQ mode B
of NTN cells, NDI, and the grant parameters kept for a retransmission.

### RlcAm

SNs are kept unwrapped and PDUs carry them modulo `Mod`; the entities recover them
relative to their window edges, as `tx_mod_base` and `rx_mod_base` do. A grant is
the number of payload bytes it has room for, or too small for any (`RetxDoesNotFit`
for a retransmission). `NackRange` is the limit on the SNs of one NACK, 255. `Loop`
is a `for` loop over a sequence (of `handle_status_pdu`, `handle_nack` and
`refresh_status_report`), a recursive function of the index. A PDU on the air is
lost at the latest when its SN would be taken for a newer one (`InLifetime`), as the
protocol assumes. `faults` collects the outcomes the code asserts against or reports
as protocol failure. Left out: notification of the buffer state, metrics, failed
allocations, `stop()`, and the UM and TM entities.

### PdcpRx

A PDU is a task of `handle_pdu` (COUNT), of a crypto worker (`crypto`) and of
`apply_reordering` (`ul`); each executor may refuse a task. `tok` is the token
manager, decremented one too far by the waiting procedure. The UE changes its key
before or after the CU-UP and, on AM bearers, sends again what was not delivered.
Assumed: the UE is never more than `Window` ahead of RX_DELIV and sends again only
SDUs less than `Window` behind the highest COUNT it used (its transmitting entity
keeps no others), integrity protection is on, a key change always comes with a
re-establishment (as the CU-CP sends it), and the procedures of one UE run one after
the other. Left out: the transmitting entity, SRBs, control PDUs and status reports,
`set_count` on a bearer in use, the maximum-COUNT notification.

## 3. Runs

| Run | Bounds | What it shows |
|---|---|---|
| `control` | weights channel, 2 UEs, 2 gNB incarnations of 5 slots, tag offset 0 or -3, control queue of 2 (conflate not applied), 2 attachments or releases, 1 muApp stop | control of the running incarnation is 1 or 2 slots old, for listed UEs and from one message, and none is applied with the offset; expired control stays expired; a stopped muApp's control expires, backlog included; the loop implements `ControlContract` |
| `telemetry` | 2 UEs, at once or in turn, 2 DU indices, 1 CU-CP and 1 CU-UP index, 1 ACK each | RLC attribution, only active UEs streamed, ACKs exported once, exact correlation maps |
| `slice_allocation` | 2 UEs (symmetric), 2 slice opportunities, 6 VRBs in 3 fragmentations, weights -0.2, 0, 0.3 or none, CRB limits that cover the BWP | the grant-size assertion, the quota, free VRBs only, only weights of 0 or less cancel |
| `ue_group` | 5 indices, groups of 2, any readiness, UEs come and go | a ready UE is considered within one round (`NoUeStarved`) |
| `inter_slice` | 2 slices of one priority, 3 RBs, a TDD period of 3 with one PDCCH slot and k2 of 1 and 2, up to 2 skipped slots, reconfigurations | `CountersExact`, `MinimumBeforeShared`, `DedicatedHonoured`, `MaximumKept` |
| `harq` | 2 processes, 1 reTx, ACK wait 2, short wait 1, reTx timeout 2, wheel of 4, no koffset, 1 skipped slot | `FreeStackExact`, `ReportFindsItsTransmission`, `EarlyOnlyBeyondWheel`, `AckedIsNotRetransmitted`, `NoRetxOnceCancelled`; a leaving UE is removed |
| `rlc_am` | 3 SDUs of 2 bytes, SNs modulo 4 that wrap, window 2, 1 reTx before failure, a poll every 2 PDUs, NACKs of up to 2 SNs, 2 PDUs in the air | `DeliveredOnce`, `AcknowledgedWasDelivered`, `RetxOnlyOfSentBytes`, `NoFault`, `AnswerIsAwaited` |
| `pdcp_rx` | AM and UM, t-Reordering 0, running, infinite; 4 SDUs per key from COUNT 6 (SNs modulo 8 wrap), 1 key change or release, 1 PDU in the air, 2 in the workers | `InOrderOnce`, `CountExact`, `TimerGuardsGap`, `NothingEvicted`, `NoTaskOutlives`; procedures end and gaps are given up |

The type invariants of the last five modules and of the telemetry are conjuncts of
`NoUeStarved`, `CountersExact`, `FreeStackExact`, `NoFault`, `TimerGuardsGap` and
`CorrelationExact`.

Why the bounds are enough. A message is fresh for `STALENESS_THRESHOLD` = 2 slots;
five slots hold telemetry, a queue of two late decisions and their expiry, and the
restarted gNB passes the tags of the old one. Offset -3 is beyond the threshold.
`StopWindow` keeps a muApp's stop early enough for the expiry to fall within the
slots; it is a bound, not code. Two connections suffice for the telemetry because
every confusion is between one UE and its successor or neighbour; one CU-CP index
and one CU-UP index force their reuse. Six VRBs with an isolated used VRB, or two
isolated free VRBs only, make every branch of the interval search occur, and quotas
of 3 and 6 with needs of 1 and 5 both exits of stage 1. Constants that are 8 and 4
in the code are parameters, lowered so that their limits are reached with two UEs;
the theorems of section 4 hold for any number of UEs and any limits. Five indices
and groups of two give holes, wraps in the middle of a group, and groups that do not
divide the slice. One PDCCH slot that serves two PUSCH slots in a ring of three
makes every ring entry be reused at once. No PUSCH slot is served by two PDCCH slots
there; the theorems on counters, minimums and maximums cover that. Two HARQ
processes are enough to take one for the other; the wheel has only as many slots as
the ACK timeout and the largest delay need. RLC and PDCP start just before their SNs
wrap; a window of two SNs fills and stalls, and two PDUs in the air overtake each
other. Two tasks in the crypto workers finish in either order, with a third PDU on
its way.

`CHECK_DEADLOCK FALSE` is used where the counters of the bounds end a behaviour
(control, telemetry, RLC and PDCP); slice allocation, UE groups, slices and HARQ
are cyclic and checked for deadlock.

Fairness. `control` assumes `WF_vars(RunSlot)` for `ControlExpires`: the PHY's slot
indication calls `run_slot` every slot. `harq` assumes `WF_vars(Slot)` for
`LeavingUeIsRemoved`, for the same reason; that reports ever arrive is not assumed.
`pdcp_rx` assumes `WF_vars(Work)`, one assumption for all executors, timers and
coroutines of the CU-UP together: not all stand still while one has something to do.
Nothing is assumed of muApps, UEs, the air or restarts. RLC AM has no fairness: with
an air that may lose everything, what it promises is to keep asking, which is the
safety property `AnswerIsAwaited`.

### Disagreements between documentation and code

These runs check a statement of the repository's comments or documents and end
in a counterexample; `PROJECT.json` quotes each statement.

| Run | What happens |
|---|---|
| `telemetry_cu_up_mixed` | PDCP and GTP figures appear under another UE |
| `slice_allocation_share` | with weights 0.7 and 0.3 the first UE gets half of the RBs and some stay unused |
| `slice_allocation_crb_lims` | RBs outside `pdsch_crb_limits` are subtracted twice: with free RBs a UE of positive weight gets none and loses its grant |
| `harq_retx_timeout` | a `harq_retx_timeout` longer than a turn of the wheel fires after the remainder: 200 ms, which the application accepts, are 400 slots at 30 kHz and fire after 80 |

A disagreement the repository has with itself: how old a weight may be.
`edgeric.h:316` ("Weight is only valid if: current_TTI - received_TTI <= 1"),
`edgeric_messenger.py:9` and `:295` ("RAN discards if current_TTI - received_TTI > 1")
say one slot; `STALENESS_THRESHOLD` (`edgeric.h:175`), which the code compares with,
and `muapp-scheduling/README.md:201` say two. `FreshControl` and the contract are
stated for two. With one TLC finds a counterexample of 15 states: a decision on the
telemetry of slot 1 is queued in slot 2 and applied in slot 3.

### Noted while modelling, without a run of their own

Agent:

* a decision from before a gNB restart becomes fresh when the new TTI counter
  reaches its tag, and likewise, when the 32-bit counter wraps, a message that was
  never replaced (`edgeric.h:174`: "If muApp stops sending, control messages expire
  and scheduler uses defaults");
* with scheduler metrics disabled nothing unregisters a released UE, which is
  streamed for ever (`edgeric-collector.md:474`); an RLC report between two steps of
  `unregister_ue_by_rnti` recreates a row that nothing erases (`edgeric.h:280`);
* a drained DL buffer is exported with its last value: it is only written when it is
  not zero (`ue_scheduler_impl.cpp:260`, where `edgeric-collector.md:295` says
  "Updated per-TTI"); nothing removes the PDCP and GTP rows of a released UE;
* the agent's statics and `tti_counter` (`cell_scheduler.cpp:30`) are shared by all
  cells; `scheduling_muapp.py:251` gives the best UE a negative priority with twelve
  UEs, and `:195` keeps average CQIs by position, so that a UE inherits another's;
* the RLC metrics collector sends a report when three period counters match
  (`rlc_bearer_metrics_collector.cpp:91`); a part that is missed delays them.

Inter-slice scheduler:

* when two PDCCH slots can target one PUSCH slot, dedicated RBs are counted twice;
  the unsigned `cell_max_rbs - count_rbs` then wraps and the limit is lost
  (`inter_slice_scheduler.cpp:325`); `DedicatedHonoured` is checked for one PDCCH
  slot and proved for patterns without such slots. That the dedicated ratios of all slices add up to at most 100 % is not
  validated.

HARQ: in an NTN cell the timeout of a retransmission includes the koffset twice, in
the delay and in the wait, and the wheel is sized for it once
(`cell_harq_manager.cpp:192`, `:343`, `:470`). With the 240 slots of a GEO cell at
15 kHz the timeout is 4 + 240 + 256 + 240 = 740 slots on a wheel of 640 and fires
after 100, before the report is due after 244. The UL process may then be discarded
before its PUSCH; the model sends no report for it.

RLC AM:

* trimming a STATUS PDU may leave a merged NACK range that still covers ACK_SN (with
  SDUs of three or more segments), and `valid_nack` then rejects the whole STATUS;
* a STATUS that acknowledges only older SDUs clears the `retx_queue`
  (`rlc_tx_am_entity.cpp:778`), with it a retransmission that was to carry the poll;
  nothing polls until there is new traffic. `AnswerIsAwaited` sets this case apart
  (`waived`);
* with `max_window` other than 0, `get_polling_bit` is evaluated (`:301`, `:457`)
  before `tx_next` is incremented (`:329`, `:491`), so `is_tx_window_full` (`:1219`)
  still sees room: the PDU that stalls the window carries no poll, although the
  comment at `:1103` asks for one "if no new RLC SDU can be transmitted after the
  transmission of the AMD PDU (e.g. due to window stalling)". TLC finds
  `AnswerIsAwaited` violated with `Window = 3`, `Mod = 6`, `MaxWindow = 1`,
  `PollPdu = 0`, `SnsPerStatus = 3` and the rest as in `rlc_am`: the poll timer
  expires while a segment is left to send, that segment goes out without a poll,
  and the next SDU waits for ever. The run and the proof are for `MaxWindow = 0`,
  the window of the SN field;
* `get_polling_bit` is called with the length of a buffer that has been moved away,
  so first transmissions count no bytes for pollByte; `get_status_pdu` sets the
  prohibit flag even if starting the timer could not be deferred; `retx_count` is
  compared with `==` and may step over its threshold (`:583`); at `:915` and `:922`
  the error is logged when the deferral succeeded.

PDCP and CU-UP:

* `remove_pdu_session` and `drbs.erase` destroy a PDCP entity without waiting for
  its crypto tasks (`pdu_session_manager_impl.cpp:595`, `:613`), which hold a pointer
  to it; key change and release do wait;
* after a UM re-establishment a PDU with an old SN makes HFN 0 - 1 underflow to a huge
  COUNT, which is reported as maximum COUNT; that report is never re-armed;
* with integrity off, PDUs of the other key are deciphered to garbage and passed up;
* if the uplink executor is full, the token is returned in a crypto worker, which then
  resumes the control coroutine outside the UE's strand.

## 4. Proofs

All theorems hold for every value of the constants that satisfies the stated
assumptions: any number of UEs, connections, slices, HARQ processes and slots, any
threshold, window, queue length, grid, weights, quotas, limits and bounds. Each
`*_proofs` module states its inductive invariant `IInv` as a conjunction of named
parts, proves one lemma per action (`...Step`) and combines them in `NextInv` or in
the first theorem; the properties follow from `IInv`, or from `IInv` and one step
for the action properties. The lemmas on sets of numbers that several modules need
(a least element, the rank of an element in a strict order) are proved from
well-foundedness of the naturals, without induction over an operator.

`EdgericControl_proofs`:

* `TypeCorrect`: `Spec => []TypeOK`. Typing alone is not inductive: a muApp about
  to send must have metrics (`SendHasMetrics`), or the message it sends has no
  type.
* `LoopInvariant`: `Spec => []IInv`. A staleness test on a tag says something
  about the basis only if tag and basis agree everywhere, so `IInv` says of the
  telemetry in the boxes and in the muApps, of the messages in the queues and of
  the received maps: the tag is the slot of the basis (plus the offset), the slot
  has been published, and the rows are among the UEs published in it, all within
  the running incarnation. Messages of earlier incarnations are exempt. The
  proof goes action by action; `HistoryGrows` and the stability lemmas carry the
  facts over steps that only extend the history.
* `FreshControlAlways` and `OneDecisionAlways` follow from `IInv`.
* `ExpiredStaysExpiredAlways`, an action property: while its socket delivers nothing
  a channel keeps its map and tag (`QuietStep`), and a tag that is not ahead of the
  TTI counter only gets older.
* `LoopImplementsContract`: the refinement of `ControlContract`.

Assumptions: `MaxSlot < TtiMod` (the TTI counter does not wrap; with a wrap an
old message becomes fresh again and the statements are false), and offsets of 0 or
less for expiry and the contract (a tag of the future becomes fresh by itself). Any
number of restarts: the statements are about control of the running incarnation, and
the contract leaves what an earlier one decided open. The MCS channel is covered by
the theorems; the run is for the weights.

`SliceAllocation_proofs`:

* `AllocationInvariant`: `Spec => []IInv`. The grant-size assertion is not
  inductive. It rests on two counting arguments. In stage 1 the estimate of each
  UE is one RB at least, so with `rb_count < rbs_to_alloc` fewer UEs than RBs are
  selected (`Stage1Inv`) and the even share is positive. In stage 2
  (`Stage2Inv`) the grants before the k-th took, together with what the last
  one left over, at most k shares; n shares fit into `rbs_to_alloc`; and what is
  still to be allocated is available in the slice's quota and on the grid.
  A cancelled grant keeps these facts because neither `rb_count` nor
  `rbs_missing` changes.
* `AllocationTypes`, `GrantSizeAlways`, `WithinSliceQuotaAlways`,
  `OnlyZeroWeightAlways` and `FreeVrbsAlways` follow, with the lemmas on the
  interval search: `EmptyInterval` (the result is free, within the grid and at
  most as long as asked), `GapExists` (a free VRB lies in a gap, so the search
  succeeds) and `PlacedVrbs` (a grant reduces the unused VRBs by its length).

Assumptions: those on the constants in `SliceAllocation`; finitely many UEs,
candidates that need one RB at least, and quotas within the grid, as
`dl_sched` checks. `OnlyZeroWeightAlways` also assumes that the CRB limits cover the
BWP, their default; without that it is false (`slice_allocation_crb_lims`).

`EdgericTelemetry_proofs`:

* `TelemetryInvariant`: `Spec => []IInv`. None of the properties is inductive: what
  may be filed under an RNTI depends on how far the removal has come in the other
  components. `IndexInv` says which connection holds which DU, CU-CP and CU-UP
  index, `UnregInv` where `unregister_ue_by_rnti` is, `RlcInv` which indices the
  queued RLC reports can name, `DuMapExact` and `CpMapExact` what the maps hold
  meanwhile, `MsgInv`, `MacInv` and `AckInv` how a message under construction,
  the MAC rows and the ACK counters go together.
* `RlcAttributionAlways`, `AcksExportedAlways`, `CorrelationAlways` and, with
  metrics enabled, `OnlyActiveAlways` follow.

Assumption of `OnlyActiveAlways`: `MetricsEnabled`. Without it `remove_ue` of the
metrics handler, and so the unregistration, is not reached.

`UeGroup_proofs`:

* `UeGroupInvariant` and `NoUeStarvedAlways`. The bound on the wait needs to know
  how near the offset has come. `Dist` is the number of indices from the offset to
  the watched UE, going around. A ready UE that is passed over has at least
  `GroupSize` UEs before it, and no candidate that was counted lies beyond it
  (`PassedOver`), so the next jump is at least `GroupSize` and at most `Dist`
  (`JumpInv`, `Nearer`). Hence `wait * GroupSize + Dist < IdxMod` (`WaitInv`).

`InterSlice_proofs`:

* `InterSliceInvariant`: `Spec => []IInv`. The counters are exact because the ring
  holds one turn: the places of the slots ahead that some k2 reaches hold what was
  granted for them, all others are zero (`RingInv`), which is what makes the
  clearing in `slot_indication` sufficient when slots are skipped. The order of the
  queue is strict and total (`BeforeOrder`, `SortedLists`), and a slice below its
  minimum that has not had its turn has a candidate with the higher priority in
  the queue (`DueInv`); so an offer beyond a minimum leaves nobody due.
* `CountersExactAlways`, `MinimumBeforeSharedAlways`, and the action property
  `MaximumKeptAlways`: a slice is only granted RBs below its maximum and newTxs
  do not take it beyond, so at most the last retransmission exceeds it.
* `DedicatedHonouredAlways`, with an invariant of its own (`DedInv`): the counter of
  dedicated RBs of a slot is the sum of what the slices scheduled for it have
  (`SumInv`), because each slice has one candidate below its minimum (`OnceInv`) and
  `slot_indication` has cleared the place, which is behind a counter of an earlier
  turn by the time its PDCCH slot comes again (`DedRingInv`, `SourceInv`). The lemmas
  on sums over a set (`SumSplit`, `SumSame`, `SumZero`) are proved from the recursive
  function behind `MapThenSumSet`, by a smallest set that would break them.
  Hypotheses: `SingleTarget`, a PUSCH slot is scheduled from one PDCCH slot only
  (`get_fairly_distributed_pusch_td_resource_indices` gives each UL slot to one in
  UL-heavy patterns); `DedicatedFit`, the dedicated RBs of all slices fit into the
  cell. Without either the difference `rem_rbs` underflows and the statement is false.

Assumptions: the sizes of the two rings divide the number at which slot numbers wrap
(`Slots`), each k2 is smaller than the ring, and fewer than `Slots` slots are skipped
at once.

`HarqManager_proofs`:

* `HarqInvariant`: `Spec => []IInv`. Every operation on a process either leaves it
  alone or answers it (`Answered`), so one lemma (`AnsweredStep`) carries the free
  stack (`FreeInv`), the processes (`ProcInv`) and the reports still to come over
  all of them. `UciInv` and `AirInv` say that a HARQ-ACK bit of a slot belongs to
  one process, which waits for it or has left it behind.
* `FreeStackExactAlways`, `ReportFindsItsTransmissionAlways`, and the action
  properties `AckedIsNotRetransmittedAlways` and `NoRetxOnceCancelledAlways`.
* `EarlyOnlyBeyondWheelAlways`, for every wheel the code can build, every
  `harq_retx_timeout` and koffset: the wheel compares slots modulo its size, so a timer
  is early only if it can be set to more than a turn. `ReportsAwaited`: its size
  (`cell_harq_manager.cpp:192`) rules that out for the report of a first transmission,
  and of a retransmission in a cell without koffset.

Assumptions: the wheel covers the largest delay plus the ACK timeout, the UE is
removed later than the largest delay, and `History < AckWait`: an error indication
is taken for a slot of the resource grid's history (`RING_MAX_HISTORY_SIZE`, 16)
and finds its process still waiting (`DEFAULT_ACK_TIMEOUT_SLOTS`, 256).

`RlcAm_proofs`:

* `RlcInvariant`: `Spec => []IInv`. `TxOK` and `RxOK` describe the two entities,
  `EdgeInv` puts the receiver's edge between what is acknowledged and what was sent,
  and everything else says which of these facts travel. SNs are recovered modulo
  `Mod` on both sides, so a data PDU is at most a window older than RX_Next
  (`AirInv`) and a STATUS at most a window older than TX_Next_Ack (`StatusInv`). A
  STATUS on the air stays true although it is old: it acknowledges up to its first
  NACK, which is not above RX_Next, and the SN of a NACK follows from its distance to
  ACK_SN (`NackSn`). The delicate part is the SDU under segmentation: a NACK that ends
  in it must ask for bytes already sent, or for an end of it that is cut (`NackOK`),
  or `handle_nack` would queue a retransmission of bytes that were never sent.
  `DeliveredInv` says that exactly the SDUs below RX_Next and the complete ones above
  were passed up. The loops (merging NACKs, trimming a STATUS, acknowledging,
  queueing retransmissions) are handled by a lemma each that gives the states they
  pass through; what holds after all turns follows from a first turn that would
  break it.
* `DeliveredOnceAlways`, `AcknowledgedWasDeliveredAlways`,
  `RetxOnlyOfSentBytesAlways` and `NoFaultAlways` follow.
* `AnswerIsAwaitedAlways`, for `MaxWindow = 0` (`PollInv`): if nothing is left to
  send, the last poll was for the last SN. With a limit the statement is false, as
  noted in section 3.

Assumptions: those on the constants (`Mod = 2 * Window`, `Window > 1`, a STATUS
covers at most a window) and the lifetime of PDUs in section 2.

`PdcpRx_proofs`:

* `PdcpInvariant`: `Spec => []IInv`. The COUNT of a PDU is inferred from its SN and
  RX_DELIV, so the argument is about distances: each PDU in the air or in an
  executor is at most a window ahead of RX_DELIV (`AheadInv`) and less than a window
  behind (`BehindInv`), and then the inferred COUNT is the sender's
  (`RcvdCountExact`). Two SDUs in the window have different places (`PlacesDiffer`),
  so nothing is evicted. `TokenInv` says that the tokens out are the tasks in the
  workers and in the uplink executor; `KeyInv` what the procedures know of them.
  `WindowInv`, `TimerInv` and `UpInv` describe window, timer and what was passed up
  between two tasks; within `handle_pdu` and `handle_t_reordering_expire` they hold
  only in a weaker form (`Open`), which delivery closes again.
* `InOrderOnceAlways`, `CountExactAlways`, `TimerGuardsGapAlways`, and the action
  properties `NoTaskOutlivesAlways` and `NothingEvictedAlways`.

Assumptions: those on the constants (the SN range is two windows, COUNT does not
reach its maximum) and on the UE in section 2.

Only model-checked:

* `ControlExpires`, `LeavingUeIsRemoved`, `ProcedureEnds` and `GapIsGivenUp`:
  liveness under fairness is outside the prover.

Every other property of a passing run is stated by a theorem.

## 5. Not modelled

* The weight and MCS values the muApps compute (`fixed_mcs` sends one MCS for all
  UEs of a message: an override is a property of the message here), and the
  collector, which prints what it receives.
* The placement of PUSCHs on the UL grid, a twin of `SliceAllocation` without
  weights; PDCCH, PUCCH, UCI, SRS and common-channel scheduling, whose outcome is a
  nondeterministic choice.
* The time-domain policy: candidates are taken in any order.
* The PDCP transmitter, RLC UM and TM, SDAP, GTP-U and NR-U.
* The protocol procedures of F1AP, E1AP, NGAP, RRC and the CU-CP, beyond what orders
  the agent's calls and the PDCP key change; PHY, fronthaul and radio, which are
  signal processing and I/O; ASN.1, which is generated. These are by far the most of
  the repository's 1.3 million lines, so the part that is modelled is small in
  lines: it is the part with state, concurrency and failure that the control loop
  rests on.
* Several cells: the agent's statics are shared between cells and would be
  updated by each of them.
* Reuse of an RNTI: the DU's counter is large and RNTIs are distinct in a run.

## 6. Plan

Done: the control loop with its contract; the telemetry correlation; the weighted
DL allocation; UE groups, the inter-slice scheduler, the HARQ manager, RLC AM and the
PDCP receiver, all model-checked and proved.

Next, in order:

1. the muApp algorithms as operators, checked against their docstrings (shares
   add up to one, priority of the best UE, ten or more UEs);
2. the RLC metrics collector: matching of the three period counters across
   threads;
3. the PDCP transmitter (discard timers, retransmission at re-establishment,
   tokens), and the UL placement.
