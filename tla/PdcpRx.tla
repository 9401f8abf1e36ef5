------------------------------- MODULE PdcpRx -------------------------------
(***************************************************************************)
(* The receiving PDCP entity of a DRB in the CU-UP (pdcp_entity_rx.cpp)    *)
(* with its crypto tokens (pdcp_crypto_token.h) and the procedures that    *)
(* change its keys or end it: the bearer context modification with a       *)
(* re-establishment, and the release of the UE.                            *)
(*                                                                         *)
(* A PDU takes three steps: handle_pdu gives it a COUNT on the UE's uplink *)
(* executor, a pool of crypto workers deciphers it in any order, and       *)
(* apply_reordering stores or delivers it, again on the uplink executor.   *)
(* A key change has to wait until no PDU is between the first and the last *)
(* step; PDUs that arrive meanwhile are buffered.  Integrity protection is *)
(* on: a PDU passes only with its own key and COUNT.                       *)
(***************************************************************************)
EXTENDS Integers, Sequences, FiniteSets, Functions

CONSTANTS
  Start,      \* COUNT at which the bearer starts (set_count), the previous ones
              \* having been delivered
  RlcModes,   \* of "am" and "um": the bearers to check
  Timers,     \* of "ms0", "running", "infinity": cfg.t_reordering
  Mod,        \* cardinality of the SN field
  Window,     \* window_size, and the capacity of rx_window
  CountMod,   \* 2^32: COUNT is an uint32_t
  MaxHard,    \* cfg.custom.max_count.hard
  BufferSize, \* capacity of pdu_buffer
  MaxSdus, MaxKey, InAir, InCrypto \* bounds: SDUs per key, keys, PDUs on their way

ASSUME PdcpAssumption ==
  /\ RlcModes \subseteq {"am", "um"}
  /\ Timers \subseteq {"ms0", "running", "infinity"}
  /\ {Window, InAir, InCrypto} \subseteq Nat \ {0}
  /\ {Start, BufferSize, MaxSdus, MaxKey, MaxHard, CountMod} \subseteq Nat
  /\ Mod = 2 * Window /\ CountMod % Mod = 0
  /\ Start + MaxSdus <= MaxHard /\ MaxHard < CountMod

Counts == 0 .. Start + MaxSdus - 1
Pdus == [key : 0 .. MaxKey, count : Counts]
SN(count) == count % Mod
HFN(count) == count \div Mod
COUNT(hfn, sn) == (hfn * Mod + sn) % CountMod

VARIABLES
  cfg,     \* RLC mode and t-Reordering of the bearer
  st,      \* RX_NEXT, RX_DELIV, RX_REORD, the window and its timer
  up,      \* the last SDU passed to SDAP
  ordered, \* observed: each SDU passed to SDAP was after the one before
  key,     \* number of the key in sec_engine_pool
  crypto,  \* PDUs given to the crypto executor
  ul,      \* tasks the crypto workers posted to the uplink executor
  tok,     \* the crypto token manager: granted tokens and its event
  ctl,     \* procedure under way; buffering, stopped; entity exists
  buffer,  \* pdu_buffer
  ue,      \* the UE: key, next COUNT and, on an AM bearer, the highest next
           \* COUNT it has had
  air      \* PDUs on their way from the UE

vars == <<cfg, st, up, ordered, key, crypto, ul, tok, ctl, buffer, ue, air>>

Init ==
  /\ cfg \in [rlc : RlcModes, t_reordering : Timers]
  /\ st = [next |-> Start, deliv |-> Start, reord |-> Start, window |-> {}, timer |-> FALSE]
  /\ up = [key |-> 0, count |-> Start - 1] /\ ordered = TRUE
  /\ key = 0 /\ crypto = {} /\ ul = << >>
  /\ tok = [tokens |-> 0, event |-> FALSE]
  /\ ctl = [proc |-> "idle", buffering |-> FALSE, stopped |-> FALSE, alive |-> TRUE]
  /\ buffer = << >>
  /\ ue = [key |-> 0, next |-> Start, top |-> Start] /\ air = {}

-----------------------------------------------------------------------------
(* rx_window is a circular map: an SDU takes the place of the one whose    *)
(* COUNT is the same modulo its capacity.                                  *)
Has(s, count) == \E w \in s.window : w.count = count
Put_Half(s, count, sdu) ==
  {w \in s.window : w.count % (Window \div 2) # count % (Window \div 2)}
    \cup {[count |-> count, sdu |-> sdu]}
Put(s, count, sdu) ==
  {w \in s.window : w.count % Window # count % Window}
    \cup {[count |-> count, sdu |-> sdu]}

(* SDUs in ascending order of their COUNT, as the delivery loops pass them *)
(* to the upper layer.                                                     *)
Ascending(W) ==
  [i \in 1 .. Cardinality(W) |->
     (CHOOSE w \in W : Cardinality({v \in W : v.count < w.count}) = i - 1).sdu]

DeliverBelow(s, count) ==
  [s EXCEPT !.deliv = count, !.window = {w \in @ : w.count >= count}]

deliver_all_consecutive_counts(s) ==
  DeliverBelow(s, CHOOSE n \in s.deliv .. s.next :
                    /\ n = s.next \/ ~Has(s, n)
                    /\ \A m \in s.deliv .. n - 1 : Has(s, m))

handle_t_reordering_expire_NoRestart(s) ==
  [deliver_all_consecutive_counts(DeliverBelow(s, s.reord)) EXCEPT !.timer = FALSE]

(* The timer does not run when its callback is called.                     *)
handle_t_reordering_expire(s) ==
  LET d == deliver_all_consecutive_counts(DeliverBelow(s, s.reord))
  IN IF d.deliv < d.next /\ cfg.t_reordering # "ms0"
     THEN [d EXCEPT !.reord = d.next, !.timer = TRUE]
     ELSE [d EXCEPT !.timer = FALSE]

StopTimer(s) == [s EXCEPT !.timer = @ /\ s.deliv < s.reord]

HandleTimers_NoStop(s) ==
  IF cfg.t_reordering = "running" /\ ~s.timer /\ s.deliv < s.next
  THEN [s EXCEPT !.reord = s.next, !.timer = TRUE] ELSE s

HandleTimers(s) ==
  CASE cfg.t_reordering = "infinity" -> StopTimer(s)
    [] cfg.t_reordering = "ms0" ->
         handle_t_reordering_expire([StopTimer(s) EXCEPT !.reord = s.next])
    [] OTHER -> IF ~StopTimer(s).timer /\ s.deliv < s.next
                THEN [s EXCEPT !.reord = s.next, !.timer = TRUE]
                ELSE StopTimer(s)

IsDropped_StoredOnly(s, count) == Has(s, count)
IsDropped(s, count) == count < s.deliv \/ Has(s, count)

(* Storing an accepted SDU and moving RX_NEXT.                             *)
Stored(s, count, sdu) ==
  [s EXCEPT !.window = Put(s, count, sdu),
            !.next = IF count >= @ THEN count + 1 ELSE @]

(* apply_reordering for an SDU that is not dropped.                        *)
Reordered(s, count, sdu) ==
  LET a == Stored(s, count, sdu)
  IN HandleTimers(IF count = a.deliv THEN deliver_all_consecutive_counts(a) ELSE a)

(* The UE's order of its SDUs: by COUNT, which a UM bearer starts again    *)
(* with each key.                                                          *)
After(p, q) ==
  IF cfg.rlc = "um" /\ p.key # q.key THEN p.key > q.key ELSE p.count > q.count

(* The SDUs that the window loses from s to t were passed up.              *)
PassedUp(s, t) ==
  LET sdus == << up >> \o Ascending(s.window \ t.window)
  IN /\ up' = sdus[Len(sdus)]
     /\ ordered' = (ordered /\ \A i \in 2 .. Len(sdus) : After(sdus[i], sdus[i - 1]))

-----------------------------------------------------------------------------
(* The crypto tokens.  One is returned by stop(), so that the count goes   *)
(* below zero only once all tasks have returned theirs; that sets the      *)
(* event the procedures await.                                             *)
return_token_One(t) == [tokens |-> t.tokens - 1, event |-> t.event \/ t.tokens = 1]
return_token(t) == [tokens |-> t.tokens - 1, event |-> t.event \/ t.tokens = 0]
start(t, granted) == [tokens |-> t.tokens + 1 + granted, event |-> FALSE]

RcvdCount_NoHfnStep(deliv, sn) == COUNT(HFN(deliv), sn)

(* The COUNT of a received SN, given RX_DELIV.                             *)
RcvdCount(deliv, sn) ==
  LET hfn == CASE sn < SN(deliv) - Window -> HFN(deliv) + 1
               [] sn >= SN(deliv) + Window -> HFN(deliv) - 1
               [] OTHER -> HFN(deliv)
  IN COUNT(hfn, sn)

Task(deliv, p) == [count |-> RcvdCount(deliv, SN(p.count)), pdu |-> p]

(* Of the data PDUs in P those the crypto executor takes: it may be full.  *)
(* A COUNT at the hard limit is refused before.                            *)
handle_data_pdus(P, deliv) ==
  \E T \in SUBSET {Task(deliv, p) : p \in P} :
    /\ \A t \in T : t.count < MaxHard
    /\ Cardinality(crypto \cup T) + Len(ul) <= InCrypto
    /\ crypto' = crypto \cup T

handle_pdu_NoBuffering(p) ==
  /\ ~ctl.stopped
  /\ handle_data_pdus({p}, st.deliv)
  /\ tok' = [tok EXCEPT !.tokens = @ + Cardinality(crypto' \ crypto)]
  /\ UNCHANGED buffer

(* The F1-U bearer delivers a PDU.                                         *)
handle_pdu(p) ==
  \/ /\ ctl.stopped
     /\ UNCHANGED <<buffer, crypto, tok>>
  \/ /\ ~ctl.stopped /\ ctl.buffering
     /\ buffer' = IF Len(buffer) < BufferSize THEN Append(buffer, p) ELSE buffer
     /\ UNCHANGED <<crypto, tok>>
  \/ /\ ~ctl.stopped /\ ~ctl.buffering
     /\ handle_data_pdus({p}, st.deliv)
     /\ tok' = [tok EXCEPT !.tokens = @ + Cardinality(crypto' \ crypto)]
     /\ UNCHANGED buffer

ReceivePdu ==
  \E p \in air :
    /\ ctl.alive /\ air' = air \ {p} /\ handle_pdu(p)
    /\ UNCHANGED <<cfg, st, up, ordered, key, ul, ctl, ue>>

(* A crypto worker.  If the uplink executor is full the PDU is dropped and *)
(* its token returned.                                                     *)
apply_security ==
  \E t \in crypto :
    /\ crypto' = crypto \ {t}
    /\ \/ /\ ul' = Append(ul, [task |-> t, passed |-> t.pdu = [key |-> key, count |-> t.count]])
          /\ UNCHANGED tok
       \/ /\ tok' = return_token(tok)
          /\ UNCHANGED ul
    /\ UNCHANGED <<cfg, st, up, ordered, key, ctl, buffer, ue, air>>

apply_reordering(t) ==
  IF IsDropped(st, t.count) THEN UNCHANGED <<st, up, ordered>>
  ELSE \E s \in {Reordered(st, t.count, t.pdu)} :
         /\ st' = s
         /\ PassedUp(Stored(st, t.count, t.pdu), s)

(* The next task on the uplink executor: reordering or, for a PDU that did *)
(* not pass, the notification.  Its token is returned at the end.          *)
RunUlTask ==
  /\ ul # << >>
  /\ ul' = Tail(ul) /\ tok' = return_token(tok)
  /\ IF Head(ul).passed THEN apply_reordering(Head(ul).task) ELSE UNCHANGED <<st, up, ordered>>
  /\ UNCHANGED <<cfg, key, crypto, ctl, buffer, ue, air>>

reordering_callback ==
  /\ st.timer /\ ~ctl.stopped
  /\ st' = handle_t_reordering_expire(st)
  /\ PassedUp(st, st')
  /\ UNCHANGED <<cfg, key, crypto, ul, tok, ctl, buffer, ue, air>>

-----------------------------------------------------------------------------
(* The procedures of the CU-UP; those of one UE run one after the other.   *)

(* A bearer context modification with new keys begins: PDUs are buffered   *)
(* and the crypto tasks awaited.                                           *)
BeginRekey ==
  /\ ctl.proc = "idle" /\ key < MaxKey /\ ue.key >= key
  /\ ctl' = [ctl EXCEPT !.proc = "rekey", !.buffering = TRUE]
  /\ tok' = return_token(tok)               \* notify_pdu_processing_stopped
  /\ UNCHANGED <<cfg, st, up, ordered, key, crypto, ul, buffer, ue, air>>

(* An AM bearer keeps its state; a UM bearer delivers what it stored and   *)
(* starts again.                                                           *)
reestablish(s) ==
  IF cfg.rlc = "am" THEN s
  ELSE [next |-> 0, deliv |-> 0, reord |-> 0, timer |-> FALSE,
        window |-> {w \in s.window : w.count \notin s.deliv .. s.next - 1}]

AwaitOver == tok.event

(* The rest of the procedure: new security engines, processing restarted,  *)
(* the bearer re-established, the buffer flushed into the new state.       *)
Rekey ==
  /\ ctl.proc = "rekey" /\ AwaitOver
  /\ key' = key + 1
  /\ st' = reestablish(st)
  /\ PassedUp(st, st')
  /\ handle_data_pdus(Range(buffer), st'.deliv)
  /\ tok' = start(tok, Cardinality(crypto' \ crypto))
  /\ buffer' = << >>
  /\ ctl' = [ctl EXCEPT !.proc = "idle", !.buffering = FALSE]
  /\ UNCHANGED <<cfg, ul, ue, air>>

(* Release of the UE: the bearer is stopped, and destroyed once the crypto *)
(* tasks have ended.                                                       *)
stop ==
  /\ ctl.proc = "idle"
  /\ ctl' = [ctl EXCEPT !.proc = "release", !.stopped = TRUE]
  /\ st' = [st EXCEPT !.timer = FALSE]
  /\ tok' = return_token(tok)
  /\ UNCHANGED <<cfg, up, ordered, key, crypto, ul, buffer, ue, air>>

destroy ==
  /\ ctl.proc = "release" /\ ctl.alive /\ AwaitOver
  /\ ctl' = [ctl EXCEPT !.alive = FALSE]
  /\ UNCHANGED <<cfg, st, up, ordered, key, crypto, ul, tok, buffer, ue, air>>

-----------------------------------------------------------------------------
(* The UE and the path from it.  The UE sends COUNTs in order and never    *)
(* more than a window ahead of the oldest one the bearer still waits for.  *)
Base == IF cfg.rlc = "um" /\ ue.key > key THEN 0 ELSE st.deliv
OnTheWay == {p \in air \cup Range(buffer) : p.key = ue.key}

First == IF cfg.rlc = "um" /\ ue.key > 0 THEN 0 ELSE Start

Send ==
  /\ ue.next < First + MaxSdus /\ Cardinality(air) < InAir
  /\ ue.next < Base + Window \/ (cfg.rlc = "um" /\ ue.key < key)
  /\ \A p \in OnTheWay : ue.next - p.count < Window
  /\ air' = air \cup {[key |-> ue.key, count |-> ue.next]}
  /\ ue' = [ue EXCEPT !.next = @ + 1, !.top = IF @ = ue.next THEN @ + 1 ELSE @]
  /\ UNCHANGED <<cfg, st, up, ordered, key, crypto, ul, tok, ctl, buffer>>

(* The UE changes its key, before or after the CU-UP does.  On a UM bearer *)
(* it starts again with COUNT 0, on an AM bearer it sends again from the   *)
(* first SDU that is not known to be received, which is less than a window *)
(* behind the last one it has sent.                                        *)
UeRekey ==
  /\ ue.key <= key /\ ue.key < MaxKey
  /\ \E n \in 0 .. ue.next :
       /\ IF cfg.rlc = "um" THEN n = 0 ELSE ue.top - n < Window
       /\ ue' = [key |-> ue.key + 1, next |-> n, top |-> IF cfg.rlc = "um" THEN 0 ELSE ue.top]
  /\ UNCHANGED <<cfg, st, up, ordered, key, crypto, ul, tok, ctl, buffer, air>>

Lose ==
  /\ \E p \in air : air' = air \ {p}
  /\ UNCHANGED <<cfg, st, up, ordered, key, crypto, ul, tok, ctl, buffer, ue>>

Work ==
  \/ apply_security \/ RunUlTask \/ reordering_callback
  \/ Rekey \/ destroy

Next ==
  \/ ReceivePdu \/ Work
  \/ BeginRekey \/ stop
  \/ Send \/ UeRekey \/ Lose

Spec == Init /\ [][Next]_vars

(* Executors run what they accepted, running timers expire and a coroutine *)
(* whose event is set is resumed: they do not all stand still while one of *)
(* them has something to do.  Nothing is assumed of the UE.                *)
FairSpec == Spec /\ WF_vars(Work)

-----------------------------------------------------------------------------
(* The state is of its type.  The tokens count the tasks of the executors, *)
(* one less while a procedure waits for them: none is returned twice.      *)
TypeOK ==
  /\ {st.next, st.deliv, st.reord} \subseteq 0 .. Start + MaxSdus
  /\ \A w \in st.window : w.count \in Counts /\ w.sdu \in Pdus
  /\ st.timer \in BOOLEAN
  /\ tok.tokens = Cardinality(crypto) + Len(ul) - (IF ctl.proc = "idle" THEN 0 ELSE 1)
  /\ Len(buffer) <= BufferSize /\ Range(buffer) \subseteq Pdus
  /\ key \in 0 .. MaxKey /\ ue.key \in key - 1 .. key + 1
  /\ air \subseteq Pdus

(* SDUs are passed up in the order the UE gave them their COUNTs, and none *)
(* twice, whatever order the crypto workers finish in, and across a        *)
(* re-establishment in which the UE sends SDUs again.                      *)
InOrderOnce == ordered

(* The COUNT found for a PDU of the current key is the one its sender used *)
(* although RX_DELIV has moved since the PDU was sent and before its       *)
(* predecessors leave the crypto workers: no PDU fails integrity for it.   *)
CountExact ==
  \A t \in crypto \cup {x.task : x \in Range(ul)} :
    t.pdu.key = key => t.count = t.pdu.count

(* The state is of its type, t-Reordering runs exactly while SDUs wait for *)
(* a gap to close, and RX_REORD then lies in the gap's range: no SDU waits *)
(* without a timer, and the loop of handle_t_reordering_expire ends.       *)
TimerGuardsGap ==
  /\ TypeOK
  /\ st.timer => st.deliv < st.reord /\ st.reord <= st.next
  /\ \A w \in st.window : st.deliv < w.count /\ w.count < st.next
  /\ st.next > st.deliv <=> st.window # {}
  /\ cfg.t_reordering = "running" /\ ~ctl.stopped => (st.timer <=> st.window # {})

(* A key change replaces the security engines, and the release of the UE   *)
(* destroys the entity, only when no task of a crypto worker or of the     *)
(* uplink executor is left that uses them.  Only these two wait: removing  *)
(* a DRB or a PDU session, which this module leaves out, destroys the      *)
(* entity at once (pdu_session_manager_impl.cpp).                          *)
NoTaskOutlives ==
  [][key' # key \/ ctl'.alive # ctl.alive => crypto = {} /\ ul = << >>]_vars

(* A key change and a release come to their end, however many PDUs are in  *)
(* the executors when they begin and however many arrive.                  *)
ProcedureEnds == ctl.proc # "idle" ~> (ctl.proc = "idle" \/ ~ctl.alive)

(* An SDU leaves the window only by being passed up, or with the bearer:   *)
(* the circular window never gives its place to another one.               *)
NothingEvicted ==
  [][\A w \in st.window : w \in st'.window \/ ~After(w.sdu, up')]_vars

(* SDUs do not wait for a lost one for ever, unless t-Reordering is        *)
(* infinite or the bearer is stopped.                                      *)
GapIsGivenUp ==
  st.window # {} ~> (st.window = {} \/ ctl.stopped \/ cfg.t_reordering = "infinity")
=============================================================================
