-------------------------- MODULE ControlContract --------------------------
(***************************************************************************)
(* What the EdgeRIC control loop promises the scheduler of a gNB, without  *)
(* sockets, queues, tags, muApps or received state: in every slot, each    *)
(* control channel either leaves the defaults in place or applies ONE      *)
(* decision, to UEs that the telemetry of one and the same recent slot     *)
(* listed.  Once the gNB has been restarted a decision may also be of an   *)
(* earlier incarnation, of which nothing is promised.                      *)
(***************************************************************************)
EXTENDS Integers

CONSTANTS Apps, Rnti, Threshold, MaxSlot, NoDecision, Foreign

VARIABLES
  slot,       \* slots run so far
  phase,      \* "idle", "decide" (slot begun), "publish" (decision taken)
  published,  \* the UEs in the telemetry of each slot
  decision,   \* per channel and UE, the slot whose telemetry decided, NoDecision
              \* or, for an earlier incarnation, Foreign
  restarted   \* whether the gNB has been restarted

vars == <<slot, phase, published, decision, restarted>>

Default == [a \in Apps |-> [r \in Rnti |-> NoDecision]]

Init ==
  /\ slot = 0
  /\ phase = "idle"
  /\ published = [s \in 0..MaxSlot |-> {}]
  /\ decision = Default
  /\ restarted = FALSE

Begin ==
  /\ phase = "idle"
  /\ slot' = slot + 1
  /\ phase' = "decide"
  /\ UNCHANGED <<published, decision, restarted>>

\* The slots whose telemetry may still decide.
Window == {s \in 1..(slot - 1) : slot - s <= Threshold}

\* Channel decision d is the default, comes from one slot of the window or, after
\* a restart, from an earlier incarnation.
Permitted(d) ==
  \/ \A r \in Rnti : d[r] = NoDecision
  \/ \E s \in Window : \A r \in Rnti :
       d[r] # NoDecision => d[r] = s /\ r \in published[s]
  \/ restarted /\ \A r \in Rnti : d[r] \in {NoDecision, Foreign}

Decide ==
  /\ phase = "decide"
  /\ decision' \in [Apps -> [Rnti -> 0..MaxSlot \cup {NoDecision, Foreign}]]
  /\ \A a \in Apps : Permitted(decision'[a])
  /\ phase' = "publish"
  /\ UNCHANGED <<slot, published, restarted>>

Publish ==
  /\ phase = "publish"
  /\ \E U \in SUBSET Rnti : published' = [published EXCEPT ![slot] = U]
  /\ decision' = Default
  /\ phase' = "idle"
  /\ UNCHANGED <<slot, restarted>>

\* The gNB process is replaced by a new one.
Restart ==
  /\ slot' = 0
  /\ phase' = "idle"
  /\ published' = [s \in 0..MaxSlot |-> {}]
  /\ decision' = Default
  /\ restarted' = TRUE

Next == Begin \/ Decide \/ Publish \/ Restart
Spec == Init /\ [][Next]_vars
=============================================================================
