------------------------- MODULE HarqManager_proofs -------------------------
(***************************************************************************)
(* Proofs about HarqManager, for every number of processes, every delay,   *)
(* timeout and wheel.  The invariant IInv says of each process what its    *)
(* state allows (ProcInv), that the free stack holds the empty processes   *)
(* (FreeInv), that no two processes wait for one bit of one slot (UciInv), *)
(* and what an indication on its way may still meet (AirInv).              *)
(***************************************************************************)
EXTENDS HarqManager, TLAPS, FiniteSetTheorems, SequenceTheorems, WellFoundedInduction

Waiting(q) == q.status = "waiting_ack"

\* What the report of a waiting process will be judged by.
ReportOK(q) ==
  /\ q.got = {} => q.chosen = "dtx" /\ q.snr = 0
  /\ q.got = {"ack"} => q.chosen = "ack"

\* The timeout of a process that waits.
WaitOK(q) ==
  /\ q.ackIn <= MaxDelay
  /\ ~q.short => q.due = q.ackIn + Wait(q.retxs)
  /\ q.short => q.due = ShortWait - q.since

ProcOK(q) ==
  /\ q \in Process
  /\ q.status = "empty" => q = Empty
  /\ q.status = "pending_retx" =>
       q.retxs < q.max /\ ~q.cancelled /\ q.due = RetxTimeout - q.since
  /\ Waiting(q) => /\ q.retxs <= q.max
                   /\ q.cancelled => q.max = q.retxs
                   /\ ReportOK(q)
                   /\ WaitOK(q)

RestInv ==
  /\ isDl \in BOOLEAN
  /\ ue \in {"active", "leaving", "none"}
  /\ remIn \in 0 .. RemDelay
  /\ granted \in Harqs \cup {None}
  /\ uci \in [0 .. MaxDelay -> 0 .. MaxBits]
  /\ skips \in 0 .. MaxSkips
  /\ early \in SUBSET Timers

ProcInv ==
  /\ proc \in [Harqs -> Process]
  /\ \A h \in Harqs : ProcOK(proc[h])

FreeInv ==
  /\ free \in Seq(Harqs)
  /\ \A i, j \in 1 .. Len(free) : free[i] = free[j] => i = j
  /\ \A i \in 1 .. Len(free) : ~Busy(free[i])
  /\ ue # "none" => \A h \in Harqs : ~Busy(h) => \E i \in 1 .. Len(free) : free[i] = h

\* Without a UE nothing is left of it.
GoneInv ==
  ue = "none" => /\ free = <<>> /\ air = {} /\ granted = None
                 /\ \A h \in Harqs : ~Busy(h)
                 /\ \A k \in 0 .. MaxDelay : uci[k] = 0

\* A HARQ-ACK bit has one process, and the next grant of its slot another bit.
UciInv ==
  /\ \A h \in Harqs : Waiting(proc[h]) =>
       /\ isDl /\ proc[h].ackIn >= 0 => proc[h].bit < uci[proc[h].ackIn]
       /\ ~isDl => proc[h].bit = 0 /\ ~proc[h].short
  /\ \A g, h \in Harqs :
       /\ Waiting(proc[g]) /\ Waiting(proc[h])
       /\ proc[g].ackIn = proc[h].ackIn /\ proc[g].bit = proc[h].bit
       => g = h

\* This slot's grant is not yet on the air.
GrantInv ==
  granted # None => \/ proc[granted].status = "empty"
                    \/ Waiting(proc[granted]) /\ proc[granted].ackIn > 0

\* What an indication in the air meets.
AirOK(r) ==
  /\ r \in Indication /\ r.age >= 1
  /\ isDl => \A i \in DOMAIN r.of : Found(r.age, i - 1) \subseteq {r.of[i]}
  /\ ~isDl => /\ r.left = 1 /\ r.id \in Harqs /\ DOMAIN r.of = {1}
              /\ r.kind = "report" => Found(r.age, 0) \subseteq {r.of[1]}
              /\ r.kind = "error" /\ r.age <= History =>
                   r.of[1] = r.id /\ Waiting(proc[r.id]) /\ proc[r.id].ackIn = -r.age

\* In the UL a slot has one indication.
AirInv ==
  /\ \A r \in air : AirOK(r)
  /\ ~isDl => \A r, s \in air : r.age = s.age => r = s

IInv == RestInv /\ ProcInv /\ FreeInv /\ GoneInv /\ UciInv /\ GrantInv /\ AirInv

-----------------------------------------------------------------------------
(* Constants, and the order in which processes are released.               *)

LEMMA Constants ==
  /\ NofHarqs \in Nat \ {0} /\ MaxRetxs \in Nat /\ MaxBits \in Nat /\ MaxAge \in Nat
  /\ MaxSkips \in Nat /\ History \in Nat /\ History < AckWait
  /\ AckWait \in Nat \ {0} /\ ShortWait \in Nat \ {0} /\ RetxTimeout \in Nat \ {0}
  /\ Wheel \in Nat \ {0} /\ RemDelay \in Nat \ {0}
  /\ Harqs \in SUBSET Nat /\ None \notin Harqs
  BY HarqAssumption DEF Harqs

\* A set of natural numbers has a least element.
LEMMA Least ==
  ASSUME NEW S \in SUBSET Nat, S # {}
  PROVE  \E n \in S : \A m \in S : n <= m
  <1> DEFINE R == {ss \in Nat \X Nat : ss[1] < ss[2]}
  <1>1. IsWellFoundedOn(R, Nat)
    BY NatLessThanWellFounded DEF OpToRel
  <1> HIDE DEF R
  <1>2. PICK n \in S : \A m \in S : ~(<<m, n>> \in R)
    BY <1>1, WFMin, Zenon
  <1>3. \A m \in S : ~(m < n)
    BY <1>2 DEF R
  <1> QED
    BY <1>3

\* MaxDelay is the greatest delay: delays are bounded by the wheel.
LEMMA MaxDelayIsMax ==
  MaxDelay \in Delays /\ MaxDelay \in Nat \ {0} /\ \A k \in Delays : k <= MaxDelay
  <1> DEFINE S == {Wheel - k : k \in Delays}
  <1>1. /\ Delays \in SUBSET (Nat \ {0}) /\ Delays # {} /\ Wheel \in Nat /\ AckWait \in Nat
        /\ \A k \in Delays : k + AckWait <= Wheel
    BY HarqAssumption
  <1>2. S \in SUBSET Nat /\ S # {}
    <2>1. \A k \in Delays : Wheel - k \in Nat
      BY <1>1
    <2> QED
      BY <1>1, <2>1
  <1>3. PICK n \in S : \A m \in S : n <= m
    <2> HIDE DEF S
    <2> QED
      BY <1>2, Least
  <1>4. PICK k \in Delays : n = Wheel - k
    BY <1>3
  <1>5. \A l \in Delays : Wheel - k <= Wheel - l
    BY <1>3, <1>4
  <1>6. \E m \in Delays : \A l \in Delays : l <= m
    <2>1. \A l \in Delays : l <= k
      BY <1>1, <1>5
    <2> QED
      BY <2>1
  <1>7. MaxDelay \in Delays /\ \A l \in Delays : l <= MaxDelay
    BY <1>6, Zenon DEF MaxDelay
  <1> QED
    BY <1>1, <1>7

\* A timeout after the slot of the report is at most a turn of the wheel.
LEMMA WaitIs == \A x : Wait(x) \in Nat /\ Wait(x) >= AckWait /\ Wait(x) <= Wheel
  <1>1. /\ MaxDelay \in Nat /\ AckWait \in Nat /\ Koffset \in Nat /\ Wheel \in Nat
        /\ MaxDelay + AckWait <= Wheel /\ Koffset <= MaxDelay
    BY MaxDelayIsMax, HarqAssumption
  <1>2. \A x : Wait(x) = AckWait \/ Wait(x) = AckWait + Koffset
    BY DEF Wait
  <1> QED
    BY <1>1, <1>2

LEMMA SetToType == \A t : SetTo(t) \in Nat
  <1> TAKE t
  <1>1. /\ MaxDelay + Wait(0) \in Nat /\ MaxDelay + Wait(1) \in Nat
        /\ ShortWait \in Nat /\ RetxTimeout \in Nat
    BY MaxDelayIsMax, WaitIs, HarqAssumption
  <1>2. \/ SetTo(t) = MaxDelay + Wait(0) \/ SetTo(t) = MaxDelay + Wait(1)
        \/ SetTo(t) = ShortWait \/ SetTo(t) = RetxTimeout
    BY DEF SetTo
  <1> QED
    BY <1>1, <1>2

Rank(S, h) == Cardinality({g \in S : g < h})

LEMMA RankMonotone ==
  ASSUME NEW S \in SUBSET Nat, IsFiniteSet(S), NEW g \in S, NEW h \in S
  PROVE  /\ Rank(S, h) \in 0 .. Cardinality(S) - 1
         /\ g < h => Rank(S, g) < Rank(S, h)
  <1> DEFINE B(x) == {u \in S : u < x}
  <1>1. Cardinality(S) \in Nat
    BY FS_CardinalityType
  <1>2. IsFiniteSet(S \ {h}) /\ Cardinality(S \ {h}) = Cardinality(S) - 1
    BY FS_RemoveElement
  <1>3. B(h) \in SUBSET (S \ {h})
    OBVIOUS
  <1>4. IsFiniteSet(B(h)) /\ Cardinality(B(h)) <= Cardinality(S) - 1 /\ Cardinality(B(h)) \in Nat
    BY <1>2, <1>3, FS_Subset, FS_CardinalityType
  <1>5. ASSUME g < h
        PROVE  Cardinality(B(g)) < Cardinality(B(h))
    <2>1. g \in B(h) /\ g \notin B(g)
      BY <1>5
    <2>2. B(g) \in SUBSET (B(h) \ {g})
      <3>1. ASSUME NEW u \in B(g) PROVE u \in B(h) /\ u # g
        <4>1. u \in Nat /\ g \in Nat /\ h \in Nat /\ u < g
          OBVIOUS
        <4> QED
          BY <1>5, <4>1
      <3> QED
        BY <3>1
    <2>3. IsFiniteSet(B(h) \ {g}) /\ Cardinality(B(h) \ {g}) = Cardinality(B(h)) - 1
      BY <1>4, <2>1, FS_RemoveElement
    <2>4. IsFiniteSet(B(g)) /\ Cardinality(B(g)) <= Cardinality(B(h) \ {g}) /\ Cardinality(B(g)) \in Nat
      BY <2>2, <2>3, FS_Subset, FS_CardinalityType
    <2> QED
      BY <2>3, <2>4, <1>4
  <1> QED
    BY <1>1, <1>4, <1>5 DEF Rank

\* Every rank is taken: the CHOOSE of InOrder has something to choose.
LEMMA RankExists ==
  ASSUME NEW S \in SUBSET Nat, IsFiniteSet(S), NEW i \in 1 .. Cardinality(S)
  PROVE  \E h \in S : Rank(S, h) = i - 1
  <1> DEFINE N == Cardinality(S)
             f == [h \in S |-> Rank(S, h)]
  <1>1. N \in Nat
    BY FS_CardinalityType
  <1>2. IsFiniteSet(0 .. N - 1) /\ Cardinality(0 .. N - 1) = N
    <2> HIDE DEF N
    <2>1. 0 \in Int /\ N - 1 \in Int
      BY <1>1
    <2>2. /\ IsFiniteSet(0 .. N - 1)
          /\ Cardinality(0 .. N - 1) = IF 0 > N - 1 THEN 0 ELSE N - 1 - 0 + 1
      BY <2>1, FS_Interval
    <2> QED
      BY <1>1, <2>2
  <1>3. f \in [S -> 0 .. N - 1]
    <2>1. \A h \in S : Rank(S, h) \in 0 .. N - 1
      BY RankMonotone
    <2> HIDE DEF N
    <2> QED
      BY <2>1
  <1>4. \A g, h \in S : f[g] = f[h] => g = h
    <2> SUFFICES ASSUME NEW g \in S, NEW h \in S, f[g] = f[h] PROVE g = h
      OBVIOUS
    <2>1. Rank(S, g) = Rank(S, h)
      OBVIOUS
    <2>2. Rank(S, g) \in 0 .. Cardinality(S) - 1 /\ ~(g < h) /\ ~(h < g)
      BY <2>1, RankMonotone
    <2> QED
      BY <2>2
  <1>5. f \in Injection(S, 0 .. N - 1)
    BY <1>3, <1>4 DEF Injection, IsInjective
  <1>6. f \in Surjection(S, 0 .. N - 1)
    BY <1>2, <1>5, FS_Injection
  <1>7. PICK h \in S : f[h] = i - 1
    <2>1. i - 1 \in 0 .. N - 1
      BY <1>1
    <2> HIDE DEF f
    <2> QED
      BY <1>6, <2>1 DEF Surjection
  <1> QED
    BY <1>7

\* InOrder(S) lists every member of S, once.
LEMMA InOrderLists ==
  ASSUME NEW S \in SUBSET Nat, IsFiniteSet(S)
  PROVE  LET A == InOrder(S)
         IN  /\ A \in Seq(S)
             /\ \A i, j \in 1 .. Len(A) : A[i] = A[j] => i = j
             /\ \A h \in S : \E i \in 1 .. Len(A) : A[i] = h
  <1> DEFINE A == InOrder(S)
             N == Cardinality(S)
             at(i) == CHOOSE h \in S : Cardinality({g \in S : g < h}) = i - 1
  <1>1. N \in Nat
    BY FS_CardinalityType
  <1>2. ASSUME NEW i \in 1 .. N
        PROVE  at(i) \in S /\ Rank(S, at(i)) = i - 1 /\ A[i] = at(i)
    <2>1. \E h \in S : Cardinality({g \in S : g < h}) = i - 1
      BY RankExists DEF Rank
    <2>2. at(i) \in S /\ Cardinality({g \in S : g < at(i)}) = i - 1
      BY <2>1, Zenon
    <2>3. A[i] = at(i)
      BY DEF InOrder
    <2> QED
      BY <2>2, <2>3 DEF Rank
  <1>3. A = [i \in 1 .. N |-> at(i)]
    BY Zenon DEF InOrder
  <1> HIDE DEF A, N, at
  <1>4. A \in Seq(S) /\ Len(A) = N
    BY <1>1, <1>2, <1>3
  <1>5. \A i, j \in 1 .. N : A[i] = A[j] => i = j
    BY <1>1, <1>2
  <1>6. ASSUME NEW h \in S PROVE \E i \in 1 .. N : A[i] = h
    <2>1. Rank(S, h) \in 0 .. N - 1
      BY RankMonotone DEF N
    <2>2. Rank(S, h) + 1 \in 1 .. N
      BY <1>1, <2>1
    <2> DEFINE i == Rank(S, h) + 1
    <2>3. i \in 1 .. N /\ Rank(S, h) = i - 1
      BY <2>1, <2>2
    <2> HIDE DEF i
    <2>4. A[i] \in S /\ Rank(S, A[i]) = i - 1
      BY <1>2, <2>3
    <2>5. ~(A[i] < h) /\ ~(h < A[i])
      <3>1. Rank(S, A[i]) = Rank(S, h)
        BY <2>3, <2>4
      <3>2. /\ A[i] < h => Rank(S, A[i]) < Rank(S, h)
            /\ h < A[i] => Rank(S, h) < Rank(S, A[i])
        BY <2>4, RankMonotone, Zenon
      <3> QED
        BY <3>1, <3>2, <2>1, <1>1
    <2>6. A[i] = h
      <3>1. A[i] \in Nat /\ h \in Nat
        BY <2>4
      <3> QED
        BY <2>5, <3>1
    <2> QED
      BY <2>3, <2>6
  <1> QED
    BY <1>4, <1>5, <1>6 DEF A

-----------------------------------------------------------------------------
(* The operations on a process.                                            *)

\* r is what an answer, a cancellation or a timeout makes of q: a process that
\* still waits waits for the same bit of the same slot.
Answered(q, r) ==
  /\ ProcOK(r)
  /\ q.status = "empty" => r.status = "empty"
  /\ Waiting(r) => Waiting(q) /\ r.ackIn = q.ackIn /\ r.bit = q.bit
  /\ ~isDl /\ Waiting(r) /\ r.short => q.short
  /\ Waiting(q) /\ r.status = "pending_retx" => r.got # {"ack"}

LEMMA Fields ==
  ASSUME NEW q \in Process
  PROVE  /\ q.status \in {"empty", "waiting_ack", "pending_retx"}
         /\ q.ackIn \in Int /\ q.due \in Int /\ q.since \in Nat /\ q.snr \in Nat
         /\ q.retxs \in 0 .. MaxRetxs /\ q.max \in 0 .. MaxRetxs /\ q.bit \in 0 .. MaxBits
         /\ q.toReceive \in 0 .. 2 /\ q.chosen \in AckStatus
         /\ q.ackOnTimeout \in BOOLEAN /\ q.short \in BOOLEAN /\ q.cancelled \in BOOLEAN
         /\ q.got \in SUBSET {"ack", "nack"}
  BY DEF Process

LEMMA EmptyOK == ProcOK(Empty) /\ Empty.status = "empty"
  BY Constants DEF ProcOK, Process, Empty, Waiting, AckStatus

LEMMA SameAnswered ==
  ASSUME NEW q, ProcOK(q)
  PROVE  Answered(q, q)
  BY DEF Answered, Waiting

LEMMA EmptyAnswered ==
  ASSUME NEW q
  PROVE  Answered(q, Empty)
  BY EmptyOK DEF Answered, Waiting

\* A process that may be sent again becomes pending.
LEMMA PendingAnswered ==
  ASSUME NEW q, NEW r \in Process, r.retxs < r.max, ~r.cancelled, r.got # {"ack"}, Waiting(q)
  PROVE  Answered(q, set_pending_retx(r))
  <1> DEFINE p == set_pending_retx(r)
  <1>1. /\ r.retxs \in 0 .. MaxRetxs /\ r.max \in 0 .. MaxRetxs /\ r.cancelled \in BOOLEAN
        /\ RetxTimeout \in Nat /\ MaxRetxs \in Nat /\ MaxBits \in Nat
    BY Fields, Constants
  <1>2. /\ p.status = "pending_retx" /\ p.due = RetxTimeout /\ p.since = 0
        /\ p.retxs = r.retxs /\ p.max = r.max /\ p.got = {} /\ p.cancelled = r.cancelled
    BY DEF set_pending_retx, Empty, OnlyAck
  <1>3. p \in Process
    <2> DEFINE g == OnlyAck(r)
    <2>1. g = {}
      BY DEF OnlyAck
    <2>2. p = [Empty EXCEPT !.status = "pending_retx", !.due = RetxTimeout, !.retxs = r.retxs,
                            !.max = r.max, !.got = g, !.cancelled = r.cancelled]
      BY DEF set_pending_retx
    <2>3. Empty \in Process
      BY EmptyOK DEF ProcOK
    <2>4. g \in SUBSET {"ack", "nack"} /\ RetxTimeout \in Int
      BY <1>1, <2>1
    <2> HIDE DEF g, p
    <2> QED
      BY <1>1, <2>2, <2>3, <2>4 DEF Process
  <1> HIDE DEF p
  <1>4. ProcOK(p)
    BY <1>1, <1>2, <1>3 DEF ProcOK, Waiting
  <1> QED
    BY <1>2, <1>4 DEF Answered, Waiting, p

\* The fields of a waiting process.
LEMMA WaitingFields ==
  ASSUME NEW q, ProcOK(q), Waiting(q)
  PROVE  /\ q \in Process /\ q.retxs <= q.max /\ (q.cancelled => q.max = q.retxs)
         /\ ReportOK(q) /\ WaitOK(q)
  BY DEF ProcOK

LEMMA DlAckInfo ==
  ASSUME isDl, NEW q, ProcOK(q), NEW ack \in AckStatus, NEW snr \in Nat
  PROVE  Answered(q, dl_ack_info(q, ack, snr))
  <1> DEFINE better == IsChosen(q, ack, snr)
             r == [q EXCEPT !.chosen = IF better THEN ack ELSE @,
                            !.snr = IF better THEN snr ELSE @,
                            !.got = @ \cup ({ack} \ {"dtx"})]
  <1>1. CASE ~Waiting(q)
    <2>1. dl_ack_info(q, ack, snr) = q
      BY <1>1 DEF dl_ack_info, Waiting
    <2> QED
      BY <2>1, SameAnswered
  <1>2. CASE Waiting(q)
    <2>1. /\ q \in Process /\ q.retxs <= q.max /\ (q.cancelled => q.max = q.retxs)
          /\ ReportOK(q) /\ WaitOK(q)
      BY <1>2, WaitingFields
    <2>2. /\ q.got \in SUBSET {"ack", "nack"} /\ q.chosen \in AckStatus /\ q.snr \in Nat
          /\ q.retxs \in Nat /\ q.max \in Nat /\ q.toReceive \in 0 .. 2
      BY <2>1, Fields, Constants
    <2>3. /\ r.chosen = IF better THEN ack ELSE q.chosen
          /\ r.snr = IF better THEN snr ELSE q.snr
          /\ r.got = q.got \cup ({ack} \ {"dtx"})
          /\ r.status = q.status /\ r.ackIn = q.ackIn /\ r.bit = q.bit /\ r.due = q.due
          /\ r.retxs = q.retxs /\ r.max = q.max /\ r.cancelled = q.cancelled
          /\ r.short = q.short /\ r.since = q.since /\ r.toReceive = q.toReceive
      BY <2>1 DEF Process
    <2>4. r \in Process
      <3>1. (IF better THEN ack ELSE q.chosen) \in AckStatus
        BY <2>2
      <3>2. (IF better THEN snr ELSE q.snr) \in Nat
        BY <2>2
      <3>3. q.got \cup ({ack} \ {"dtx"}) \in SUBSET {"ack", "nack"}
        BY <2>2 DEF AckStatus
      <3> HIDE DEF better
      <3> QED
        BY <2>1, <3>1, <3>2, <3>3 DEF Process
    <2>5. ReportOK(r)
      BY <2>1, <2>2, <2>3 DEF ReportOK, IsChosen, AckStatus
    <2> HIDE DEF r
    <2>6. CASE q.toReceive <= 1
      <3>1. dl_ack_info(q, ack, snr) = handle_ack(r, r.chosen = "ack")
        BY <1>2, <2>6 DEF dl_ack_info, Waiting, r
      <3>2. CASE r.chosen = "ack" \/ r.retxs >= r.max
        <4>1. dl_ack_info(q, ack, snr) = Empty
          BY <3>1, <3>2 DEF handle_ack
        <4> QED
          BY <4>1, EmptyAnswered
      <3>3. CASE ~(r.chosen = "ack" \/ r.retxs >= r.max)
        <4>1. dl_ack_info(q, ack, snr) = set_pending_retx(r)
          BY <3>1, <3>3 DEF handle_ack
        <4>2. r.retxs < r.max /\ ~r.cancelled /\ r.got # {"ack"}
          BY <2>1, <2>2, <2>3, <2>5, <3>3 DEF ReportOK
        <4> QED
          BY <1>2, <2>4, <4>1, <4>2, PendingAnswered
      <3> QED
        BY <3>2, <3>3
    <2>7. CASE ~(q.toReceive <= 1)
      <3> DEFINE p == [r EXCEPT !.toReceive = @ - 1, !.ackOnTimeout = r.chosen = "ack",
                                !.due = ShortWait, !.short = TRUE, !.since = 0]
      <3>1. dl_ack_info(q, ack, snr) = p
        BY <1>2, <2>7 DEF dl_ack_info, Waiting, r
      <3>2. /\ p.status = r.status /\ p.ackIn = r.ackIn /\ p.bit = r.bit /\ p.retxs = r.retxs
            /\ p.max = r.max /\ p.cancelled = r.cancelled /\ p.got = r.got
            /\ p.chosen = r.chosen /\ p.snr = r.snr
            /\ p.due = ShortWait /\ p.short = TRUE /\ p.since = 0
        BY <2>4 DEF Process
      <3>3. p \in Process
        <4>1. r.toReceive - 1 \in 0 .. 2 /\ ShortWait \in Int
          BY <2>2, <2>3, <2>7, Constants
        <4> QED
          BY <2>4, <4>1 DEF Process
      <3> HIDE DEF p
      <3>4. ReportOK(p)
        BY <2>5, <3>2 DEF ReportOK
      <3>5. WaitOK(p)
        BY <2>1, <2>3, <3>2, Constants DEF WaitOK
      <3>6. ProcOK(p)
        BY <1>2, <2>1, <2>3, <3>2, <3>3, <3>4, <3>5 DEF ProcOK, Waiting
      <3> QED
        BY <1>2, <2>3, <3>1, <3>2, <3>6 DEF Answered, Waiting
    <2> QED
      BY <2>6, <2>7
  <1> QED
    BY <1>1, <1>2

LEMMA CancelRetxsAnswered ==
  ASSUME NEW q, ProcOK(q)
  PROVE  Answered(q, cancel_retxs(q))
  <1>1. CASE q.status = "pending_retx"
    BY <1>1, EmptyAnswered DEF cancel_retxs
  <1>2. CASE Waiting(q)
    <2> DEFINE p == [q EXCEPT !.max = q.retxs, !.cancelled = TRUE]
    <2>1. cancel_retxs(q) = p
      BY <1>2 DEF cancel_retxs, Waiting
    <2>2. /\ q \in Process /\ q.retxs <= q.max /\ ReportOK(q) /\ WaitOK(q)
          /\ q.retxs \in 0 .. MaxRetxs
      BY <1>2, WaitingFields, Fields
    <2>3. /\ p.status = q.status /\ p.ackIn = q.ackIn /\ p.bit = q.bit /\ p.retxs = q.retxs
          /\ p.max = q.retxs /\ p.got = q.got /\ p.chosen = q.chosen /\ p.snr = q.snr
          /\ p.due = q.due /\ p.short = q.short /\ p.since = q.since
      BY <2>2 DEF Process
    <2>4. p \in Process
      BY <2>2 DEF Process
    <2> HIDE DEF p
    <2>5. ReportOK(p) /\ WaitOK(p)
      BY <2>2, <2>3 DEF ReportOK, WaitOK
    <2>6. ProcOK(p)
      BY <1>2, <2>2, <2>3, <2>4, <2>5, Constants DEF ProcOK, Waiting
    <2> QED
      BY <1>2, <2>1, <2>3, <2>6 DEF Answered, Waiting
  <1>3. CASE q.status = "empty"
    <2>1. cancel_retxs(q) = q
      BY <1>3 DEF cancel_retxs
    <2> QED
      BY <2>1, SameAnswered
  <1> QED
    BY <1>1, <1>2, <1>3, Fields DEF ProcOK, Waiting

LEMMA UlCrcInfo ==
  ASSUME NEW q, ProcOK(q), NEW ok \in BOOLEAN
  PROVE  Answered(q, ul_crc_info(q, ok))
  <1>1. CASE ~Waiting(q)
    <2>1. ul_crc_info(q, ok) = q
      BY <1>1 DEF ul_crc_info, Waiting
    <2> QED
      BY <2>1, SameAnswered
  <1>2. CASE Waiting(q)
    <2> DEFINE r == [q EXCEPT !.got = {IF ok THEN "ack" ELSE "nack"}]
    <2>1. ul_crc_info(q, ok) = IF ok \/ r.retxs >= r.max THEN Empty ELSE set_pending_retx(r)
      BY <1>2, Zenon DEF ul_crc_info, handle_ack, Waiting
    <2>2. q \in Process /\ q.retxs \in Nat /\ q.max \in Nat /\ (q.cancelled => q.max = q.retxs)
      BY <1>2, WaitingFields, Fields, Constants
    <2>3. /\ r.retxs = q.retxs /\ r.max = q.max /\ r.cancelled = q.cancelled
          /\ r.got = {IF ok THEN "ack" ELSE "nack"} /\ r \in Process
      BY <2>2 DEF Process
    <2>4. CASE ok \/ r.retxs >= r.max
      <3>1. ul_crc_info(q, ok) = Empty
        BY <2>1, <2>4, Zenon
      <3> QED
        BY <3>1, EmptyAnswered
    <2>5. CASE ~(ok \/ r.retxs >= r.max)
      <3>1. ul_crc_info(q, ok) = set_pending_retx(r)
        BY <2>1, <2>5, Zenon
      <3>2. r.got # {"ack"} /\ r.retxs < r.max /\ ~r.cancelled
        BY <2>2, <2>3, <2>5
      <3> HIDE DEF r
      <3> QED
        BY <1>2, <2>3, <3>1, <3>2, PendingAnswered
    <2> QED
      BY <2>4, <2>5
  <1> QED
    BY <1>1, <1>2

LEMMA UciSchedFailed ==
  ASSUME isDl, NEW q, ProcOK(q), NEW age \in Nat
  PROVE  Answered(q, uci_sched_failed(q, age))
  <1> DEFINE r == dl_ack_info(q, "dtx", 0)
  <1>1. "dtx" \in AckStatus /\ 0 \in Nat
    BY DEF AckStatus
  <1>2. Answered(q, r)
    BY <1>1, DlAckInfo
  <1>3. Answered(r, dl_ack_info(r, "dtx", 0))
    <2>1. ProcOK(r)
      BY <1>2 DEF Answered
    <2> HIDE DEF r
    <2> QED
      BY <1>1, <2>1, DlAckInfo
  <1>4. uci_sched_failed(q, age) \in {q, r, dl_ack_info(r, "dtx", 0)}
    BY Zenon DEF uci_sched_failed
  <1>5. CASE uci_sched_failed(q, age) = dl_ack_info(r, "dtx", 0)
    <2> DEFINE p == dl_ack_info(r, "dtx", 0)
    <2>1. Answered(r, p)
      BY <1>3
    <2>2. ASSUME Waiting(q), p.status = "pending_retx"
          PROVE  p.got # {"ack"}
      <3>1. CASE Waiting(r)
        BY <2>1, <2>2, <3>1 DEF Answered
      <3>2. CASE ~Waiting(r)
        <4>1. p = r
          BY <3>2 DEF dl_ack_info, Waiting
        <4> QED
          BY <1>2, <2>2, <4>1 DEF Answered
      <3> QED
        BY <3>1, <3>2
    <2> HIDE DEF p, r
    <2>3. Answered(q, p)
      BY <1>2, <2>1, <2>2 DEF Answered
    <2> QED
      BY <1>5, <2>3 DEF p
  <1> QED
    BY <1>2, <1>4, <1>5, SameAnswered

LEMMA DiscardedPusch ==
  ASSUME NEW q, ProcOK(q)
  PROVE  Answered(q, discarded_pusch(q))
  <1>1. Answered(q, ul_crc_info(q, FALSE))
    BY UlCrcInfo
  <1>2. Answered(q, Empty)
    BY EmptyAnswered
  <1> QED
    BY <1>1, <1>2 DEF discarded_pusch

\* r is q after d slots: its times have moved.
Older(q, r, d) ==
  /\ ProcOK(r)
  /\ r.status = q.status
  /\ Waiting(r) => r.ackIn = q.ackIn - d /\ r.bit = q.bit /\ r.short = q.short

LEMMA ElapsedOlder ==
  ASSUME NEW q, ProcOK(q), NEW n \in 1 .. 2, NEW d \in Nat
  PROVE  Older(q, Elapsed(Counted(q, n), d), d)
  <1> DEFINE c == Counted(q, n)
             r == Elapsed(c, d)
  <1>0. q \in Process /\ q.status \in {"empty", "waiting_ack", "pending_retx"}
    BY Fields DEF ProcOK
  <1>1. CASE Waiting(q)
    <2>1. /\ q.retxs <= q.max /\ (q.cancelled => q.max = q.retxs)
          /\ ReportOK(q) /\ WaitOK(q)
          /\ q.ackIn \in Int /\ q.due \in Int /\ q.since \in Nat /\ q.short \in BOOLEAN
      BY <1>0, <1>1, WaitingFields, Fields
    <2>2. /\ c \in Process /\ c.status = q.status /\ c.ackIn = q.ackIn /\ c.due = q.due
          /\ c.bit = q.bit /\ c.retxs = q.retxs /\ c.max = q.max /\ c.cancelled = q.cancelled
          /\ c.got = q.got /\ c.chosen = q.chosen /\ c.snr = q.snr
          /\ c.short = q.short /\ c.since = q.since
      <3>1. CASE isDl /\ q.ackIn = 0
        <4>1. c = [q EXCEPT !.toReceive = n]
          BY <1>1, <3>1 DEF Counted, Waiting
        <4> HIDE DEF c
        <4> QED
          BY <1>0, <4>1 DEF Process
      <3>2. CASE ~(isDl /\ q.ackIn = 0)
        <4>1. c = q
          BY <3>2 DEF Counted
        <4> QED
          BY <1>0, <4>1
      <3> QED
        BY <3>1, <3>2
    <2> HIDE DEF c
    <2> DEFINE t == IF c.short THEN c.since + d ELSE c.since
    <2>3. r = [c EXCEPT !.ackIn = @ - d, !.due = @ - d, !.since = t]
      BY <1>1, <2>2 DEF Elapsed, Waiting
    <2>4. t \in Nat /\ c.ackIn - d \in Int /\ c.due - d \in Int
      BY <2>1, <2>2
    <2>5. (c.short => t = c.since + d) /\ (~c.short => t = c.since)
      OBVIOUS
    <2> HIDE DEF t, r
    <2>6. /\ r \in Process /\ r.status = q.status /\ r.ackIn = q.ackIn - d /\ r.due = q.due - d
          /\ r.bit = q.bit /\ r.retxs = q.retxs /\ r.max = q.max /\ r.cancelled = q.cancelled
          /\ r.got = q.got /\ r.chosen = q.chosen /\ r.snr = q.snr
          /\ r.short = q.short /\ r.since = t
      BY <2>2, <2>3, <2>4 DEF Process
    <2>7. ReportOK(r)
      BY <2>1, <2>6 DEF ReportOK
    <2>8. WaitOK(r)
      <3>1. Wait(r.retxs) = Wait(q.retxs) /\ Wait(q.retxs) \in Nat
        BY <2>6, WaitIs
      <3> QED
        BY <2>1, <2>2, <2>5, <2>6, <3>1, MaxDelayIsMax, Constants DEF WaitOK
    <2>9. ProcOK(r)
      BY <1>1, <2>1, <2>6, <2>7, <2>8 DEF ProcOK, Waiting
    <2> QED
      BY <1>1, <2>6, <2>9 DEF Older, Waiting, r, c
  <1>2. CASE q.status = "pending_retx"
    <2>1. c = q
      BY <1>2 DEF Counted
    <2>2. r = [q EXCEPT !.due = @ - d, !.since = @ + d]
      BY <1>2, <2>1 DEF Elapsed
    <2>3. /\ q.retxs < q.max /\ ~q.cancelled /\ q.due = RetxTimeout - q.since
          /\ q.due \in Int /\ q.since \in Nat
      BY <1>0, <1>2, Fields DEF ProcOK
    <2>4. q.due - d \in Int /\ q.since + d \in Nat
      BY <2>3
    <2> HIDE DEF r
    <2>5. /\ r \in Process /\ r.status = q.status /\ r.due = q.due - d /\ r.since = q.since + d
          /\ r.retxs = q.retxs /\ r.max = q.max /\ r.cancelled = q.cancelled
      BY <1>0, <2>2, <2>4 DEF Process
    <2>6. r.due = RetxTimeout - r.since
      BY <2>3, <2>5, Constants
    <2>7. ProcOK(r)
      BY <1>2, <2>3, <2>5, <2>6 DEF ProcOK, Waiting
    <2> QED
      BY <1>2, <2>5, <2>7 DEF Older, Waiting, r
  <1>3. CASE q.status = "empty"
    <2>1. c = q
      BY <1>3 DEF Counted
    <2>2. r = q
      BY <1>3, <2>1 DEF Elapsed
    <2> QED
      BY <1>3, <2>2 DEF Older, Waiting
  <1> QED
    BY <1>0, <1>1, <1>2, <1>3 DEF Waiting

\* A process that timed out has waited long enough, if its timer does not
\* exceed the wheel.
LEMMA ExpiredInTime ==
  ASSUME NEW q, ProcOK(q), NEW r, NEW d \in Nat \ {0}, NEW n \in 1 .. 2,
         r = Elapsed(Counted(q, n), d), Expired(r), SetTo(Timer(r)) <= Wheel
  PROVE  WaitedLongEnough(r)
  <1>1. Older(q, r, d)
    BY ElapsedOlder
  <1>2. /\ r \in Process /\ r.due \in Int /\ r.ackIn \in Int /\ r.since \in Nat
        /\ r.short \in BOOLEAN
        /\ q \in Process /\ q.due \in Int /\ q.ackIn \in Int /\ q.since \in Nat
        /\ r.status \in {"empty", "waiting_ack", "pending_retx"}
    BY <1>1, Fields DEF Older, ProcOK
  <1>3. r.due % Wheel = 0 /\ r.status # "empty"
    BY DEF Expired
  <1>4. ASSUME r.due < Wheel PROVE r.due <= 0
    <2>1. Wheel \in Nat \ {0}
      BY Constants
    <2> QED
      BY <1>2, <1>3, <1>4, <2>1
  <1>5. CASE Waiting(r) /\ ~r.short
    <2>1. r.ackIn = q.ackIn - d /\ q.ackIn <= MaxDelay /\ r.due = r.ackIn + Wait(r.retxs)
      BY <1>1, <1>5 DEF Older, ProcOK, Waiting, WaitOK
    <2>2. /\ MaxDelay \in Nat /\ AckWait \in Nat /\ Wheel \in Nat
          /\ Wait(r.retxs) \in Nat /\ Wait(r.retxs) >= AckWait
      BY MaxDelayIsMax, Constants, WaitIs
    <2>a. Wait(r.retxs) = Wait(IF r.retxs = 0 THEN 0 ELSE 1)
      BY DEF Wait
    <2>b. SetTo(Timer(r)) = MaxDelay + Wait(r.retxs)
      BY <1>5, <2>a DEF SetTo, Timer, Waiting
    <2>3. r.due < Wheel
      BY <1>2, <2>1, <2>2, <2>b
    <2>4. -r.ackIn >= AckWait
      BY <1>2, <1>4, <2>1, <2>2, <2>3
    <2> QED
      BY <1>5, <2>4 DEF WaitedLongEnough, Waiting
  <1>6. CASE Waiting(r) /\ r.short
    <2>1. r.due = ShortWait - r.since
      BY <1>1, <1>6 DEF Older, ProcOK, WaitOK
    <2>2. ShortWait \in Nat /\ Wheel \in Nat /\ ShortWait <= Wheel
      BY <1>6, Constants DEF SetTo, Timer, Waiting
    <2>3. r.since >= ShortWait
      <3>1. CASE r.since = 0
        (* A report came in the slot that ends: at least one slot has passed. *)
        <4>1. q.short /\ r.since = q.since + d
          BY <1>1, <1>2, <1>6 DEF Elapsed, Counted, Process, Older, Waiting
        <4> QED
          BY <1>2, <3>1, <4>1
      <3>2. CASE r.since # 0
        BY <1>2, <1>4, <2>1, <2>2, <3>2
      <3> QED
        BY <3>1, <3>2
    <2> QED
      BY <1>6, <2>3 DEF WaitedLongEnough, Waiting
  <1>7. CASE r.status = "pending_retx"
    <2>1. r.due = RetxTimeout - r.since
      BY <1>1, <1>7 DEF Older, ProcOK
    <2>2. RetxTimeout \in Nat /\ Wheel \in Nat /\ RetxTimeout <= Wheel
      BY <1>7, Constants DEF SetTo, Timer
    <2>3. r.since >= RetxTimeout
      <3>1. r.since = q.since + d
        BY <1>1, <1>2, <1>7 DEF Elapsed, Counted, Process, Older
      <3> QED
        BY <1>2, <1>4, <2>1, <2>2, <3>1
    <2> QED
      BY <1>7, <2>3 DEF WaitedLongEnough
  <1> QED
    BY <1>2, <1>3, <1>5, <1>6, <1>7 DEF Waiting

-----------------------------------------------------------------------------
(* Events that answer processes.                                           *)

LEMMA HarqsFinite == IsFiniteSet(Harqs)
  <1>1. 0 \in Int /\ NofHarqs - 1 \in Int
    BY Constants
  <1> QED
    BY <1>1, FS_Interval DEF Harqs

\* No step makes a process that was only acknowledged pending.
AckedKept ==
  \A h \in Harqs :
    proc[h].status = "waiting_ack" /\ proc'[h].status = "pending_retx" => proc'[h].got # {"ack"}

\* The ids of the processes that become empty are pushed on the stack.
LEMMA UpdateFree ==
  ASSUME FreeInv, ProcInv, NEW new \in [Harqs -> Process], Update(new),
         \A h \in Harqs : proc[h].status = "empty" => new[h].status = "empty"
  PROVE  /\ free' \in Seq(Harqs)
         /\ \A i, j \in 1 .. Len(free') : free'[i] = free'[j] => i = j
         /\ \A i \in 1 .. Len(free') : proc'[free'[i]].status = "empty"
         /\ ue # "none" => \A h \in Harqs : proc'[h].status = "empty" =>
                             \E i \in 1 .. Len(free') : free'[i] = h
         /\ Released(new) = {} => free' = free
  <1> DEFINE S == Released(new)
             A == InOrder(S)
             F == free \o A
             L == Len(free)
             M == Len(A)
  <1>1. S \in SUBSET Nat /\ S \in SUBSET Harqs /\ IsFiniteSet(S)
    BY Constants, HarqsFinite, FS_Subset DEF Released
  <1>2. /\ A \in Seq(S)
        /\ \A i, j \in 1 .. Len(A) : A[i] = A[j] => i = j
        /\ \A h \in S : \E i \in 1 .. Len(A) : A[i] = h
    <2> HIDE DEF S
    <2> QED
      BY <1>1, InOrderLists
  <1>3. free' = F /\ proc' = new
    BY DEF Update
  <1>4. \A h \in S : proc[h].status # "empty" /\ new[h].status = "empty"
    BY DEF Released, Busy
  <1>5. \A h \in Harqs : new[h].status = "empty" => h \in S \/ proc[h].status = "empty"
    BY DEF Released, Busy
  <1>6. S = {} => M = 0
    <2>1. ASSUME S = {}, M # 0 PROVE FALSE
      <3>1. M \in Nat /\ 1 \in 1 .. M
        BY <1>2, <2>1
      <3>2. A[1] \in S
        BY <1>2, <3>1
      <3> QED
        BY <2>1, <3>2
    <2> QED
      BY <2>1
  <1> HIDE DEF S, A
  <1>7. A \in Seq(Harqs)
    BY <1>1, <1>2
  <1>8. /\ free \in Seq(Harqs) /\ L \in Nat /\ M \in Nat
        /\ \A i, j \in 1 .. L : free[i] = free[j] => i = j
        /\ \A i \in 1 .. L : free[i] \in Harqs /\ proc[free[i]].status = "empty"
        /\ ue # "none" => \A h \in Harqs : proc[h].status = "empty" => \E i \in 1 .. L : free[i] = h
    BY <1>7 DEF FreeInv, Busy
  <1>9. /\ F \in Seq(Harqs) /\ Len(F) = L + M
        /\ \A i \in 1 .. L : F[i] = free[i]
        /\ \A i \in L + 1 .. L + M : F[i] = A[i - L]
    BY <1>7, <1>8
  <1>10. \A i \in 1 .. M : A[i] \in S /\ F[L + i] = A[i] /\ L + i \in 1 .. L + M
    <2>1. ASSUME NEW i \in 1 .. M PROVE A[i] \in S /\ F[L + i] = A[i] /\ L + i \in 1 .. L + M
      <3>1. A[i] \in S
        BY <1>2
      <3>2. L + i \in L + 1 .. L + M /\ L + i - L = i /\ L + i \in 1 .. L + M
        BY <1>8
      <3> QED
        BY <1>9, <3>1, <3>2
    <2> QED
      BY <2>1
  <1> HIDE DEF F, L, M
  <1>11. ASSUME NEW i \in 1 .. L + M
         PROVE  \/ i \in 1 .. L /\ F[i] = free[i]
                \/ i - L \in 1 .. M /\ F[i] = A[i - L] /\ F[i] \in S
    <2>1. i \in 1 .. L \/ (i - L \in 1 .. M /\ i \in L + 1 .. L + M)
      BY <1>8
    <2> QED
      BY <1>9, <1>10, <2>1
  <1>12. ASSUME NEW i \in 1 .. L + M, NEW j \in 1 .. L + M, F[i] = F[j]
         PROVE  i = j
    <2>1. CASE i \in 1 .. L /\ F[i] = free[i] /\ j \in 1 .. L /\ F[j] = free[j]
      BY <1>8, <1>12, <2>1
    <2>2. CASE i - L \in 1 .. M /\ F[i] = A[i - L] /\ j - L \in 1 .. M /\ F[j] = A[j - L]
      <3>1. i - L = j - L
        BY <1>2, <1>12, <2>2 DEF M
      <3> QED
        BY <1>8, <3>1
    <2>3. CASE i \in 1 .. L /\ F[i] = free[i] /\ F[j] \in S
      BY <1>4, <1>8, <1>12, <2>3
    <2>4. CASE j \in 1 .. L /\ F[j] = free[j] /\ F[i] \in S
      BY <1>4, <1>8, <1>12, <2>4
    <2> QED
      BY <1>11, <2>1, <2>2, <2>3, <2>4
  <1>13. ASSUME NEW i \in 1 .. L + M
         PROVE  new[F[i]].status = "empty"
    <2>1. CASE i \in 1 .. L /\ F[i] = free[i]
      BY <1>8, <2>1
    <2>2. CASE F[i] \in S
      BY <1>4, <2>2
    <2> QED
      BY <1>11, <2>1, <2>2
  <1>14. ASSUME ue # "none", NEW h \in Harqs, new[h].status = "empty"
         PROVE  \E i \in 1 .. L + M : F[i] = h
    <2>1. CASE proc[h].status = "empty"
      <3>1. PICK i \in 1 .. L : free[i] = h
        BY <1>8, <1>14, <2>1
      <3>2. i \in 1 .. L + M
        BY <1>8
      <3> QED
        BY <1>9, <3>1, <3>2
    <2>2. CASE h \in S
      <3>1. PICK i \in 1 .. M : A[i] = h
        BY <1>2, <2>2 DEF M
      <3> QED
        BY <1>10, <3>1
    <2> QED
      BY <1>5, <1>14, <2>1, <2>2
  <1>15. S = {} => F = free
    <2>1. ASSUME S = {} PROVE F = free
      <3>1. M = 0
        BY <1>6, <2>1
      <3>2. A = <<>>
        BY <1>7, <3>1 DEF M
      <3> QED
        BY <1>8, <3>2 DEF F
    <2> QED
      BY <2>1
  <1> QED
    BY <1>3, <1>9, <1>12, <1>13, <1>14, <1>15 DEF S

\* Every process was answered or left alone.
LEMMA AnsweredStep ==
  ASSUME RestInv, ProcInv, FreeInv, UciInv, GrantInv, ue # "none", ue' # "none",
         NEW new \in [Harqs -> Process], Update(new),
         \A h \in Harqs : Answered(proc[h], new[h]),
         UNCHANGED <<isDl, uci, granted>>,
         granted # None => new[granted].status # "pending_retx"
  PROVE  ProcInv' /\ FreeInv' /\ GoneInv' /\ UciInv' /\ GrantInv'
  <1>1. proc' = new /\ \A h \in Harqs : ProcOK(new[h])
    BY DEF Update, Answered
  <1>2. ProcInv'
    BY <1>1 DEF ProcInv, ProcOK, ReportOK, WaitOK, Waiting
  <1>3. \A h \in Harqs : proc[h].status = "empty" => new[h].status = "empty"
    BY DEF Answered
  <1>4. FreeInv'
    BY <1>3, UpdateFree DEF FreeInv, Busy
  <1>5. GoneInv'
    BY DEF GoneInv
  <1>6. \A h \in Harqs : Waiting(new[h]) => /\ Waiting(proc[h])
                                            /\ new[h].ackIn = proc[h].ackIn
                                            /\ new[h].bit = proc[h].bit
                                            /\ ~isDl /\ new[h].short => proc[h].short
    BY DEF Answered
  <1>7. UciInv'
    BY <1>1, <1>6 DEF UciInv, Waiting
  <1>8. GrantInv'
    <2>1. ASSUME granted # None
          PROVE  new[granted].status = "empty" \/ (Waiting(new[granted]) /\ new[granted].ackIn > 0)
      <3>1. granted \in Harqs
        BY <2>1 DEF RestInv
      <3>2. new[granted].status \in {"empty", "waiting_ack", "pending_retx"}
        BY <3>1, Fields
      <3>3. new[granted].status = "empty" \/ Waiting(new[granted])
        BY <2>1, <3>2 DEF Waiting
      <3>4. ASSUME Waiting(new[granted]) PROVE new[granted].ackIn > 0
        <4>1. Waiting(proc[granted]) /\ new[granted].ackIn = proc[granted].ackIn
          BY <1>6, <3>1, <3>4
        <4>2. proc[granted].ackIn > 0
          BY <2>1, <4>1 DEF GrantInv, Waiting
        <4> QED
          BY <4>1, <4>2
      <3> QED
        BY <3>3, <3>4
    <2> QED
      BY <1>1, <2>1 DEF GrantInv, Waiting
  <1> QED
    BY <1>2, <1>4, <1>5, <1>7, <1>8

\* What was on its way still meets what it may meet.
LEMMA AirKept ==
  ASSUME NEW new \in [Harqs -> Process], proc' = new, isDl' = isDl,
         \A h \in Harqs : Answered(proc[h], new[h]),
         NEW r, AirOK(r),
         ~isDl /\ r.kind = "error" /\ r.age <= History => Waiting(new[r.id])
  PROVE  AirOK(r)'
  <1>1. \A h \in Harqs : Waiting(new[h]) => /\ Waiting(proc[h])
                                            /\ new[h].ackIn = proc[h].ackIn
                                            /\ new[h].bit = proc[h].bit
    BY DEF Answered
  <1>2. \A age, bit : Found(age, bit)' \subseteq Found(age, bit)
    BY <1>1 DEF Found, Answers, Waiting
  <1> QED
    BY <1>1, <1>2 DEF AirOK, Waiting

-----------------------------------------------------------------------------
(* The UE comes and goes.                                                  *)

LEMMA AddUeStep ==
  ASSUME IInv, AddUe
  PROVE  IInv' /\ AckedKept
  <1>1. /\ ue = "none" /\ ue' = "active" /\ free' = [i \in 1 .. NofHarqs |-> NofHarqs - i]
        /\ UNCHANGED <<isDl, remIn, proc, granted, uci, air, skips, early>>
    BY DEF AddUe
  <1>2. air = {} /\ granted = None /\ \A h \in Harqs : ~Busy(h)
    BY <1>1 DEF IInv, GoneInv
  <1>3. FreeInv'
    <2>1. NofHarqs \in Nat
      BY Constants
    <2>2. \A i \in 1 .. NofHarqs : NofHarqs - i \in Harqs
      BY <2>1 DEF Harqs
    <2>3. \A h \in Harqs : NofHarqs - h \in 1 .. NofHarqs /\ NofHarqs - (NofHarqs - h) = h
      BY <2>1 DEF Harqs
    <2>4. free' \in Seq(Harqs) /\ Len(free') = NofHarqs
      BY <1>1, <2>1, <2>2
    <2>5. \A i \in 1 .. NofHarqs : free'[i] = NofHarqs - i
      BY <1>1
    <2>6. \A i, j \in 1 .. NofHarqs : free'[i] = free'[j] => i = j
      BY <2>1, <2>5
    <2>7. \A i \in 1 .. NofHarqs : proc'[free'[i]].status = "empty"
      BY <1>1, <1>2, <2>2, <2>5 DEF Busy
    <2>8. \A h \in Harqs : \E i \in 1 .. NofHarqs : free'[i] = h
      BY <2>3, <2>5
    <2> QED
      BY <2>4, <2>6, <2>7, <2>8 DEF FreeInv, Busy
  <1>4. RestInv'
    BY <1>1 DEF IInv, RestInv
  <1>5. ProcInv' /\ UciInv' /\ GrantInv'
    BY <1>1 DEF IInv, ProcInv, ProcOK, ReportOK, WaitOK, Waiting, UciInv, GrantInv
  <1>6. GoneInv' /\ AirInv'
    BY <1>1, <1>2 DEF GoneInv, AirInv
  <1>7. AckedKept
    BY <1>1 DEF AckedKept
  <1> QED
    BY <1>7, <1>3, <1>4, <1>5, <1>6 DEF IInv

LEMMA GoneStep ==
  ASSUME IInv, Gone, granted' = None, isDl' = isDl, skips' \in 0 .. MaxSkips, early' \in SUBSET Timers
  PROVE  IInv' /\ AckedKept
  <1>1. /\ ue' = "none" /\ remIn' = 0 /\ proc' = [h \in Harqs |-> Empty] /\ free' = <<>>
        /\ uci' = [k \in 0 .. MaxDelay |-> 0] /\ air' = {}
    BY DEF Gone, IInv, RestInv
  <1>2. ProcOK(Empty) /\ Empty.status = "empty" /\ Empty \in Process
    BY EmptyOK DEF ProcOK
  <1>3. \A h \in Harqs : proc'[h] = Empty
    BY <1>1
  <1>4. ProcInv'
    <2>1. \A h \in Harqs : ProcOK(proc'[h])
      BY <1>2, <1>3
    <2>2. proc' \in [Harqs -> Process]
      BY <1>1, <1>2
    <2> QED
      BY <2>1, <2>2 DEF ProcInv, ProcOK, ReportOK, WaitOK, Waiting
  <1>5. RestInv'
    BY <1>1, Constants DEF RestInv, IInv
  <1>6. FreeInv'
    BY <1>1 DEF FreeInv
  <1>7. GoneInv' /\ AirInv' /\ GrantInv'
    BY <1>1, <1>2, <1>3 DEF GoneInv, AirInv, GrantInv, Busy
  <1>8. UciInv'
    BY <1>2, <1>3 DEF UciInv, Waiting
  <1>9. AckedKept
    BY <1>2, <1>3 DEF AckedKept
  <1> QED
    BY <1>9, <1>4, <1>5, <1>6, <1>7, <1>8 DEF IInv

LEMMA CancelKeepsWaiting ==
  ASSUME NEW q
  PROVE  /\ Waiting(q) => Waiting(cancel_retxs(q))
         /\ q.status = "empty" => cancel_retxs(q) = q
  <1>1. ASSUME Waiting(q) PROVE Waiting(cancel_retxs(q))
    <2>1. cancel_retxs(q) = [q EXCEPT !.max = q.retxs, !.cancelled = TRUE]
      BY <1>1 DEF cancel_retxs, Waiting
    <2> QED
      BY <1>1, <2>1 DEF Waiting
  <1>2. ASSUME q.status = "empty" PROVE cancel_retxs(q) = q
    BY <1>2 DEF cancel_retxs
  <1> QED
    BY <1>1, <1>2

\* ScheduleUeRem and CancelRetxs.
LEMMA CancelStep ==
  ASSUME IInv, ue # "none", ue' \in {"active", "leaving"}, remIn' \in 0 .. RemDelay,
         NEW new, Update(new), DOMAIN new = Harqs, new = [h \in Harqs |-> new[h]],
         \A h \in Harqs : new[h] = proc[h] \/ new[h] = cancel_retxs(proc[h]),
         UNCHANGED <<isDl, granted, uci, air, skips, early>>
  PROVE  IInv' /\ AckedKept
  <1>1. \A h \in Harqs : ProcOK(proc[h])
    BY DEF IInv, ProcInv
  <1>2. \A h \in Harqs : Answered(proc[h], new[h])
    BY <1>1, CancelRetxsAnswered, SameAnswered
  <1>3. new \in [Harqs -> Process]
    BY <1>2 DEF Answered, ProcOK
  <1>4. \A h \in Harqs : /\ Waiting(proc[h]) => Waiting(new[h])
                         /\ proc[h].status = "empty" => new[h].status = "empty"
    BY CancelKeepsWaiting
  <1>5. granted # None => new[granted].status # "pending_retx"
    BY <1>4 DEF IInv, GrantInv, RestInv, Waiting
  <1>6. ProcInv' /\ FreeInv' /\ GoneInv' /\ UciInv' /\ GrantInv'
    BY <1>2, <1>3, <1>5, AnsweredStep DEF IInv
  <1>7. RestInv'
    BY DEF IInv, RestInv
  <1>8. AirInv'
    <2>1. proc' = new
      BY DEF Update
    <2>2. ASSUME NEW r \in air PROVE AirOK(r)'
      <3>1. AirOK(r)
        BY DEF IInv, AirInv
      <3>2. ~isDl /\ r.kind = "error" /\ r.age <= History => Waiting(new[r.id])
        BY <1>4, <3>1 DEF AirOK
      <3> QED
        BY <1>2, <1>3, <2>1, <3>1, <3>2, AirKept
    <2> QED
      BY <2>2 DEF IInv, AirInv
  <1>9. AckedKept
    BY <1>2 DEF AckedKept, Answered, Waiting, Update
  <1> QED
    BY <1>9, <1>6, <1>7, <1>8 DEF IInv

LEMMA ScheduleUeRemStep ==
  ASSUME IInv, ScheduleUeRem
  PROVE  IInv' /\ AckedKept
  <1> DEFINE new == [h \in Harqs |-> cancel_retxs(proc[h])]
  <1>1. /\ ue # "none" /\ ue' \in {"active", "leaving"} /\ remIn' \in 0 .. RemDelay
        /\ Update(new) /\ UNCHANGED <<isDl, granted, uci, air, skips, early>>
    BY Constants DEF ScheduleUeRem
  <1>2. /\ DOMAIN new = Harqs /\ new = [h \in Harqs |-> new[h]]
        /\ \A h \in Harqs : new[h] = proc[h] \/ new[h] = cancel_retxs(proc[h])
    OBVIOUS
  <1> HIDE DEF new
  <1> QED
    BY <1>1, <1>2, CancelStep

LEMMA CancelRetxsStep ==
  ASSUME IInv, NEW S, CancelRetxs(S)
  PROVE  IInv' /\ AckedKept
  <1> DEFINE new == [h \in Harqs |-> IF h \in S THEN cancel_retxs(proc[h]) ELSE proc[h]]
  <1>1. /\ ue # "none" /\ ue' \in {"active", "leaving"} /\ remIn' \in 0 .. RemDelay
        /\ Update(new) /\ UNCHANGED <<isDl, granted, uci, air, skips, early>>
    BY DEF CancelRetxs, IInv, RestInv
  <1>2. /\ DOMAIN new = Harqs /\ new = [h \in Harqs |-> new[h]]
        /\ \A h \in Harqs : new[h] = proc[h] \/ new[h] = cancel_retxs(proc[h])
    OBVIOUS
  <1> HIDE DEF new
  <1> QED
    BY <1>1, <1>2, CancelStep

LEMMA ResetGrantStep ==
  ASSUME IInv, ResetGrant
  PROVE  IInv' /\ AckedKept
  <1> DEFINE new == [proc EXCEPT ![granted] = Empty]
  <1>1. /\ granted # None /\ Busy(granted) /\ Update(new)
        /\ UNCHANGED <<isDl, ue, remIn, granted, uci, air, skips, early>>
    BY DEF ResetGrant
  <1>2. granted \in Harqs /\ proc \in [Harqs -> Process] /\ ue # "none"
    BY <1>1 DEF IInv, RestInv, ProcInv, GoneInv
  <1>3. Waiting(proc[granted]) /\ proc[granted].ackIn > 0
    BY <1>1 DEF IInv, GrantInv, Busy
  <1>4. Empty \in Process /\ Empty.status = "empty"
    BY EmptyOK DEF ProcOK
  <1>5. new \in [Harqs -> Process] /\ new[granted] = Empty /\ \A h \in Harqs \ {granted} : new[h] = proc[h]
    BY <1>2, <1>4
  <1> HIDE DEF new
  <1>6. \A h \in Harqs : Answered(proc[h], new[h])
    BY <1>5, EmptyAnswered, SameAnswered DEF IInv, ProcInv
  <1>7. new[granted].status # "pending_retx"
    BY <1>4, <1>5
  <1>8. ProcInv' /\ FreeInv' /\ GoneInv' /\ UciInv' /\ GrantInv'
    BY <1>1, <1>2, <1>5, <1>6, <1>7, AnsweredStep DEF IInv
  <1>9. RestInv'
    BY <1>1 DEF IInv, RestInv
  <1>10. AirInv'
    <2>1. proc' = new
      BY <1>1 DEF Update
    <2>2. ASSUME NEW r \in air PROVE AirOK(r)'
      <3>1. AirOK(r)
        BY DEF IInv, AirInv
      <3>2. ASSUME ~isDl, r.kind = "error", r.age <= History
            PROVE  Waiting(new[r.id])
        <4>1. /\ r.id \in Harqs /\ Waiting(proc[r.id]) /\ proc[r.id].ackIn = -r.age
              /\ r.age \in Nat
          BY <3>1, <3>2 DEF AirOK, Indication
        <4>2. r.id # granted
          BY <1>3, <4>1
        <4> QED
          BY <1>5, <4>1, <4>2
      <3> QED
        BY <1>1, <1>5, <1>6, <2>1, <3>1, <3>2, AirKept
    <2> QED
      BY <1>1, <2>2 DEF IInv, AirInv
  <1>11. AckedKept
    BY <1>1, <1>6 DEF AckedKept, Answered, Waiting, Update
  <1> QED
    BY <1>11, <1>8, <1>9, <1>10 DEF IInv

-----------------------------------------------------------------------------
(* Grants.                                                                 *)

\* What a grant makes of process h.
Sending(h, k, retxs, max) ==
  [Empty EXCEPT !.status = "waiting_ack", !.ackIn = k, !.due = k + Wait(retxs),
                !.retxs = retxs, !.max = max, !.bit = HarqBit(k),
                !.cancelled = proc[h].cancelled]

LEMMA SendingOK ==
  ASSUME RestInv, NEW h \in Harqs, NEW k \in Delays, NEW retxs \in 0 .. MaxRetxs,
         NEW max \in 0 .. MaxRetxs, retxs <= max, proc[h].cancelled = FALSE, SlotFree(k)
  PROVE  LET q == Sending(h, k, retxs, max)
         IN  /\ ProcOK(q) /\ Waiting(q) /\ q.ackIn = k /\ q.bit = HarqBit(k) /\ q.short = FALSE
             /\ k \in 1 .. MaxDelay /\ (isDl => uci[k] \in 0 .. MaxBits - 1)
  <1> DEFINE b == HarqBit(k)
             q == Sending(h, k, retxs, max)
  <1>1. /\ k \in Nat \ {0} /\ k <= MaxDelay /\ k \in 1 .. MaxDelay /\ k \in 0 .. MaxDelay
        /\ AckWait \in Nat /\ MaxBits \in Nat
    BY MaxDelayIsMax, HarqAssumption
  <1>2. uci[k] \in 0 .. MaxBits /\ isDl \in BOOLEAN
    BY <1>1 DEF RestInv
  <1>3. isDl => uci[k] \in 0 .. MaxBits - 1
    BY <1>1, <1>2 DEF SlotFree
  <1>4. b \in 0 .. MaxBits
    BY <1>1, <1>2 DEF HarqBit
  <1>5. q = [Empty EXCEPT !.status = "waiting_ack", !.ackIn = k, !.due = k + Wait(retxs),
                          !.retxs = retxs, !.max = max, !.bit = b, !.cancelled = FALSE]
    BY DEF Sending
  <1> HIDE DEF b, q
  <1>6. /\ q.status = "waiting_ack" /\ q.ackIn = k /\ q.due = k + Wait(retxs)
        /\ q.retxs = retxs /\ q.max = max /\ q.bit = b /\ q.cancelled = FALSE
        /\ q.got = {} /\ q.chosen = "dtx" /\ q.snr = 0 /\ q.short = FALSE
    BY <1>5 DEF Empty
  <1>7. q \in Process
    <2>1. Empty \in Process
      BY EmptyOK DEF ProcOK
    <2>2. k \in Int /\ k + Wait(retxs) \in Int
      BY <1>1, WaitIs
    <2> QED
      BY <1>4, <1>5, <2>1, <2>2 DEF Process
  <1>8. ReportOK(q) /\ WaitOK(q)
    BY <1>1, <1>6 DEF ReportOK, WaitOK
  <1>9. ProcOK(q) /\ Waiting(q)
    BY <1>6, <1>7, <1>8 DEF ProcOK, Waiting
  <1> QED
    BY <1>1, <1>3, <1>6, <1>9 DEF q, b

LEMMA GrantStep ==
  ASSUME IInv, ue # "none", NEW h \in Harqs, NEW k \in Delays, NEW retxs \in 0 .. MaxRetxs,
         NEW max \in 0 .. MaxRetxs, retxs <= max,
         ~Waiting(proc[h]), proc[h].cancelled = FALSE, Grant(h, k, retxs, max)
  PROVE  /\ RestInv' /\ ProcInv' /\ GoneInv' /\ UciInv' /\ GrantInv' /\ AirInv'
         /\ proc'[h].status = "waiting_ack" /\ \A g \in Harqs \ {h} : proc'[g] = proc[g]
  <1> DEFINE q == Sending(h, k, retxs, max)
  <1>1. /\ granted = None /\ SlotFree(k) /\ proc' = [proc EXCEPT ![h] = q]
        /\ uci' = IF isDl THEN [uci EXCEPT ![k] = @ + 1] ELSE uci
        /\ granted' = h /\ air' = Orphan(h)
        /\ UNCHANGED <<isDl, ue, remIn, skips, early>>
    BY Zenon DEF Grant, Sending
  <1>2. /\ ProcOK(q) /\ Waiting(q) /\ q.ackIn = k /\ q.bit = HarqBit(k) /\ q.short = FALSE
        /\ k \in 1 .. MaxDelay /\ (isDl => uci[k] \in 0 .. MaxBits - 1)
    BY <1>1, SendingOK DEF IInv
  <1> HIDE DEF q
  <1>3. q \in Process
    BY <1>2 DEF ProcOK
  <1>4. proc \in [Harqs -> Process] /\ \A g \in Harqs : ProcOK(proc[g])
    BY DEF IInv, ProcInv
  <1>5. /\ proc' \in [Harqs -> Process] /\ proc'[h] = q
        /\ \A g \in Harqs \ {h} : proc'[g] = proc[g]
    BY <1>1, <1>3, <1>4
  <1>6. ProcInv'
    <2>1. \A g \in Harqs : ProcOK(proc'[g])
      BY <1>2, <1>4, <1>5
    <2> QED
      BY <1>5, <2>1 DEF ProcInv, ProcOK, ReportOK, WaitOK, Waiting
  <1>7. uci \in [0 .. MaxDelay -> 0 .. MaxBits] /\ MaxBits \in Nat /\ MaxDelay \in Nat
    BY Constants, MaxDelayIsMax DEF IInv, RestInv
  <1>8. /\ uci' \in [0 .. MaxDelay -> 0 .. MaxBits]
        /\ \A i \in 0 .. MaxDelay : uci'[i] >= uci[i]
        /\ isDl => uci'[k] = uci[k] + 1
    <2>1. CASE isDl
      BY <1>1, <1>2, <1>7, <2>1
    <2>2. CASE ~isDl
      BY <1>1, <1>7, <2>2
    <2> QED
      BY <2>1, <2>2
  <1>9. RestInv'
    BY <1>1, <1>8 DEF IInv, RestInv
  <1>10. GoneInv'
    BY <1>1 DEF GoneInv
  <1>11. GrantInv'
    BY <1>1, <1>2, <1>5 DEF GrantInv, Waiting
  <1>12. \A g \in Harqs \ {h} : Waiting(proc[g]) =>
           /\ proc[g].ackIn \in Int /\ proc[g].bit \in Nat /\ proc[g].ackIn <= MaxDelay
           /\ isDl /\ proc[g].ackIn >= 0 => proc[g].bit < uci[proc[g].ackIn]
           /\ ~isDl => proc[g].bit = 0 /\ ~proc[g].short
           /\ ~(proc[g].ackIn = k /\ proc[g].bit = HarqBit(k))
    <2> SUFFICES ASSUME NEW g \in Harqs \ {h}, Waiting(proc[g])
                 PROVE  /\ proc[g].ackIn \in Int /\ proc[g].bit \in Nat /\ proc[g].ackIn <= MaxDelay
                        /\ isDl /\ proc[g].ackIn >= 0 => proc[g].bit < uci[proc[g].ackIn]
                        /\ ~isDl => proc[g].bit = 0 /\ ~proc[g].short
                        /\ ~(proc[g].ackIn = k /\ proc[g].bit = HarqBit(k))
      OBVIOUS
    <2>1. proc[g].ackIn \in Int /\ proc[g].bit \in Nat /\ proc[g].ackIn <= MaxDelay
      BY <1>4, Fields, WaitingFields, <1>7 DEF WaitOK
    <2>2. /\ isDl /\ proc[g].ackIn >= 0 => proc[g].bit < uci[proc[g].ackIn]
          /\ ~isDl => proc[g].bit = 0 /\ ~proc[g].short
      BY DEF IInv, UciInv
    <2>3. ASSUME proc[g].ackIn = k, proc[g].bit = HarqBit(k) PROVE FALSE
      <3>1. CASE isDl
        BY <1>2, <2>1, <2>2, <2>3, <3>1 DEF HarqBit
      <3>2. CASE ~isDl
        BY <1>1, <2>3, <3>2 DEF SlotFree, Waiting
      <3> QED
        BY <3>1, <3>2
    <2> QED
      BY <2>1, <2>2, <2>3
  <1>13. UciInv'
    <2>1. ASSUME NEW g \in Harqs, Waiting(proc'[g])
          PROVE  /\ isDl /\ proc'[g].ackIn >= 0 => proc'[g].bit < uci'[proc'[g].ackIn]
                 /\ ~isDl => proc'[g].bit = 0 /\ ~proc'[g].short
      <3>1. CASE g = h
        BY <1>2, <1>5, <1>8, <3>1 DEF HarqBit
      <3>2. CASE g # h
        <4>1. proc'[g] = proc[g] /\ Waiting(proc[g])
          BY <1>5, <2>1, <3>2
        <4>2. proc[g].ackIn >= 0 => proc[g].ackIn \in 0 .. MaxDelay
          BY <1>7, <1>12, <3>2, <4>1
        <4> QED
          BY <1>7, <1>8, <1>12, <3>2, <4>1, <4>2
      <3> QED
        BY <3>1, <3>2
    <2>2. ASSUME NEW g1 \in Harqs, NEW g2 \in Harqs, Waiting(proc'[g1]), Waiting(proc'[g2]),
                 proc'[g1].ackIn = proc'[g2].ackIn, proc'[g1].bit = proc'[g2].bit
          PROVE  g1 = g2
      <3>1. CASE g1 # h /\ g2 # h
        <4>1. proc'[g1] = proc[g1] /\ proc'[g2] = proc[g2]
          BY <1>5, <3>1
        <4> QED
          BY <2>2, <4>1 DEF IInv, UciInv
      <3>2. CASE g1 = h /\ g2 # h
        BY <1>2, <1>5, <1>12, <2>2, <3>2
      <3>3. CASE g1 # h /\ g2 = h
        BY <1>2, <1>5, <1>12, <2>2, <3>3
      <3> QED
        BY <3>1, <3>2, <3>3
    <2> QED
      BY <1>1, <2>1, <2>2 DEF UciInv, Waiting
  <1> DEFINE o(r) == [r EXCEPT !.of = [i \in DOMAIN r.of |-> IF r.of[i] = h THEN None ELSE r.of[i]]]
  <1>14. air' = {o(r) : r \in air}
    BY <1>1 DEF Orphan
  <1>15. ASSUME NEW r \in air PROVE AirOK(o(r))'
    <2>1. AirOK(r) /\ r \in Indication /\ r.age \in Nat /\ r.age >= 1
      BY DEF IInv, AirInv, AirOK, Indication
    <2>2. /\ o(r).kind = r.kind /\ o(r).age = r.age /\ o(r).left = r.left /\ o(r).id = r.id
          /\ DOMAIN o(r).of = DOMAIN r.of
          /\ \A i \in DOMAIN r.of : o(r).of[i] = IF r.of[i] = h THEN None ELSE r.of[i]
      BY <2>1 DEF Indication
    <2>3. o(r) \in Indication
      <3> DEFINE T == Harqs \cup {None}
                 f == [i \in DOMAIN r.of |-> IF r.of[i] = h THEN None ELSE r.of[i]]
      <3>1. r.of \in Seq(T) /\ Len(r.of) \in Nat
        BY <2>1 DEF Indication
      <3>2. DOMAIN r.of = 1 .. Len(r.of) /\ \A i \in 1 .. Len(r.of) : r.of[i] \in T
        BY <3>1
      <3>3. f \in [1 .. Len(r.of) -> T]
        BY <3>2
      <3>4. f \in Seq(T)
        <4> HIDE DEF f, T
        <4> QED
          BY <3>1, <3>3
      <3> HIDE DEF f
      <3>5. [r EXCEPT !.of = f] \in Indication
        BY <2>1, <3>4 DEF Indication
      <3> QED
        BY <3>5 DEF f
    <2> HIDE DEF o
    <2>4. \A bit : Found(r.age, bit)' \subseteq Found(r.age, bit) \ {h}
      <3>1. q.ackIn # -r.age
        BY <1>2, <1>7, <2>1
      <3> QED
        BY <1>5, <3>1 DEF Found, Answers
    <2>5. ASSUME isDl, NEW i \in DOMAIN o(r).of
          PROVE  Found(o(r).age, i - 1)' \subseteq {o(r).of[i]}
      <3>1. Found(r.age, i - 1) \subseteq {r.of[i]}
        BY <2>1, <2>2, <2>5 DEF AirOK
      <3>2. Found(o(r).age, i - 1)' \subseteq Found(r.age, i - 1) \ {h}
        BY <2>2, <2>4
      <3> QED
        BY <2>2, <2>5, <3>1, <3>2
    <2>6. ASSUME ~isDl
          PROVE  /\ o(r).left = 1 /\ o(r).id \in Harqs /\ DOMAIN o(r).of = {1}
                 /\ o(r).kind = "report" => Found(o(r).age, 0)' \subseteq {o(r).of[1]}
                 /\ o(r).kind = "error" /\ o(r).age <= History =>
                      o(r).of[1] = o(r).id /\ Waiting(proc'[o(r).id]) /\ proc'[o(r).id].ackIn = -o(r).age
      <3>1. /\ r.left = 1 /\ r.id \in Harqs /\ DOMAIN r.of = {1}
            /\ r.kind = "report" => Found(r.age, 0) \subseteq {r.of[1]}
            /\ r.kind = "error" /\ r.age <= History =>
                 r.of[1] = r.id /\ Waiting(proc[r.id]) /\ proc[r.id].ackIn = -r.age
        BY <2>1, <2>6 DEF AirOK
      <3>2. o(r).of[1] = IF r.of[1] = h THEN None ELSE r.of[1]
        BY <2>2, <3>1
      <3>3. r.kind = "report" => Found(r.age, 0)' \subseteq {o(r).of[1]}
        BY <2>4, <3>1, <3>2
      <3>4. r.kind = "error" /\ r.age <= History => r.id # h
        BY <3>1
      <3> QED
        BY <1>5, <2>2, <3>1, <3>2, <3>3, <3>4
    <2> QED
      BY <1>1, <2>1, <2>2, <2>3, <2>5, <2>6 DEF AirOK, Waiting
  <1>16. ASSUME ~isDl, NEW r \in air, NEW s \in air, o(r).age = o(s).age
         PROVE  r = s
    <2>1. o(r).age = r.age /\ o(s).age = s.age
      BY DEF IInv, AirInv, AirOK, Indication
    <2> QED
      BY <1>16, <2>1 DEF IInv, AirInv
  <1> HIDE DEF o
  <1>17. AirInv'
    BY <1>1, <1>14, <1>15, <1>16 DEF AirInv
  <1> QED
    BY <1>2, <1>5, <1>6, <1>9, <1>10, <1>11, <1>13, <1>17 DEF Waiting

LEMMA NewTxStep ==
  ASSUME IInv, NEW k \in Delays, NewTx(k)
  PROVE  IInv' /\ AckedKept
  <1> DEFINE L == Len(free)
             h == free[L]
  <1>1. /\ ue = "active" /\ free # <<>> /\ Grant(h, k, 0, MaxRetxs)
        /\ free' = SubSeq(free, 1, L - 1)
    BY DEF NewTx
  <1>2. /\ free \in Seq(Harqs) /\ L \in Nat \ {0} /\ L \in 1 .. L
        /\ \A i, j \in 1 .. L : free[i] = free[j] => i = j
        /\ \A i \in 1 .. L : free[i] \in Harqs /\ proc[free[i]].status = "empty"
        /\ \A g \in Harqs : proc[g].status = "empty" => \E i \in 1 .. L : free[i] = g
    BY <1>1 DEF IInv, FreeInv, Busy
  <1> HIDE DEF h
  <1>3. /\ h \in Harqs /\ h = free[L] /\ proc[h] = Empty
    BY <1>2 DEF h, IInv, ProcInv, ProcOK
  <1>4. ~Waiting(proc[h]) /\ proc[h].cancelled = FALSE
    BY <1>3 DEF Empty, Waiting
  <1>5. 0 \in 0 .. MaxRetxs /\ MaxRetxs \in 0 .. MaxRetxs /\ 0 <= MaxRetxs /\ ue # "none"
    BY <1>1, Constants
  <1>6. /\ RestInv' /\ ProcInv' /\ GoneInv' /\ UciInv' /\ GrantInv' /\ AirInv'
        /\ proc'[h].status = "waiting_ack" /\ \A g \in Harqs \ {h} : proc'[g] = proc[g]
    BY <1>1, <1>3, <1>4, <1>5, GrantStep
  <1>7. /\ free' \in Seq(Harqs) /\ Len(free') = L - 1
        /\ \A i \in 1 .. L - 1 : free'[i] = free[i]
    <2>1. 1 \in Int /\ L - 1 \in Int /\ \A i \in 1 .. L - 1 : free[i] \in Harqs
      BY <1>2
    <2> HIDE DEF L
    <2>2. /\ free' \in Seq(Harqs) /\ Len(free') = IF 1 <= L - 1 THEN L - 1 - 1 + 1 ELSE 0
          /\ \A i \in 1 .. L - 1 - 1 + 1 : free'[i] = free[1 + i - 1]
      BY <1>1, <2>1, SubSeqProperties
    <2> QED
      BY <1>2, <2>2
  <1> HIDE DEF L
  <1>8. \A i \in 1 .. L - 1 : i \in 1 .. L /\ i # L
    BY <1>2
  <1>9. \A i \in 1 .. L - 1 : free[i] # h
    BY <1>2, <1>3, <1>8
  <1>10. FreeInv'
    <2>1. \A i, j \in 1 .. L - 1 : free'[i] = free'[j] => i = j
      BY <1>2, <1>7, <1>8
    <2>2. \A i \in 1 .. L - 1 : proc'[free'[i]].status = "empty"
      BY <1>2, <1>6, <1>7, <1>8, <1>9
    <2>3. ASSUME NEW g \in Harqs, proc'[g].status = "empty"
          PROVE  \E i \in 1 .. L - 1 : free'[i] = g
      <3>1. g # h /\ proc[g].status = "empty"
        BY <1>6, <2>3
      <3>2. PICK i \in 1 .. L : free[i] = g
        BY <1>2, <3>1
      <3>3. i \in 1 .. L - 1
        BY <1>2, <1>3, <3>1, <3>2
      <3> QED
        BY <1>7, <3>2, <3>3
    <2> QED
      BY <1>7, <2>1, <2>2, <2>3 DEF FreeInv, Busy
  <1>11. AckedKept
    BY <1>3, <1>6 DEF AckedKept
  <1> QED
    BY <1>11, <1>6, <1>10 DEF IInv

LEMMA NewRetxStep ==
  ASSUME IInv, NEW h \in Harqs, NEW k \in Delays, NewRetx(h, k)
  PROVE  IInv' /\ AckedKept
  <1>1. /\ proc[h].status = "pending_retx" /\ free' = free
        /\ Grant(h, k, proc[h].retxs + 1, proc[h].max)
    BY DEF NewRetx
  <1>2. /\ proc[h] \in Process /\ proc[h].retxs < proc[h].max /\ ~proc[h].cancelled
    BY <1>1 DEF IInv, ProcInv, ProcOK
  <1>3. /\ proc[h].retxs + 1 \in 0 .. MaxRetxs /\ proc[h].max \in 0 .. MaxRetxs
        /\ proc[h].retxs + 1 <= proc[h].max
    BY <1>2, Fields, Constants
  <1>4. ~Waiting(proc[h]) /\ proc[h].cancelled = FALSE
    <2>1. proc[h].cancelled \in BOOLEAN
      BY <1>2, Fields
    <2> QED
      BY <1>1, <1>2, <2>1 DEF Waiting
  <1>5. ue # "none"
    BY <1>1 DEF IInv, GoneInv, Busy
  <1>6. /\ RestInv' /\ ProcInv' /\ GoneInv' /\ UciInv' /\ GrantInv' /\ AirInv'
        /\ proc'[h].status = "waiting_ack" /\ \A g \in Harqs \ {h} : proc'[g] = proc[g]
    BY <1>1, <1>3, <1>4, <1>5, GrantStep
  <1>7. ue' = ue
    BY <1>1 DEF Grant
  <1>8. FreeInv'
    <2>1. /\ free \in Seq(Harqs)
          /\ \A i, j \in 1 .. Len(free) : free[i] = free[j] => i = j
          /\ \A i \in 1 .. Len(free) : free[i] \in Harqs /\ proc[free[i]].status = "empty"
          /\ \A g \in Harqs : proc[g].status = "empty" => \E i \in 1 .. Len(free) : free[i] = g
      BY <1>5 DEF IInv, FreeInv, Busy
    <2>2. \A i \in 1 .. Len(free) : proc'[free[i]].status = "empty"
      BY <1>1, <1>6, <2>1
    <2>3. \A g \in Harqs : proc'[g].status = "empty" => \E i \in 1 .. Len(free) : free[i] = g
      BY <1>6, <2>1
    <2> QED
      BY <1>1, <2>1, <2>2, <2>3 DEF FreeInv, Busy
  <1>9. AckedKept
    BY <1>6 DEF AckedKept
  <1> QED
    BY <1>9, <1>6, <1>8 DEF IInv

-----------------------------------------------------------------------------
(* Indications.                                                            *)

LEMMA DeliveredStep ==
  ASSUME IInv, NEW r \in air, Delivered(r), NEW new \in [Harqs -> Process], Update(new),
         \A h \in Harqs : Answered(proc[h], new[h]),
         \A s \in air \ {r} : ~isDl /\ s.kind = "error" /\ s.age <= History => Waiting(new[s.id])
  PROVE  IInv' /\ AckedKept
  <1>1. /\ granted = None
        /\ air' = (air \ {r}) \cup (IF r.left = 2 THEN {[r EXCEPT !.left = 1]} ELSE {})
        /\ UNCHANGED <<isDl, ue, remIn, granted, uci, skips, early>>
    BY DEF Delivered
  <1>2. ue # "none"
    BY DEF IInv, GoneInv
  <1>3. ProcInv' /\ FreeInv' /\ GoneInv' /\ UciInv' /\ GrantInv'
    BY <1>1, <1>2, AnsweredStep DEF IInv
  <1>4. RestInv'
    BY <1>1 DEF IInv, RestInv
  <1>5. proc' = new
    BY DEF Update
  <1>6. ASSUME NEW s \in air \ {r} PROVE AirOK(s)'
    <2>1. AirOK(s)
      BY DEF IInv, AirInv
    <2> QED
      BY <1>1, <1>5, <2>1, AirKept
  <1>7. ASSUME r.left = 2 PROVE isDl /\ AirOK([r EXCEPT !.left = 1])'
    <2> DEFINE s == [r EXCEPT !.left = 1]
    <2>1. AirOK(r) /\ r \in Indication
      BY DEF IInv, AirInv, AirOK
    <2>2. isDl
      BY <1>7, <2>1 DEF AirOK
    <2>3. s \in Indication /\ s.age = r.age /\ s.of = r.of
      BY <2>1 DEF Indication
    <2>4. AirOK(s)
      BY <2>1, <2>2, <2>3 DEF AirOK
    <2> HIDE DEF s
    <2>5. AirOK(s)'
      BY <1>1, <1>5, <2>2, <2>4, AirKept
    <2> QED
      BY <2>2, <2>5 DEF s
  <1>8. AirInv'
    <2>1. CASE r.left = 2
      <3> DEFINE s == [r EXCEPT !.left = 1]
      <3>1. air' = (air \ {r}) \cup {s}
        BY <1>1, <2>1
      <3>2. isDl /\ AirOK(s)'
        BY <1>7, <2>1
      <3> HIDE DEF s
      <3> QED
        BY <1>1, <1>6, <3>1, <3>2 DEF AirInv
    <2>2. CASE r.left # 2
      <3>1. air' = air \ {r}
        BY <1>1, <2>2
      <3> QED
        BY <1>1, <1>6, <3>1 DEF AirInv, IInv
    <2> QED
      BY <2>1, <2>2
  <1>9. AckedKept
    BY <1>5 DEF AckedKept, Answered, Waiting
  <1> QED
    BY <1>9, <1>3, <1>4, <1>8 DEF IInv

LEMMA HarqIndStep ==
  ASSUME IInv, NEW r \in air, NEW snr \in Snrs, NEW acks \in [DOMAIN r.of -> AckStatus],
         HarqInd(r, acks, snr)
  PROVE  IInv' /\ AckedKept
  <1> DEFINE bits(h) == {i \in DOMAIN r.of : /\ h \in Found(r.age, i - 1)
                                             /\ \A g \in Found(r.age, i - 1) : h <= g}
             new == [h \in Harqs |-> IF bits(h) = {} THEN proc[h]
                       ELSE dl_ack_info(proc[h], acks[CHOOSE i \in bits(h) : TRUE], snr)]
  <1>1. isDl /\ Delivered(r) /\ Update(new)
    BY Zenon DEF HarqInd
  <1>2. snr \in Nat
    BY HarqAssumption
  <1>3. ASSUME NEW h \in Harqs PROVE Answered(proc[h], new[h])
    <2>1. ProcOK(proc[h])
      BY DEF IInv, ProcInv
    <2>2. CASE bits(h) = {}
      <3>1. new[h] = proc[h]
        BY <2>2
      <3> QED
        BY <2>1, <3>1, SameAnswered
    <2>3. CASE bits(h) # {}
      <3> DEFINE i == CHOOSE j \in bits(h) : TRUE
      <3>1. i \in bits(h)
        BY <2>3, Zenon
      <3>2. i \in DOMAIN r.of
        BY <3>1
      <3>3. new[h] = dl_ack_info(proc[h], acks[i], snr)
        BY <2>3, Zenon
      <3> HIDE DEF i, new, bits
      <3>4. acks[i] \in AckStatus
        BY <3>2
      <3> QED
        BY <1>1, <1>2, <2>1, <3>3, <3>4, DlAckInfo
    <2> QED
      BY <2>2, <2>3
  <1>4. new \in [Harqs -> Process]
    <2> DEFINE v(h) == IF bits(h) = {} THEN proc[h]
                       ELSE dl_ack_info(proc[h], acks[CHOOSE i \in bits(h) : TRUE], snr)
    <2>1. \A h \in Harqs : v(h) \in Process
      BY <1>3 DEF Answered, ProcOK
    <2>2. new = [h \in Harqs |-> v(h)]
      OBVIOUS
    <2> HIDE DEF new, v
    <2> QED
      BY <2>1, <2>2
  <1> HIDE DEF new
  <1> QED
    BY <1>1, <1>3, <1>4, DeliveredStep

\* The process of an UL error indication that is not too old is not the one
\* another indication is about.
LEMMA ErrorKept ==
  ASSUME IInv, ~isDl, NEW r \in air, NEW s \in air \ {r}, s.kind = "error", s.age <= History
  PROVE  /\ s.id \in Harqs /\ Waiting(proc[s.id])
         /\ r.id \in Found(r.age, 0) => s.id # r.id
         /\ r.kind = "error" /\ r.age <= History => s.id # r.id
  <1>1. /\ AirOK(r) /\ AirOK(s) /\ r.age \in Nat /\ s.age \in Nat
    BY DEF IInv, AirInv, AirOK, Indication
  <1>2. s.id \in Harqs /\ Waiting(proc[s.id]) /\ proc[s.id].ackIn = -s.age
    BY <1>1 DEF AirOK
  <1>3. r.age # s.age
    BY DEF IInv, AirInv
  <1>4. ASSUME proc[r.id].ackIn = -r.age PROVE s.id # r.id
    BY <1>1, <1>2, <1>3, <1>4
  <1>5. r.id \in Found(r.age, 0) => proc[r.id].ackIn = -r.age
    BY DEF Found, Answers
  <1>6. r.kind = "error" /\ r.age <= History => proc[r.id].ackIn = -r.age
    BY <1>1 DEF AirOK
  <1> QED
    BY <1>2, <1>4, <1>5, <1>6

LEMMA CrcIndStep ==
  ASSUME IInv, NEW r \in air, NEW ok \in BOOLEAN, CrcInd(r, ok)
  PROVE  IInv' /\ AckedKept
  <1> DEFINE n == ul_crc_info(proc[r.id], ok)
             new == IF r.id \in Found(r.age, 0) THEN [proc EXCEPT ![r.id] = n] ELSE proc
  <1>1. ~isDl /\ Delivered(r) /\ Update(new)
    BY Zenon DEF CrcInd
  <1>2. r.id \in Harqs
    BY <1>1 DEF IInv, AirInv, AirOK
  <1>3. proc \in [Harqs -> Process] /\ \A h \in Harqs : ProcOK(proc[h])
    BY DEF IInv, ProcInv
  <1>4. Answered(proc[r.id], n) /\ n \in Process
    BY <1>2, <1>3, UlCrcInfo DEF Answered, ProcOK
  <1> HIDE DEF n
  <1>5. new \in [Harqs -> Process]
    BY <1>2, <1>3, <1>4
  <1>6. \A h \in Harqs : \/ new[h] = proc[h]
                         \/ h = r.id /\ new[h] = n /\ r.id \in Found(r.age, 0)
    BY <1>2, <1>3
  <1> HIDE DEF new
  <1>7. \A h \in Harqs : Answered(proc[h], new[h])
    BY <1>3, <1>4, <1>6, SameAnswered
  <1>8. \A s \in air \ {r} : ~isDl /\ s.kind = "error" /\ s.age <= History => Waiting(new[s.id])
    <2>1. ASSUME NEW s \in air \ {r}, s.kind = "error", s.age <= History PROVE Waiting(new[s.id])
      <3>1. /\ s.id \in Harqs /\ Waiting(proc[s.id])
            /\ r.id \in Found(r.age, 0) => s.id # r.id
        BY <1>1, <2>1, ErrorKept
      <3> QED
        BY <1>6, <3>1
    <2> QED
      BY <2>1
  <1> QED
    BY <1>1, <1>5, <1>7, <1>8, DeliveredStep

LEMMA ErrorIndStep ==
  ASSUME IInv, NEW r \in air, ErrorInd(r)
  PROVE  IInv' /\ AckedKept
  <1> DEFINE n == discarded_pusch(proc[r.id])
             dl == [h \in Harqs |-> uci_sched_failed(proc[h], r.age)]
             ul == [proc EXCEPT ![r.id] = n]
             new == CASE r.age > History -> proc
                      [] r.age <= History /\ isDl -> dl
                      [] OTHER -> ul
  <1>1. r.kind = "error" /\ Delivered(r) /\ Update(new)
    BY Zenon DEF ErrorInd
  <1>2. proc \in [Harqs -> Process] /\ \A h \in Harqs : ProcOK(proc[h])
    BY DEF IInv, ProcInv
  <1>3. r.age \in Nat /\ isDl \in BOOLEAN
    BY DEF IInv, AirInv, AirOK, Indication, RestInv
  <1>4. CASE r.age > History
    <2>1. new = proc
      <3>1. ~(r.age <= History)
        BY <1>3, <1>4, Constants
      <3> HIDE DEF dl, ul
      <3> QED
        BY <1>4, <3>1
    <2> HIDE DEF new
    <2>2. \A h \in Harqs : Answered(proc[h], new[h])
      BY <1>2, <2>1, SameAnswered
    <2>3. \A s \in air \ {r} : ~isDl /\ s.kind = "error" /\ s.age <= History => Waiting(new[s.id])
      BY <2>1, ErrorKept
    <2> QED
      BY <1>1, <1>2, <2>1, <2>2, <2>3, DeliveredStep
  <1>5. CASE r.age <= History /\ isDl
    <2>1. new = dl
      <3>1. ~(r.age > History)
        BY <1>3, <1>5, Constants
      <3> HIDE DEF dl, ul
      <3> QED
        BY <1>5, <3>1
    <2>2. \A h \in Harqs : dl[h] = uci_sched_failed(proc[h], r.age)
      OBVIOUS
    <2>3. dl = [h \in Harqs |-> dl[h]]
      OBVIOUS
    <2> HIDE DEF new, dl
    <2>4. \A h \in Harqs : Answered(proc[h], dl[h])
      BY <1>2, <1>3, <1>5, <2>2, UciSchedFailed
    <2>5. dl \in [Harqs -> Process]
      BY <2>3, <2>4 DEF Answered, ProcOK
    <2> QED
      BY <1>1, <1>5, <2>1, <2>4, <2>5, DeliveredStep
  <1>6. CASE r.age <= History /\ ~isDl
    <2>1. new = ul
      <3>1. ~(r.age > History)
        BY <1>3, <1>6, Constants
      <3> HIDE DEF dl, ul
      <3> QED
        BY <1>6, <3>1
    <2>2. r.id \in Harqs
      BY <1>6 DEF IInv, AirInv, AirOK
    <2>3. Answered(proc[r.id], n) /\ n \in Process
      BY <1>2, <2>2, DiscardedPusch DEF Answered, ProcOK
    <2> HIDE DEF n, new
    <2>4. /\ ul \in [Harqs -> Process]
          /\ \A h \in Harqs : ul[h] = proc[h] \/ (h = r.id /\ ul[h] = n)
      BY <1>2, <2>2, <2>3
    <2> HIDE DEF ul
    <2>5. \A h \in Harqs : Answered(proc[h], ul[h])
      BY <1>2, <2>3, <2>4, SameAnswered
    <2>6. \A s \in air \ {r} : ~isDl /\ s.kind = "error" /\ s.age <= History => Waiting(ul[s.id])
      <3>1. ASSUME NEW s \in air \ {r}, s.kind = "error", s.age <= History PROVE Waiting(ul[s.id])
        <4>1. s.id \in Harqs /\ Waiting(proc[s.id]) /\ s.id # r.id
          BY <1>1, <1>6, <3>1, ErrorKept
        <4> QED
          BY <2>4, <4>1
      <3> QED
        BY <3>1
    <2> QED
      BY <1>1, <2>1, <2>4, <2>5, <2>6, DeliveredStep
  <1> QED
    BY <1>3, <1>4, <1>5, <1>6, Constants

-----------------------------------------------------------------------------
(* The slot.                                                               *)

\* What the processes are when d slots have passed.
Later(d, n) == [h \in Harqs |-> Elapsed(Counted(proc[h], n), d)]

Remaining(d, n) ==
  [h \in Harqs |-> IF Expired(Later(d, n)[h]) THEN Empty ELSE Later(d, n)[h]]

LEMMA RemainingOK ==
  ASSUME ProcInv, NEW d \in Nat, NEW n \in 1 .. 2
  PROVE  /\ Remaining(d, n) \in [Harqs -> Process]
         /\ \A h \in Harqs :
              LET q == Remaining(d, n)[h]
                  r == Elapsed(Counted(proc[h], n), d)
              IN  /\ ProcOK(q) /\ Older(proc[h], r, d)
                  /\ q = IF Expired(r) THEN Empty ELSE r
                  /\ proc[h].status = "empty" => q.status = "empty"
                  /\ Waiting(q) => /\ Waiting(proc[h]) /\ q.ackIn = proc[h].ackIn - d
                                   /\ q.bit = proc[h].bit /\ q.short = proc[h].short
  <1>1. ASSUME NEW h \in Harqs
        PROVE  LET q == Remaining(d, n)[h]
                   r == Elapsed(Counted(proc[h], n), d)
               IN  /\ ProcOK(q) /\ Older(proc[h], r, d)
                   /\ q = IF Expired(r) THEN Empty ELSE r
                   /\ proc[h].status = "empty" => q.status = "empty"
                   /\ Waiting(q) => /\ Waiting(proc[h]) /\ q.ackIn = proc[h].ackIn - d
                                    /\ q.bit = proc[h].bit /\ q.short = proc[h].short
    <2> DEFINE r == Elapsed(Counted(proc[h], n), d)
               q == Remaining(d, n)[h]
    <2>1. Older(proc[h], r, d)
      BY ElapsedOlder DEF ProcInv
    <2>2. q = IF Expired(r) THEN Empty ELSE r
      BY DEF Remaining, Later
    <2> HIDE DEF r, q
    <2>3. ProcOK(q) /\ (proc[h].status = "empty" => q.status = "empty")
      BY <2>1, <2>2, EmptyOK DEF Older
    <2>4. Waiting(q) => /\ Waiting(proc[h]) /\ q.ackIn = proc[h].ackIn - d
                        /\ q.bit = proc[h].bit /\ q.short = proc[h].short
      BY <2>1, <2>2, EmptyOK DEF Older, Waiting
    <2> QED
      BY <2>1, <2>2, <2>3, <2>4 DEF r, q
  <1>2. \A h \in Harqs : Remaining(d, n)[h] \in Process
    BY <1>1 DEF ProcOK
  <1>3. Remaining(d, n) = [h \in Harqs |-> Remaining(d, n)[h]]
    BY DEF Remaining
  <1> DEFINE f == Remaining(d, n)
  <1>4. f \in [Harqs -> Process]
    <2>1. f = [h \in Harqs |-> f[h]] /\ \A h \in Harqs : f[h] \in Process
      BY <1>2, <1>3
    <2> HIDE DEF f
    <2> QED
      BY <2>1
  <1> QED
    BY <1>1, <1>4

\* The process of an UL slot that is not older than the grid's history has not
\* timed out.
LEMMA YoungNotExpired ==
  ASSUME ProcInv, UciInv, ~isDl, NEW h \in Harqs, Waiting(proc[h]),
         NEW age \in Nat, proc[h].ackIn = -age,
         NEW d \in Nat \ {0}, age + d <= History, NEW n \in 1 .. 2
  PROVE  LET q == Remaining(d, n)[h]
         IN  Waiting(q) /\ q.ackIn = -(age + d)
  <1> DEFINE r == Elapsed(Counted(proc[h], n), d)
             q == Remaining(d, n)[h]
  <1>1. Older(proc[h], r, d) /\ q = IF Expired(r) THEN Empty ELSE r
    BY RemainingOK
  <1>2. ~proc[h].short
    BY DEF UciInv
  <1> HIDE DEF r, q
  <1>3. Waiting(r) /\ r.ackIn = proc[h].ackIn - d /\ ~r.short /\ r.due = r.ackIn + Wait(r.retxs)
    BY <1>1, <1>2 DEF Older, ProcOK, Waiting, WaitOK
  <1>4. /\ AckWait \in Nat /\ History \in Nat /\ History < AckWait /\ Wheel \in Nat
        /\ Wait(r.retxs) \in Nat /\ Wait(r.retxs) >= AckWait /\ Wait(r.retxs) <= Wheel
    BY Constants, WaitIs
  <1>5. r.due \in 1 .. Wheel - 1 /\ r.ackIn = -(age + d)
    BY <1>3, <1>4
  <1>6. r.due % Wheel = r.due
    BY <1>4, <1>5
  <1>7. ~Expired(r)
    BY <1>5, <1>6 DEF Expired
  <1> QED
    BY <1>1, <1>3, <1>5, <1>7 DEF q

\* The indications a slot gives rise to.
LEMMA SentOK ==
  ASSUME IInv, NEW n \in 1 .. 2, NEW kind \in {"report", "error"}, NEW s \in Sent(n, kind)
  PROVE  /\ s \in Indication /\ s.age = 0
         /\ isDl => \A i \in DOMAIN s.of : Found(0, i - 1) \subseteq {s.of[i]}
         /\ ~isDl => /\ s.left = 1 /\ s.id \in Harqs /\ DOMAIN s.of = {1} /\ s.of[1] = s.id
                     /\ Found(0, 0) \subseteq {s.id}
                     /\ Waiting(proc[s.id]) /\ proc[s.id].ackIn = 0
                     /\ Sent(n, kind) = {s}
  <1> DEFINE of(b) == IF Found(0, b) = {} THEN None ELSE CHOOSE h \in Found(0, b) : TRUE
  <1>1. \A b : Found(0, b) \subseteq {of(b)} /\ of(b) \in Found(0, b) \cup {None}
    <2> SUFFICES ASSUME NEW b PROVE Found(0, b) \subseteq {of(b)} /\ of(b) \in Found(0, b) \cup {None}
      OBVIOUS
    <2>1. CASE Found(0, b) = {}
      BY <2>1
    <2>2. CASE Found(0, b) # {}
      <3>1. of(b) \in Found(0, b)
        BY <2>2, Zenon
      <3> HIDE DEF of
      <3>2. \A g \in Found(0, b) : g = of(b)
        BY <3>1 DEF Found, Answers, IInv, UciInv, Waiting
      <3> QED
        BY <3>1, <3>2
    <2> QED
      BY <2>1, <2>2
  <1>2. \A b : Found(0, b) \in SUBSET Harqs
    BY DEF Found
  <1>3. CASE isDl
    <2> DEFINE f == [i \in 1 .. uci[0] |-> of(i - 1)]
               l == IF kind = "error" THEN 1 ELSE n
    <2>1. uci[0] \in Nat
      BY MaxDelayIsMax, Constants DEF IInv, RestInv
    <2>2. s = [kind |-> kind, age |-> 0, left |-> l, id |-> None, of |-> f]
      BY <1>3, Zenon DEF Sent
    <2>3. \A i \in 1 .. uci[0] : of(i - 1) \in Harqs \cup {None}
      BY <1>1, <1>2
    <2>4. l \in 1 .. 2
      OBVIOUS
    <2> HIDE DEF of, l
    <2>5. f \in Seq(Harqs \cup {None}) /\ DOMAIN f = 1 .. uci[0]
          /\ \A i \in 1 .. uci[0] : f[i] = of(i - 1)
      BY <2>1, <2>3
    <2> HIDE DEF f
    <2>6. s \in Indication /\ s.age = 0 /\ s.of = f
      BY <2>2, <2>4, <2>5 DEF Indication
    <2>7. \A i \in DOMAIN s.of : Found(0, i - 1) \subseteq {s.of[i]}
      BY <1>1, <2>5, <2>6
    <2> QED
      BY <1>3, <2>6, <2>7
  <1>4. CASE ~isDl
    <2> DEFINE h == of(0)
    <2>1. /\ h # None
          /\ Sent(n, kind) = {[kind |-> kind, age |-> 0, left |-> 1, id |-> h, of |-> <<h>>]}
      <3>1. Sent(n, kind) = IF h # None
              THEN {[kind |-> kind, age |-> 0, left |-> 1, id |-> h, of |-> <<h>>]} ELSE {}
        <4>1. CASE h # None
          BY <1>4, <4>1, Zenon DEF Sent
        <4>2. CASE h = None
          BY <1>4, <4>2, Zenon DEF Sent
        <4> QED
          BY <4>1, <4>2
      <3> HIDE DEF h
      <3> QED
        BY <3>1
    <2>2. h \in Found(0, 0) /\ Found(0, 0) \subseteq {h}
      BY <1>1, <2>1
    <2> HIDE DEF h
    <2>3. h \in Harqs /\ Waiting(proc[h]) /\ proc[h].ackIn = 0
      BY <2>2 DEF Found, Answers, Waiting
    <2>4. s = [kind |-> kind, age |-> 0, left |-> 1, id |-> h, of |-> <<h>>]
      BY <2>1
    <2>5. <<h>> \in Seq(Harqs \cup {None}) /\ DOMAIN <<h>> = {1} /\ <<h>>[1] = h
      BY <2>3
    <2> QED
      BY <1>4, <2>1, <2>2, <2>3, <2>4, <2>5 DEF Indication
  <1> QED
    BY <1>3, <1>4 DEF IInv, RestInv

\* An indication that gets older still meets what it may meet.
LEMMA AirOlder ==
  ASSUME IInv, NEW d \in Nat \ {0}, NEW n \in 1 .. 2, NEW kind \in {"report", "error"},
         proc' = Remaining(d, n), isDl' = isDl, NEW s \in air \cup Sent(n, kind)
  PROVE  AirOK([s EXCEPT !.age = @ + d])'
  <1> DEFINE t == [s EXCEPT !.age = @ + d]
  <1>1. /\ s \in Indication /\ s.age \in Nat
        /\ isDl => \A i \in DOMAIN s.of : Found(s.age, i - 1) \subseteq {s.of[i]}
        /\ ~isDl => /\ s.left = 1 /\ s.id \in Harqs /\ DOMAIN s.of = {1}
                    /\ s.kind = "report" => Found(s.age, 0) \subseteq {s.of[1]}
                    /\ s.kind = "error" /\ s.age <= History =>
                         s.of[1] = s.id /\ Waiting(proc[s.id]) /\ proc[s.id].ackIn = -s.age
    <2>1. CASE s \in air
      BY <2>1 DEF IInv, AirInv, AirOK, Indication
    <2>2. CASE s \in Sent(n, kind)
      BY <2>2, SentOK
    <2> QED
      BY <2>1, <2>2
  <1>2. /\ t \in Indication /\ t.age = s.age + d /\ t.kind = s.kind /\ t.left = s.left
        /\ t.id = s.id /\ t.of = s.of
    <2>1. s.age + d \in Nat
      BY <1>1
    <2> QED
      BY <1>1, <2>1 DEF Indication
  <1> HIDE DEF t
  <1>3. \A h \in Harqs : Waiting(proc'[h]) => /\ Waiting(proc[h]) /\ proc'[h].ackIn = proc[h].ackIn - d
                                              /\ proc'[h].bit = proc[h].bit
                                              /\ proc[h].ackIn \in Int
    <2>1. ASSUME NEW h \in Harqs, Waiting(proc'[h])
          PROVE  /\ Waiting(proc[h]) /\ proc'[h].ackIn = proc[h].ackIn - d
                 /\ proc'[h].bit = proc[h].bit /\ proc[h].ackIn \in Int
      <3>1. proc[h].ackIn \in Int
        BY Fields DEF IInv, ProcInv
      <3> QED
        BY <2>1, <3>1, RemainingOK DEF IInv
    <2> QED
      BY <2>1
  <1>4. \A b : Found(t.age, b)' \subseteq Found(s.age, b)
    <2> SUFFICES ASSUME NEW b, NEW h \in Found(t.age, b)' PROVE h \in Found(s.age, b)
      OBVIOUS
    <2>1. h \in Harqs /\ Waiting(proc'[h]) /\ proc'[h].ackIn = -t.age /\ proc'[h].bit = b
      BY DEF Found, Answers, Waiting
    <2>2. Waiting(proc[h]) /\ proc[h].bit = b /\ proc[h].ackIn - d = -(s.age + d) /\ proc[h].ackIn \in Int
      BY <1>2, <1>3, <2>1
    <2>3. proc[h].ackIn = -s.age
      BY <1>1, <2>2
    <2> QED
      BY <2>1, <2>2, <2>3 DEF Found, Answers, Waiting
  <1>5. ASSUME ~isDl, s.kind = "error", t.age <= History
        PROVE  t.of[1] = t.id /\ Waiting(proc'[t.id]) /\ proc'[t.id].ackIn = -t.age
    <2>1. s.age <= History /\ s.age + d <= History
      BY <1>1, <1>2, <1>5, Constants
    <2>2. s.of[1] = s.id /\ s.id \in Harqs /\ Waiting(proc[s.id]) /\ proc[s.id].ackIn = -s.age
      BY <1>1, <1>5, <2>1
    <2>3. Waiting(proc'[s.id]) /\ proc'[s.id].ackIn = -(s.age + d)
      BY <1>1, <1>5, <2>1, <2>2, YoungNotExpired DEF IInv
    <2> QED
      BY <1>2, <2>2, <2>3
  <1>6. t.age >= 1
    BY <1>1, <1>2
  <1>7. AirOK(t)'
    BY <1>1, <1>2, <1>4, <1>5, <1>6 DEF AirOK, Waiting
  <1> QED
    BY <1>7 DEF t

\* The slot of a UE that stays.
LEMMA SlotPassed ==
  ASSUME IInv, NEW d \in 1 .. 1 + MaxSkips, NEW n \in 1 .. 2, NEW kind \in {"report", "error"},
         SlotIndication(d, n, kind), ~RemovalReady(d)
  PROVE  IInv' /\ AckedKept /\ EarlyOnlyBeyondWheel'
  <1> DEFINE new == [h \in Harqs |-> IF h \in {g \in Harqs : Expired(Later(d, n)[g])} THEN Empty
                                     ELSE Later(d, n)[h]]
  <1>1. /\ skips + d - 1 <= MaxSkips /\ skips' = skips + d - 1 /\ granted' = None
        /\ isDl' = isDl /\ ue' = ue /\ remIn' = IF remIn <= d THEN 0 ELSE remIn - d
        /\ uci' = [k \in DOMAIN uci |-> IF k + d \in DOMAIN uci THEN uci[k + d] ELSE 0]
        /\ air' = {[r EXCEPT !.age = @ + d] : r \in
                     {s \in air \cup Sent(n, kind) : s.age + d <= MaxAge}}
        /\ Update(new)
        /\ early' = {Timer(Later(d, n)[h]) : h \in {g \in {e \in Harqs : Expired(Later(d, n)[e])} :
                                                     ~WaitedLongEnough(Later(d, n)[g])}}
    BY Zenon DEF SlotIndication, Later
  <1>2. new = Remaining(d, n)
    BY DEF Remaining
  <1> HIDE DEF new
  <1>3. Update(Remaining(d, n)) /\ proc' = Remaining(d, n)
    BY <1>1, <1>2 DEF Update
  <1>4. d \in Nat \ {0} /\ d \in Nat
    BY Constants
  <1>5. /\ proc' \in [Harqs -> Process]
        /\ \A h \in Harqs : ProcOK(proc'[h])
        /\ \A h \in Harqs : proc[h].status = "empty" => proc'[h].status = "empty"
    <2>1. ProcInv
      BY DEF IInv
    <2>2. proc' \in [Harqs -> Process]
      BY <1>3, <1>4, <2>1, RemainingOK
    <2>3. ASSUME NEW h \in Harqs
          PROVE  ProcOK(proc'[h]) /\ (proc[h].status = "empty" => proc'[h].status = "empty")
      BY <1>3, <1>4, <2>1, RemainingOK
    <2> QED
      BY <2>2, <2>3
  <1>older. ASSUME NEW h \in Harqs, Waiting(proc'[h])
         PROVE  /\ Waiting(proc[h]) /\ proc'[h].ackIn = proc[h].ackIn - d
                /\ proc'[h].bit = proc[h].bit /\ proc'[h].short = proc[h].short
    BY <1>3, <1>4, <1>older, RemainingOK DEF IInv
  <1>6. ProcInv'
    BY <1>5 DEF ProcInv, ProcOK, ReportOK, WaitOK, Waiting
  <1>7. /\ free' \in Seq(Harqs)
        /\ \A i, j \in 1 .. Len(free') : free'[i] = free'[j] => i = j
        /\ \A i \in 1 .. Len(free') : proc'[free'[i]].status = "empty"
        /\ ue # "none" => \A h \in Harqs : proc'[h].status = "empty" =>
                             \E i \in 1 .. Len(free') : free'[i] = h
        /\ Released(Remaining(d, n)) = {} => free' = free
    BY <1>3, <1>5, UpdateFree DEF IInv
  <1>8. FreeInv'
    BY <1>1, <1>7 DEF FreeInv, Busy
  <1>9. /\ uci \in [0 .. MaxDelay -> 0 .. MaxBits] /\ MaxDelay \in Nat /\ MaxBits \in Nat
        /\ remIn \in 0 .. RemDelay /\ skips \in 0 .. MaxSkips /\ RemDelay \in Nat /\ MaxSkips \in Nat
    BY MaxDelayIsMax, Constants DEF IInv, RestInv
  <1>10. /\ uci' \in [0 .. MaxDelay -> 0 .. MaxBits]
         /\ \A k \in 0 .. MaxDelay : k + d \in 0 .. MaxDelay => uci'[k] = uci[k + d]
         /\ \A k \in 0 .. MaxDelay : k + d \notin 0 .. MaxDelay => uci'[k] = 0
    BY <1>1, <1>9
  <1>11. RestInv'
    <2>1. remIn' \in 0 .. RemDelay /\ skips' \in 0 .. MaxSkips
      BY <1>1, <1>4, <1>9
    <2>2. early' \in SUBSET Timers
      <3>1. \A q : Timer(q) \in Timers
        BY DEF Timer, Timers
      <3> QED
        BY <1>1, <3>1
    <2>3. isDl' \in BOOLEAN /\ ue' \in {"active", "leaving", "none"} /\ granted' \in Harqs \cup {None}
      BY <1>1 DEF IInv, RestInv
    <2> QED
      BY <1>10, <2>1, <2>2, <2>3 DEF RestInv
  <1>12. GoneInv'
    <2>1. ASSUME ue = "none"
          PROVE  /\ free' = <<>> /\ air' = {} /\ \A h \in Harqs : proc'[h].status = "empty"
                 /\ \A k \in 0 .. MaxDelay : uci'[k] = 0
      <3>1. /\ free = <<>> /\ air = {} /\ \A h \in Harqs : proc[h].status = "empty"
            /\ \A k \in 0 .. MaxDelay : uci[k] = 0
        BY <2>1 DEF IInv, GoneInv, Busy
      <3>2. Released(Remaining(d, n)) = {}
        BY <3>1 DEF Released, Busy
      <3>3. Sent(n, kind) = {}
        <4>1. \A b : Found(0, b) = {}
          BY <3>1 DEF Found, Answers
        <4>2. ~(uci[0] > 0)
          BY <1>9, <3>1
        <4> QED
          BY <4>1, <4>2, Zenon DEF Sent
      <3>4. air' = {}
        BY <1>1, <3>1, <3>3
      <3>5. \A k \in 0 .. MaxDelay : uci'[k] = 0
        BY <1>10, <3>1
      <3> QED
        BY <1>5, <1>7, <3>1, <3>2, <3>4, <3>5
    <2> QED
      BY <1>1, <2>1 DEF GoneInv, Busy
  <1>13. UciInv'
    <2>1. ASSUME NEW h \in Harqs, Waiting(proc'[h])
          PROVE  /\ isDl /\ proc'[h].ackIn >= 0 => proc'[h].bit < uci'[proc'[h].ackIn]
                 /\ ~isDl => proc'[h].bit = 0 /\ ~proc'[h].short
      <3>1. /\ Waiting(proc[h]) /\ proc'[h].ackIn = proc[h].ackIn - d
            /\ proc'[h].bit = proc[h].bit /\ proc'[h].short = proc[h].short
        BY <1>older, <2>1
      <3>2. /\ isDl /\ proc[h].ackIn >= 0 => proc[h].bit < uci[proc[h].ackIn]
            /\ ~isDl => proc[h].bit = 0 /\ ~proc[h].short
        BY <3>1 DEF IInv, UciInv
      <3>3. proc[h].ackIn \in Int /\ proc[h].ackIn <= MaxDelay
        BY <3>1, Fields, WaitingFields DEF WaitOK, IInv, ProcInv
      <3>4. ASSUME isDl, proc'[h].ackIn >= 0 PROVE proc'[h].bit < uci'[proc'[h].ackIn]
        <4> DEFINE k == proc'[h].ackIn
        <4>1. k \in 0 .. MaxDelay /\ k + d = proc[h].ackIn /\ k + d \in 0 .. MaxDelay /\ proc[h].ackIn >= 0
          BY <1>4, <1>9, <3>1, <3>3, <3>4
        <4>2. uci'[k] = uci[proc[h].ackIn]
          BY <1>10, <4>1
        <4> QED
          BY <3>1, <3>2, <3>4, <4>1, <4>2
      <3> QED
        BY <3>1, <3>2, <3>4
    <2>2. ASSUME NEW g \in Harqs, NEW h \in Harqs, Waiting(proc'[g]), Waiting(proc'[h]),
                 proc'[g].ackIn = proc'[h].ackIn, proc'[g].bit = proc'[h].bit
          PROVE  g = h
      <3>1. /\ Waiting(proc[g]) /\ Waiting(proc[h]) /\ proc[g].bit = proc[h].bit
            /\ proc[g].ackIn - d = proc[h].ackIn - d
            /\ proc[g].ackIn \in Int /\ proc[h].ackIn \in Int
        <4>1. /\ Waiting(proc[g]) /\ proc'[g].ackIn = proc[g].ackIn - d /\ proc'[g].bit = proc[g].bit
              /\ Waiting(proc[h]) /\ proc'[h].ackIn = proc[h].ackIn - d /\ proc'[h].bit = proc[h].bit
          BY <1>older, <2>2
        <4>2. proc[g].ackIn \in Int /\ proc[h].ackIn \in Int
          BY Fields DEF IInv, ProcInv
        <4> QED
          BY <2>2, <4>1, <4>2
      <3>2. proc[g].ackIn = proc[h].ackIn
        BY <1>4, <3>1
      <3> QED
        BY <3>1, <3>2 DEF IInv, UciInv
    <2> QED
      BY <1>1, <2>1, <2>2 DEF UciInv, Waiting
  <1>14. GrantInv'
    BY <1>1 DEF GrantInv
  <1> DEFINE a(s) == [s EXCEPT !.age = @ + d]
             S == {s \in air \cup Sent(n, kind) : s.age + d <= MaxAge}
  <1>15. air' = {a(s) : s \in S}
    BY <1>1
  <1>16. \A s \in S : AirOK(a(s))'
    BY <1>1, <1>3, <1>4, AirOlder
  <1>17. ASSUME ~isDl, NEW r \in S, NEW s \in S, a(r).age = a(s).age PROVE r = s
    <2>1. \A q \in S : /\ q.age \in Nat /\ a(q).age = q.age + d
                       /\ q \in air => q.age >= 1
                       /\ q \in Sent(n, kind) => q.age = 0 /\ Sent(n, kind) = {q}
      <3>1. ASSUME NEW q \in S
            PROVE  /\ q.age \in Nat /\ a(q).age = q.age + d
                   /\ q \in air => q.age >= 1
                   /\ q \in Sent(n, kind) => q.age = 0 /\ Sent(n, kind) = {q}
        <4>1. q \in air => q \in Indication /\ q.age >= 1
          BY DEF IInv, AirInv, AirOK
        <4>2. q \in Sent(n, kind) => q \in Indication /\ q.age = 0 /\ Sent(n, kind) = {q}
          BY <1>17, SentOK
        <4> QED
          BY <4>1, <4>2 DEF Indication
      <3> QED
        BY <3>1
    <2>2. r.age = s.age
      <3>1. r.age \in Nat /\ s.age \in Nat /\ r.age + d = s.age + d
        BY <1>17, <2>1
      <3> QED
        BY <1>4, <3>1
    <2>3. CASE r \in air /\ s \in air
      BY <1>17, <2>2, <2>3 DEF IInv, AirInv
    <2>4. CASE r \in Sent(n, kind)
      BY <2>1, <2>2, <2>4
    <2>5. CASE s \in Sent(n, kind)
      BY <2>1, <2>2, <2>5
    <2> QED
      BY <2>3, <2>4, <2>5
  <1> HIDE DEF a, S
  <1>18. AirInv'
    BY <1>1, <1>15, <1>16, <1>17 DEF AirInv
  <1>19. EarlyOnlyBeyondWheel'
    <2>1. ASSUME NEW h \in Harqs, Expired(Later(d, n)[h]), ~WaitedLongEnough(Later(d, n)[h])
          PROVE  SetTo(Timer(Later(d, n)[h])) > Wheel
      <3> DEFINE r == Later(d, n)[h]
      <3>1. r = Elapsed(Counted(proc[h], n), d)
        BY DEF Later
      <3>2. ProcOK(proc[h]) /\ Expired(r) /\ ~WaitedLongEnough(r)
        BY <2>1 DEF IInv, ProcInv
      <3> HIDE DEF r
      <3>3. ~(SetTo(Timer(r)) <= Wheel)
        BY <1>4, <3>1, <3>2, ExpiredInTime
      <3>4. SetTo(Timer(r)) \in Nat /\ Wheel \in Nat
        BY SetToType, Constants
      <3> QED
        BY <3>3, <3>4 DEF r
    <2>2. \A t \in early' : SetTo(t) > Wheel
      BY <1>1, <2>1
    <2> QED
      BY <2>2 DEF EarlyOnlyBeyondWheel
  <1>20. AckedKept
    <2>1. ASSUME NEW h \in Harqs, proc[h].status = "waiting_ack" PROVE proc'[h].status # "pending_retx"
      <3> DEFINE r == Elapsed(Counted(proc[h], n), d)
      <3>1. Older(proc[h], r, d) /\ proc'[h] = IF Expired(r) THEN Empty ELSE r
        BY <1>3, <1>4, RemainingOK DEF IInv
      <3> HIDE DEF r
      <3> QED
        BY <2>1, <3>1, EmptyOK DEF Older
    <2> QED
      BY <2>1 DEF AckedKept
  <1> QED
    BY <1>20, <1>3, <1>6, <1>8, <1>11, <1>12, <1>13, <1>14, <1>18, <1>19 DEF IInv

LEMMA SlotIndicationStep ==
  ASSUME IInv, NEW d \in 1 .. 1 + MaxSkips, NEW n \in 1 .. 2, NEW kind \in {"report", "error"},
         SlotIndication(d, n, kind)
  PROVE  IInv' /\ AckedKept /\ (EarlyOnlyBeyondWheel => EarlyOnlyBeyondWheel')
  <1>1. CASE RemovalReady(d)
    <2>1. /\ Gone /\ granted' = None /\ isDl' = isDl /\ early' = early
          /\ skips + d - 1 <= MaxSkips /\ skips' = skips + d - 1
      BY <1>1 DEF SlotIndication
    <2>2. skips' \in 0 .. MaxSkips /\ early' \in SUBSET Timers
      BY <2>1, Constants DEF IInv, RestInv
    <2> QED
      BY <2>1, <2>2, GoneStep DEF EarlyOnlyBeyondWheel
  <1>2. CASE ~RemovalReady(d)
    BY <1>2, SlotPassed
  <1> QED
    BY <1>1, <1>2

LEMMA SlotStep ==
  ASSUME IInv, Slot
  PROVE  IInv' /\ AckedKept /\ (EarlyOnlyBeyondWheel => EarlyOnlyBeyondWheel')
  <1>1. PICK d \in 1 .. 1 + MaxSkips, n \in 1 .. 2, kind \in {"report", "error"} : SlotIndication(d, n, kind)
    BY DEF Slot
  <1> QED
    BY <1>1, SlotIndicationStep

-----------------------------------------------------------------------------
(* The invariant, and what follows from it.                                *)

LEMMA InitInv ==
  ASSUME Init
  PROVE  IInv /\ early = {}
  <1>1. /\ ue = "none" /\ remIn = 0 /\ proc = [h \in Harqs |-> Empty] /\ granted = None
        /\ free = <<>> /\ uci = [k \in 0 .. MaxDelay |-> 0] /\ air = {} /\ skips = 0
        /\ early = {} /\ isDl \in BOOLEAN
    BY DEF Init
  <1>2. ProcOK(Empty) /\ Empty.status = "empty" /\ Empty \in Process
    BY EmptyOK DEF ProcOK
  <1>3. RestInv
    <2>1. 0 \in 0 .. MaxBits /\ 0 \in 0 .. MaxSkips /\ 0 \in 0 .. RemDelay
      BY Constants
    <2>2. uci \in [0 .. MaxDelay -> 0 .. MaxBits]
      BY <1>1, <2>1
    <2>3. isDl \in BOOLEAN /\ early \in SUBSET Timers
      BY <1>1, Zenon
    <2> QED
      BY <1>1, <2>1, <2>2, <2>3 DEF RestInv
  <1>4. ProcInv
    BY <1>1, <1>2 DEF ProcInv
  <1>5. FreeInv /\ GrantInv /\ AirInv
    BY <1>1 DEF FreeInv, GrantInv, AirInv
  <1>6. GoneInv
    BY <1>1, <1>2 DEF GoneInv, Busy
  <1>7. UciInv
    BY <1>1, <1>2 DEF UciInv, Waiting
  <1> QED
    BY <1>1, <1>3, <1>4, <1>5, <1>6, <1>7 DEF IInv

LEMMA NextInv ==
  ASSUME IInv, [Next]_vars
  PROVE  IInv' /\ AckedKept /\ (EarlyOnlyBeyondWheel => EarlyOnlyBeyondWheel')
  <1>1. CASE AddUe
    BY <1>1, AddUeStep DEF AddUe, EarlyOnlyBeyondWheel
  <1>2. CASE ScheduleUeRem
    BY <1>2, ScheduleUeRemStep DEF ScheduleUeRem, EarlyOnlyBeyondWheel
  <1>3. CASE StopCell
    <2>1. /\ Gone /\ granted' = None /\ isDl' = isDl /\ skips' = skips /\ early' = early
      BY <1>3 DEF StopCell
    <2>2. skips' \in 0 .. MaxSkips /\ early' \in SUBSET Timers
      BY <2>1 DEF IInv, RestInv
    <2> QED
      BY <2>1, <2>2, GoneStep DEF EarlyOnlyBeyondWheel
  <1>4. ASSUME NEW S, CancelRetxs(S)
        PROVE  IInv' /\ AckedKept /\ (EarlyOnlyBeyondWheel => EarlyOnlyBeyondWheel')
    BY <1>4, CancelRetxsStep DEF CancelRetxs, EarlyOnlyBeyondWheel
  <1>5. ASSUME NEW k \in Delays, NewTx(k)
        PROVE  IInv' /\ AckedKept /\ (EarlyOnlyBeyondWheel => EarlyOnlyBeyondWheel')
    <2>1. early' = early
      BY <1>5 DEF NewTx, Grant
    <2> QED
      BY <1>5, <2>1, NewTxStep DEF EarlyOnlyBeyondWheel
  <1>6. ASSUME NEW h \in Harqs, NEW k \in Delays, NewRetx(h, k)
        PROVE  IInv' /\ AckedKept /\ (EarlyOnlyBeyondWheel => EarlyOnlyBeyondWheel')
    <2>1. early' = early
      BY <1>6 DEF NewRetx, Grant
    <2> QED
      BY <1>6, <2>1, NewRetxStep DEF EarlyOnlyBeyondWheel
  <1>7. CASE ResetGrant
    BY <1>7, ResetGrantStep DEF ResetGrant, EarlyOnlyBeyondWheel
  <1>8. ASSUME NEW r \in air, NEW snr \in Snrs, NEW acks \in [DOMAIN r.of -> AckStatus],
               HarqInd(r, acks, snr)
        PROVE  IInv' /\ AckedKept /\ (EarlyOnlyBeyondWheel => EarlyOnlyBeyondWheel')
    <2>1. early' = early
      BY <1>8, Zenon DEF HarqInd, Delivered
    <2> QED
      BY <1>8, <2>1, HarqIndStep DEF EarlyOnlyBeyondWheel
  <1>9. ASSUME NEW r \in air, NEW ok \in BOOLEAN, CrcInd(r, ok)
        PROVE  IInv' /\ AckedKept /\ (EarlyOnlyBeyondWheel => EarlyOnlyBeyondWheel')
    <2>1. early' = early
      BY <1>9, Zenon DEF CrcInd, Delivered
    <2> QED
      BY <1>9, <2>1, CrcIndStep DEF EarlyOnlyBeyondWheel
  <1>10. ASSUME NEW r \in air, ErrorInd(r)
         PROVE  IInv' /\ AckedKept /\ (EarlyOnlyBeyondWheel => EarlyOnlyBeyondWheel')
    <2>1. early' = early
      BY <1>10, Zenon DEF ErrorInd, Delivered
    <2> QED
      BY <1>10, <2>1, ErrorIndStep DEF EarlyOnlyBeyondWheel
  <1>11. CASE Slot
    BY <1>11, SlotStep
  <1>12. CASE UNCHANGED vars
    <2>1. UNCHANGED <<isDl, ue, remIn, proc, granted, free, uci, air, skips, early>>
      BY <1>12 DEF vars
    <2>2. RestInv' /\ ProcInv' /\ FreeInv' /\ GoneInv'
      BY <2>1 DEF IInv, RestInv, ProcInv, ProcOK, ReportOK, WaitOK, Waiting, FreeInv, GoneInv, Busy
    <2>3. UciInv' /\ GrantInv'
      BY <2>1 DEF IInv, UciInv, GrantInv, Waiting
    <2>4. AirInv'
      BY <2>1 DEF IInv, AirInv, AirOK, Found, Answers, Waiting
    <2> QED
      BY <2>1, <2>2, <2>3, <2>4 DEF IInv, AckedKept, EarlyOnlyBeyondWheel
  <1> QED
    BY <1>1, <1>2, <1>3, <1>4, <1>5, <1>6, <1>7, <1>8, <1>9, <1>10, <1>11, <1>12 DEF Next

(***************************************************************************)
(* The inductive invariant holds of every state the HARQ processes of a UE *)
(* reach, whatever is granted, reported, lost, skipped or cancelled.       *)
(***************************************************************************)
THEOREM HarqInvariant == Spec => []IInv
  <1>1. Init => IInv
    BY InitInv
  <1>2. IInv /\ [Next]_vars => IInv'
    BY NextInv
  <1> QED
    BY <1>1, <1>2, PTL DEF Spec

LEMMA FreeStackFollows ==
  ASSUME IInv
  PROVE  FreeStackExact
  <1>1. /\ free \in Seq(Harqs)
        /\ \A i, j \in 1 .. Len(free) : free[i] = free[j] => i = j
        /\ \A i \in 1 .. Len(free) : free[i] \in Harqs /\ ~Busy(free[i])
        /\ ue # "none" => \A h \in Harqs : ~Busy(h) => \E i \in 1 .. Len(free) : free[i] = h
    BY DEF IInv, FreeInv
  <1>2. TypeOK
    <2>1. air \in SUBSET Indication
      BY DEF IInv, AirInv, AirOK
    <2> QED
      BY <1>1, <2>1 DEF IInv, RestInv, ProcInv, TypeOK
  <1>3. DOMAIN free = 1 .. Len(free) /\ Len(free) \in Nat
    BY <1>1
  <1>4. Range(free) = {free[i] : i \in 1 .. Len(free)}
    BY <1>3 DEF Range
  <1>5. Cardinality(Range(free)) = Len(free)
    <2> DEFINE N == Len(free)
    <2>1. free \in Bijection(1 .. N, Range(free))
      <3>1. free \in [1 .. N -> Range(free)]
        BY <1>1, <1>3, <1>4
      <3>2. free \in Injection(1 .. N, Range(free))
        BY <1>1, <1>3, <3>1 DEF Injection, IsInjective
      <3>3. free \in Surjection(1 .. N, Range(free))
        BY <1>4, <3>1 DEF Surjection
      <3> QED
        BY <3>2, <3>3 DEF Bijection
    <2>2. N \in Nat
      BY <1>3
    <2> HIDE DEF N
    <2>3. IsFiniteSet(1 .. N) /\ Cardinality(1 .. N) = IF 1 > N THEN 0 ELSE N - 1 + 1
      BY <2>2, FS_Interval
    <2>4. Cardinality(Range(free)) = Cardinality(1 .. N)
      BY <2>1, <2>3, FS_Bijection DEF ExistsBijection
    <2>5. Cardinality(Range(free)) = N
      BY <2>2, <2>3, <2>4
    <2> QED
      BY <2>5 DEF N
  <1>6. ue # "none" => Range(free) = {h \in Harqs : ~Busy(h)}
    BY <1>1, <1>4
  <1> QED
    BY <1>2, <1>5, <1>6 DEF FreeStackExact

(***************************************************************************)
(* The free stack holds the empty processes, each once: alloc_harq never   *)
(* hands out a busy process and dealloc_harq never loses one.              *)
(***************************************************************************)
THEOREM FreeStackExactAlways == Spec => []FreeStackExact
  <1>1. IInv => FreeStackExact
    BY FreeStackFollows
  <1> QED
    BY <1>1, HarqInvariant, PTL

(***************************************************************************)
(* An indication reaches only the process whose ongoing transmission it is *)
(* about (find_dl_harq_waiting_ack, handle_error_indication).              *)
(***************************************************************************)
THEOREM ReportFindsItsTransmissionAlways == Spec => []ReportFindsItsTransmission
  <1>1. IInv => ReportFindsItsTransmission
    <2> SUFFICES ASSUME IInv, NEW r \in air
                 PROVE  /\ isDl => \A i \in DOMAIN r.of : Found(r.age, i - 1) \subseteq {r.of[i]}
                        /\ ~isDl /\ r.kind = "report" => Found(r.age, 0) \subseteq {r.of[1]}
                        /\ ~isDl /\ r.kind = "error" /\ r.age <= History /\ Busy(r.id) => r.of[1] = r.id
      BY DEF ReportFindsItsTransmission
    <2>1. AirOK(r)
      BY DEF IInv, AirInv
    <2> QED
      BY <2>1 DEF AirOK
  <1> QED
    BY <1>1, HarqInvariant, PTL

(***************************************************************************)
(* Whatever the configuration, a process is discarded before its time only *)
(* by a timer that exceeds the wheel (alloc_harq, handle_new_retx,         *)
(* set_pending_retx, slot_indication).                                     *)
(***************************************************************************)
THEOREM EarlyOnlyBeyondWheelAlways == Spec => []EarlyOnlyBeyondWheel
  <1> DEFINE J == IInv /\ EarlyOnlyBeyondWheel
  <1>1. Init => J
    BY InitInv DEF EarlyOnlyBeyondWheel
  <1>2. J /\ [Next]_vars => J'
    BY NextInv
  <1>3. J => EarlyOnlyBeyondWheel
    OBVIOUS
  <1> HIDE DEF J
  <1> QED
    BY <1>1, <1>2, <1>3, PTL DEF Spec

\* The wheel is never early with the report of a first transmission, nor, in a
\* cell without koffset, with that of a retransmission: the way its size is
\* computed covers their timeouts (the constructor of cell_harq_repository).
THEOREM ReportsAwaited ==
  Spec => []("first_tx" \notin early /\ (Koffset = 0 => "retx" \notin early))
  <1>1. EarlyOnlyBeyondWheel => "first_tx" \notin early /\ (Koffset = 0 => "retx" \notin early)
    <2>1. MaxDelay \in Nat /\ AckWait \in Nat /\ Wheel \in Nat /\ MaxDelay + AckWait <= Wheel
      BY MaxDelayIsMax, HarqAssumption, Constants
    <2>2. SetTo("first_tx") <= Wheel
      BY <2>1 DEF SetTo, Wait
    <2>3. Koffset = 0 => SetTo("retx") <= Wheel
      BY <2>1 DEF SetTo, Wait
    <2>4. SetTo("first_tx") \in Nat /\ SetTo("retx") \in Nat
      BY SetToType
    <2> QED
      BY <2>1, <2>2, <2>3, <2>4 DEF EarlyOnlyBeyondWheel
  <1> QED
    BY <1>1, EarlyOnlyBeyondWheelAlways, PTL

(***************************************************************************)
(* A transmission of which only ACKs were decoded is not sent again        *)
(* (dl_ack_info, ul_crc_info, uci_sched_failed).                           *)
(***************************************************************************)
THEOREM AckedIsNotRetransmittedAlways == Spec => AckedIsNotRetransmitted
  <1>1. IInv /\ [Next]_vars =>
          [\A h \in Harqs :
             proc[h].status = "waiting_ack" /\ proc'[h].status = "pending_retx"
               => proc'[h].got # {"ack"}]_vars
    BY NextInv DEF AckedKept
  <1> QED
    BY <1>1, HarqInvariant, PTL DEF Spec, AckedIsNotRetransmitted

(***************************************************************************)
(* A process whose retransmissions were cancelled is not sent again, and   *)
(* no block is sent more than 1 + MaxRetxs times (cancel_retxs, new_retx). *)
(***************************************************************************)
THEOREM NoRetxOnceCancelledAlways == Spec => NoRetxOnceCancelled
  <1>1. IInv =>
          [\A h \in Harqs :
             proc[h].status = "pending_retx" /\ proc'[h].status = "waiting_ack"
               => ~proc[h].cancelled /\ proc[h].retxs < MaxRetxs]_vars
    <2> SUFFICES ASSUME IInv, NEW h \in Harqs, proc[h].status = "pending_retx"
                 PROVE  ~proc[h].cancelled /\ proc[h].retxs < MaxRetxs
      OBVIOUS
    <2>1. proc[h] \in Process /\ proc[h].retxs < proc[h].max /\ ~proc[h].cancelled
      BY DEF IInv, ProcInv, ProcOK
    <2>2. proc[h].retxs \in 0 .. MaxRetxs /\ proc[h].max \in 0 .. MaxRetxs
      BY <2>1, Fields
    <2> QED
      BY <2>1, <2>2, Constants
  <1> QED
    BY <1>1, HarqInvariant, PTL DEF Spec, NoRetxOnceCancelled

=============================================================================
