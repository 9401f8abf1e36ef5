---------------------------- MODULE RlcAm_proofs ----------------------------
(***************************************************************************)
(* Proofs about the RLC AM bearer (RlcAm), for every window, SDU size,     *)
(* number of SDUs, polling configuration and number of PDUs on their way.  *)
(***************************************************************************)
EXTENDS RlcAm, FiniteSetTheorems, WellFoundedInduction, TLAPS

-----------------------------------------------------------------------------
(* The inductive invariant, part by part.                                  *)

Entry == [next_so : 0 .. Size, retx_count : Int]
RetxEntry == [sn : Int, so : Nat, len : Nat \ {0}]
NackEntry == [sn : Int, range : Nat \ {0}, has_so : BOOLEAN,
              so_start : Nat, so_end : Nat]

\* The SNs the transmitter has used, those of a segmented SDU included.
Top(t) == IF t.segmented = None THEN t.next ELSE t.next + 1

\* How much of the SDU of SN sn was sent.
Sent(t, sn) == IF sn = t.segmented THEN t.window[sn].next_so ELSE Size

\* The fields of the transmitting entity and their types.
TxRecord(t) ==
  t = [queue |-> t.queue, next |-> t.next, next_ack |-> t.next_ack,
       window |-> t.window, segmented |-> t.segmented, retx |-> t.retx,
       retx_sn |-> t.retx_sn, poll_sn |-> t.poll_sn, pdus |-> t.pdus,
       bytes |-> t.bytes, poll_timer |-> t.poll_timer,
       max_retx_reached |-> t.max_retx_reached]

TxType(t) ==
  /\ TxRecord(t)
  /\ t.queue \in 0 .. QueueSize
  /\ t.next \in Int /\ t.next_ack \in Int /\ t.poll_sn \in Int
  /\ t.segmented \in {None, t.next}
  /\ t.window \in [t.next_ack .. Top(t) - 1 -> Entry]
  /\ t.retx \in Seq(RetxEntry)
  /\ t.poll_timer \in BOOLEAN

\* Its window: the SNs from TX_Next_Ack on, no more than Window of them.
TxWindow(t) ==
  /\ Start <= t.next_ack /\ t.next_ack <= t.next
  /\ Top(t) - t.next_ack <= Window
  /\ t.segmented # None => t.window[t.next].next_so \in 1 .. Size - 1

\* Retransmissions are of bytes that were sent, of SNs of the window.
RetxOK(t, r) ==
  /\ r.sn \in t.next_ack .. Top(t) - 1
  /\ r.so + r.len <= Sent(t, r.sn)

TxRetx(t) ==
  /\ Len(t.retx) <= Window
  /\ \A i \in 1 .. Len(t.retx) : RetxOK(t, t.retx[i])

TxOK(t) == TxType(t) /\ TxWindow(t) /\ TxRetx(t)

\* Every SN stands for an SDU that was given.
GivenInv == Top(tx) - Start + tx.queue <= given /\ given \in 0 .. MaxSdus

\* The fields of the receiving entity and their types.
RxRecord(r) ==
  r = [next |-> r.next, next_highest |-> r.next_highest,
       highest_status |-> r.highest_status, trigger |-> r.trigger,
       window |-> r.window, do_status |-> r.do_status, prohibit |-> r.prohibit]

RxType(r) ==
  /\ RxRecord(r)
  /\ r.next \in Int /\ r.next_highest \in Int /\ r.highest_status \in Int
  /\ r.trigger \in Int \cup {None}
  /\ r.window = [sn \in DOMAIN r.window |-> r.window[sn]]

\* Its window: the SNs it has something of, RX_Next_Highest after the last.
RxWindow(r) ==
  /\ r.next <= r.next_highest /\ r.next_highest <= r.next + Window
  /\ DOMAIN r.window \subseteq r.next .. r.next_highest - 1
  /\ r.next_highest = r.next \/ Has(r, r.next_highest - 1)

\* RX_Next and RX_Highest_Status are the SNs of incomplete SDUs.
RxStatus(r) ==
  /\ r.next <= r.highest_status /\ r.highest_status <= r.next_highest
  /\ ~Full(r, r.next) /\ ~Full(r, r.highest_status)

\* RX_Next_Status_Trigger was RX_Next_Highest and is above RX_Next.
RxTrigger(r) ==
  r.trigger # None => /\ r.trigger \in r.next + 1 .. r.next_highest
                      /\ Has(r, r.trigger - 1)

\* What the receiver has are bytes that were sent of the SDU of that SN.
RxBytes(r) ==
  \A sn \in DOMAIN r.window :
    /\ r.window[sn] # {}
    /\ r.window[sn] \subseteq (0 .. Sent(tx, sn) - 1) \X {sn}

RxOK(r) == RxType(r) /\ RxWindow(r) /\ RxStatus(r) /\ RxTrigger(r) /\ RxBytes(r)

\* The receiver is between what is acknowledged and what was sent.
EdgeInv ==
  /\ tx.next_ack <= rx.next /\ rx.next <= tx.next /\ rx.next_highest <= Top(tx)

\* A data PDU on the air: part of what was sent, not older than a window.
PduOK(p) ==
  /\ p.of \in Start .. Top(tx) - 1
  /\ p.sn = p.of % Mod
  /\ p.bytes # {} /\ p.bytes \subseteq 0 .. Sent(tx, p.of) - 1
  /\ p.of >= rx.next - Window

AirInv == \A p \in air : PduOK(p)

\* The SNs and the bytes that a NACK of first SN sn names below upto.  If it
\* ends in the SDU under segmentation, it asks for bytes that were sent, or for
\* an end of the SDU and not for all of it.
NackOK(nack, sn, upto) ==
  /\ nack \in NackEntry /\ nack.range <= Window
  /\ nack.sn = sn % Mod
  /\ nack.has_so => nack.so_start < Size /\ nack.so_end <= Size
  /\ nack.has_so /\ nack.range = 1 => nack.so_start <= nack.so_end
  /\ sn + nack.range - 1 < upto /\ sn + nack.range - 1 = tx.segmented =>
       /\ nack.has_so
       /\ \/ nack.so_end < Sent(tx, tx.segmented)
          \/ nack.range = 1 /\ nack.so_start > 0 /\ nack.so_end = Size

\* The SN of a NACK of s, from its distance to the ACK_SN.
NackSn(s, nack) == s.upto - ((s.ack - nack.sn) % Mod)

\* A STATUS PDU on the air: it acknowledges what was received, its NACKs are
\* within a window below its ACK_SN, and it is not older than a window.
StatusOK(s) ==
  /\ s.upto \in Int /\ s.ack = s.upto % Mod
  /\ s.upto <= Top(tx) /\ s.upto > tx.next_ack - Window
  /\ s.nacks \in Seq(NackEntry)
  /\ s.nacks = << >> => s.upto <= rx.next
  /\ s.nacks # << >> => NackSn(s, s.nacks[1]) <= rx.next
  /\ \A k \in 1 .. Len(s.nacks) :
       /\ s.upto - Window <= NackSn(s, s.nacks[k])
       /\ NackSn(s, s.nacks[1]) <= NackSn(s, s.nacks[k])
       /\ NackOK(s.nacks[k], NackSn(s, s.nacks[k]), s.upto)

StatusInv == \A s \in statuses : StatusOK(s)

\* Exactly the SDUs below RX_Next and the complete ones above it were passed
\* up, each once.
DeliveredInv ==
  /\ delivered \in [Sns -> Nat]
  /\ \A sn \in Sns : delivered[sn] = IF sn < rx.next \/ Full(rx, sn) THEN 1 ELSE 0

\* If nothing is left to send, the last poll was for the last SN; and the
\* answer that SDUs wait for was asked for.
PollInv ==
  MaxWindow = 0 =>
    /\ tx.segmented = None /\ tx.next_ack < tx.next /\ tx.queue = 0 =>
         tx.poll_sn = tx.next - 1 \/ waived # {}
    /\ PollLost(tx) => waived # {}

IInv ==
  /\ TxOK(tx) /\ RxOK(rx) /\ GivenInv /\ EdgeInv /\ AirInv /\ StatusInv
  /\ DeliveredInv /\ PollInv /\ faults = {}

-----------------------------------------------------------------------------
(* Arithmetic: what the constants are, and SNs modulo Mod.                 *)

LEMMA Constants ==
  /\ Size \in Nat /\ Size >= 1 /\ Window \in Nat /\ Window >= 2
  /\ Mod \in Nat /\ Mod = 2 * Window /\ Mod > Window + 1
  /\ QueueSize \in Nat /\ MaxSdus \in Nat /\ Start \in Nat
  /\ SnsPerStatus \in Nat \ {0} /\ MaxWindow \in Nat /\ MaxRetx \in Nat
  /\ PollPdu \in Nat /\ PollByte \in Nat
  /\ None \notin Int
  BY RlcAssumption

\* A set of natural numbers has a least element.
LEMMA Least ==
  ASSUME NEW S \in SUBSET Nat, S # {}
  PROVE  \E n \in S : \A m \in S : n <= m
  <1> DEFINE R == {ss \in Nat \X Nat : ss[1] < ss[2]}
  <1>1. IsWellFoundedOn(R, Nat)
    BY NatLessThanWellFounded DEF OpToRel
  <1> HIDE DEF R
  <1>2. PICK n \in S : \A m \in S : ~(<<m, n>> \in R)
    BY <1>1, WFMin, Zenon
  <1>3. \A m \in S : ~(m < n)
    BY <1>2 DEF R
  <1> QED
    BY <1>3

LEMMA DivMod ==
  ASSUME NEW x \in Int
  PROVE  x % Mod \in 0 .. Mod - 1 /\ \E q \in Int : x = q * Mod + (x % Mod)
  <1>1. x % Mod \in 0 .. Mod - 1
    BY Constants
  <1>2. x \div Mod \in Int
    BY Constants
  <1>3. x = (x \div Mod) * Mod + (x % Mod)
    BY Constants
  <1> QED
    BY <1>1, <1>2, <1>3

LEMMA Multiples ==
  ASSUME NEW p \in Int, NEW q \in Int, p < q
  PROVE  q * Mod >= p * Mod + Mod
  <1>1. (q - p) * Mod >= Mod
    BY Constants
  <1>2. (q - p) * Mod = q * Mod - p * Mod
    BY Constants
  <1> QED
    BY <1>1, <1>2, Constants

LEMMA ModUnique ==
  ASSUME NEW x \in Int, NEW q \in Int, NEW r \in 0 .. Mod - 1, x = q * Mod + r
  PROVE  x % Mod = r
  <1>1. PICK p \in Int : x = p * Mod + (x % Mod)
    BY DivMod
  <1>2. x % Mod \in 0 .. Mod - 1
    BY DivMod
  <1>3. p * Mod \in Int /\ q * Mod \in Int
    BY Constants
  <1>4. CASE p < q
    BY <1>1, <1>2, <1>3, <1>4, Multiples, Constants
  <1>5. CASE p > q
    BY <1>1, <1>2, <1>3, <1>5, Multiples, Constants
  <1>6. CASE p = q
    BY <1>1, <1>2, <1>3, <1>6, Constants
  <1> QED
    BY <1>4, <1>5, <1>6

\* A distance of less than an SN space, from either side.
LEMMA Near ==
  ASSUME NEW d \in Int, -Mod <= d, d < Mod
  PROVE  d % Mod = IF d >= 0 THEN d ELSE d + Mod
  <1>1. CASE d >= 0
    <2>1. d = 0 * Mod + d /\ d \in 0 .. Mod - 1
      BY <1>1, Constants
    <2> QED
      BY <1>1, <2>1, ModUnique
  <1>2. CASE d < 0
    <2>1. d = (-1) * Mod + (d + Mod) /\ d + Mod \in 0 .. Mod - 1
      BY <1>2, Constants
    <2>2. d % Mod = d + Mod
      BY <2>1, ModUnique
    <2> QED
      BY <1>2, <2>2
  <1> QED
    BY <1>1, <1>2

\* The SN field carries an SN modulo Mod; distances do not see that.
LEMMA FieldLeft ==
  ASSUME NEW x \in Int, NEW c \in Int
  PROVE  ((x % Mod) + c) % Mod = (x + c) % Mod
  <1>1. PICK p \in Int : x = p * Mod + (x % Mod)
    BY DivMod
  <1>2. PICK q \in Int : x + c = q * Mod + ((x + c) % Mod)
    BY DivMod
  <1>3. x % Mod \in 0 .. Mod - 1 /\ (x + c) % Mod \in 0 .. Mod - 1
    BY DivMod
  <1> DEFINE r == x % Mod
             s == (x + c) % Mod
  <1> HIDE DEF r, s
  <1>4. p * Mod \in Int /\ q * Mod \in Int /\ (q - p) * Mod = q * Mod - p * Mod
    BY Constants
  <1>5. x = p * Mod + r /\ x + c = q * Mod + s /\ r \in 0 .. Mod - 1 /\ s \in 0 .. Mod - 1
    BY <1>1, <1>2, <1>3 DEF r, s
  <1>6. r + c = (q - p) * Mod + s
    <2> DEFINE P == p * Mod
               Q == q * Mod
               D == (q - p) * Mod
    <2> HIDE DEF P, Q, D
    <2>1. P \in Int /\ Q \in Int /\ D = Q - P
      BY <1>4 DEF P, Q, D
    <2>2. x = P + r /\ x + c = Q + s
      BY <1>5 DEF P, Q
    <2>3. r + c = D + s
      BY <2>1, <2>2, <1>5
    <2> QED
      BY <2>3 DEF D
  <1>7. (r + c) % Mod = s
    <2>1. PICK k \in Int : k = q - p
      OBVIOUS
    <2>2. r + c = k * Mod + s
      BY <1>6, <2>1
    <2>3. r + c \in Int
      BY <1>5
    <2> QED
      BY <1>5, <2>2, <2>3, ModUnique
  <1> QED
    BY <1>7 DEF r, s

LEMMA FieldRight ==
  ASSUME NEW x \in Int, NEW c \in Int
  PROVE  (c - (x % Mod)) % Mod = (c - x) % Mod
  <1>1. PICK p \in Int : x = p * Mod + (x % Mod)
    BY DivMod
  <1>2. PICK q \in Int : c - x = q * Mod + ((c - x) % Mod)
    BY DivMod
  <1>3. x % Mod \in 0 .. Mod - 1 /\ (c - x) % Mod \in 0 .. Mod - 1
    BY DivMod
  <1> DEFINE r == x % Mod
             s == (c - x) % Mod
  <1> HIDE DEF r, s
  <1>4. p * Mod \in Int /\ q * Mod \in Int /\ (p + q) * Mod = p * Mod + q * Mod
    BY Constants
  <1>5. x = p * Mod + r /\ c - x = q * Mod + s /\ r \in 0 .. Mod - 1 /\ s \in 0 .. Mod - 1
    BY <1>1, <1>2, <1>3 DEF r, s
  <1>6. c - r = (p + q) * Mod + s
    <2> DEFINE P == p * Mod
               Q == q * Mod
               D == (p + q) * Mod
    <2> HIDE DEF P, Q, D
    <2>1. P \in Int /\ Q \in Int /\ D = P + Q
      BY <1>4 DEF P, Q, D
    <2>2. x = P + r /\ c - x = Q + s
      BY <1>5 DEF P, Q
    <2>3. c - r = D + s
      BY <2>1, <2>2, <1>5
    <2> QED
      BY <2>3 DEF D
  <1>7. (c - r) % Mod = s
    <2>1. PICK k \in Int : k = p + q
      OBVIOUS
    <2>2. c - r = k * Mod + s
      BY <1>6, <2>1
    <2>3. c - r \in Int
      BY <1>5
    <2> QED
      BY <1>5, <2>2, <2>3, ModUnique
  <1> QED
    BY <1>7 DEF r, s

LEMMA FieldBoth ==
  ASSUME NEW x \in Int, NEW y \in Int
  PROVE  ((x % Mod) - (y % Mod)) % Mod = (x - y) % Mod
  <1> DEFINE r == x % Mod
  <1>1. r \in Int
    BY DivMod
  <1> HIDE DEF r
  <1>2. (r - (y % Mod)) % Mod = (r - y) % Mod
    BY <1>1, FieldRight
  <1>3. (r - y) % Mod = (r + (-y)) % Mod
    BY <1>1
  <1>4. (r + (-y)) % Mod = (x + (-y)) % Mod
    BY FieldLeft DEF r
  <1>5. x + (-y) = x - y
    OBVIOUS
  <1> QED
    BY <1>2, <1>3, <1>4, <1>5 DEF r

\* Two numbers with the same field that are less than an SN space apart.
LEMMA SameField ==
  ASSUME NEW x \in Int, NEW y \in Int, x % Mod = y % Mod, x - y < Mod, y - x < Mod
  PROVE  x = y
  <1>1. (x - y) % Mod = ((x % Mod) - (y % Mod)) % Mod
    BY FieldBoth
  <1>2. x % Mod \in Int
    BY DivMod
  <1>3. (x % Mod) - (y % Mod) = 0
    BY <1>2
  <1>4. (x - y) % Mod = 0
    BY <1>1, <1>3, Near, Constants
  <1>5. (x - y) % Mod = IF x - y >= 0 THEN x - y ELSE x - y + Mod
    BY Near, Constants
  <1> QED
    BY <1>4, <1>5, Constants

\* Distances of the transmitter and of the receiver.
LEMMA TxDistance ==
  ASSUME NEW t, t.next_ack \in Int, NEW sn \in Int,
         sn - t.next_ack >= -Mod, sn - t.next_ack < Mod
  PROVE  /\ TxBase(t, sn) = IF sn >= t.next_ack THEN sn - t.next_ack
                            ELSE sn - t.next_ack + Mod
         /\ TxBase(t, sn % Mod) = TxBase(t, sn)
  <1> DEFINE e == t.next_ack
  <1> HIDE DEF e
  <1>1. e \in Int /\ sn - e >= -Mod /\ sn - e < Mod
    BY DEF e
  <1>2. (sn - e) % Mod = IF sn - e >= 0 THEN sn - e ELSE sn - e + Mod
    BY <1>1, Near
  <1>3. ((sn % Mod) + (-e)) % Mod = (sn + (-e)) % Mod
    BY <1>1, FieldLeft
  <1>4. sn + (-e) = sn - e /\ (sn % Mod) + (-e) = (sn % Mod) - e
    BY <1>1, DivMod
  <1> QED
    BY <1>1, <1>2, <1>3, <1>4 DEF e, TxBase

LEMMA RxDistance ==
  ASSUME NEW r, r.next \in Int, NEW sn \in Int,
         sn - r.next >= -Mod, sn - r.next < Mod
  PROVE  /\ RxBase(r, sn) = IF sn >= r.next THEN sn - r.next
                            ELSE sn - r.next + Mod
         /\ RxBase(r, sn % Mod) = RxBase(r, sn)
  <1> DEFINE e == r.next
  <1> HIDE DEF e
  <1>1. e \in Int /\ sn - e >= -Mod /\ sn - e < Mod
    BY DEF e
  <1>2. (sn - e) % Mod = IF sn - e >= 0 THEN sn - e ELSE sn - e + Mod
    BY <1>1, Near
  <1>3. ((sn % Mod) + (-e)) % Mod = (sn + (-e)) % Mod
    BY <1>1, FieldLeft
  <1>4. sn + (-e) = sn - e /\ (sn % Mod) + (-e) = (sn % Mod) - e
    BY <1>1, DivMod
  <1> QED
    BY <1>1, <1>2, <1>3, <1>4 DEF e, RxBase

\* SNs of a window.
LEMMA RxAhead ==
  ASSUME NEW r, r.next \in Int, NEW sn \in Int, sn >= r.next, sn <= r.next + Window
  PROVE  RxBase(r, sn) = sn - r.next
  <1>1. sn - r.next >= -Mod /\ sn - r.next < Mod
    BY Constants
  <1> QED
    BY <1>1, RxDistance

LEMMA TxAhead ==
  ASSUME NEW t, t.next_ack \in Int, NEW sn \in Int, sn >= t.next_ack,
         sn <= t.next_ack + Window + 1
  PROVE  TxBase(t, sn) = sn - t.next_ack /\ TxBase(t, sn % Mod) = sn - t.next_ack
  <1>1. sn - t.next_ack >= -Mod /\ sn - t.next_ack < Mod
    BY Constants
  <1> QED
    BY <1>1, TxDistance

-----------------------------------------------------------------------------
(* The transmitter: its window, and what grows as it sends.                *)

LEMMA SentBounds ==
  ASSUME NEW t, TxType(t), TxWindow(t), NEW sn \in Int
  PROVE  Sent(t, sn) \in 0 .. Size
  <1>1. CASE sn = t.segmented
    <2>1. t.segmented = t.next /\ t.next \in t.next_ack .. Top(t) - 1
      BY <1>1, Constants DEF TxType, TxWindow, Top
    <2>2. t.window[t.next] \in Entry
      BY <2>1 DEF TxType
    <2> QED
      BY <1>1, <2>1, <2>2 DEF Sent, Entry
  <1>2. CASE sn # t.segmented
    BY <1>2, Constants DEF Sent
  <1> QED
    BY <1>1, <1>2

LEMMA WindowSize ==
  ASSUME NEW t, TxType(t), TxWindow(t)
  PROVE  /\ DOMAIN t.window = t.next_ack .. Top(t) - 1
         /\ Top(t) \in Int /\ t.next <= Top(t) /\ Top(t) <= t.next + 1
         /\ Cardinality(DOMAIN t.window) = Top(t) - t.next_ack
  <1>1. Top(t) \in Int /\ t.next_ack \in Int /\ t.next_ack <= Top(t)
        /\ t.next <= Top(t) /\ Top(t) <= t.next + 1
    BY DEF TxType, TxWindow, Top
  <1>2. DOMAIN t.window = t.next_ack .. Top(t) - 1
    BY DEF TxType
  <1>3. Cardinality(t.next_ack .. Top(t) - 1) = Top(t) - t.next_ack
    <2> DEFINE a == t.next_ack
               b == Top(t) - 1
    <2>1. a \in Int /\ b \in Int /\ a <= b + 1
      BY <1>1
    <2> HIDE DEF a, b
    <2>2. Cardinality(a .. b) = IF a > b THEN 0 ELSE b - a + 1
      BY <2>1, FS_Interval
    <2>3. Cardinality(a .. b) = b - a + 1
      BY <2>1, <2>2
    <2> QED
      BY <2>3, <1>1 DEF a, b
  <1> QED
    BY <1>1, <1>2, <1>3

LEMMA TxFacts ==
  ASSUME NEW t, TxOK(t)
  PROVE  /\ TxType(t) /\ TxWindow(t) /\ TxRetx(t) /\ TxRecord(t)
         /\ t.next \in Int /\ t.next_ack \in Int /\ t.queue \in Int
         /\ t.queue \in 0 .. QueueSize /\ t.poll_sn \in Int /\ t.poll_timer \in BOOLEAN
         /\ Start <= t.next_ack /\ t.next_ack <= t.next
         /\ Top(t) \in Int /\ t.next <= Top(t) /\ Top(t) <= t.next + 1
         /\ Top(t) - t.next_ack <= Window
         /\ t.segmented \in {None, t.next}
         /\ Top(t) = (IF t.segmented = None THEN t.next ELSE t.next + 1)
         /\ t.window \in [t.next_ack .. Top(t) - 1 -> Entry]
         /\ DOMAIN t.window = t.next_ack .. Top(t) - 1
         /\ t.retx \in Seq(RetxEntry)
  <1>1. TxType(t) /\ TxWindow(t) /\ TxRetx(t)
    BY DEF TxOK
  <1>2. t.queue \in Int
    BY <1>1, Constants DEF TxType
  <1>3. Top(t) = (IF t.segmented = None THEN t.next ELSE t.next + 1)
    BY DEF Top
  <1> QED
    BY <1>1, <1>2, <1>3, WindowSize DEF TxType, TxWindow

LEMMA RxFacts ==
  ASSUME NEW r, RxOK(r)
  PROVE  /\ RxType(r) /\ RxWindow(r) /\ RxStatus(r) /\ RxTrigger(r) /\ RxBytes(r)
         /\ RxRecord(r)
         /\ r.next \in Int /\ r.next_highest \in Int /\ r.highest_status \in Int
         /\ r.next <= r.next_highest /\ r.next_highest <= r.next + Window
         /\ r.next <= r.highest_status /\ r.highest_status <= r.next_highest
         /\ DOMAIN r.window \subseteq r.next .. r.next_highest - 1
  BY DEF RxOK, RxType, RxWindow, RxStatus

\* A stalled window has an SN below the SDU under segmentation.
LEMMA StalledBelow ==
  ASSUME NEW t, TxType(t), TxWindow(t), is_tx_window_full(t)
  PROVE  t.next_ack < t.next
  <1>1. CASE Cardinality(DOMAIN t.window) = Window
    <2>1. Top(t) \in Int /\ Top(t) <= t.next + 1 /\ Top(t) - t.next_ack = Window
      BY <1>1, WindowSize
    <2>2. t.next \in Int /\ t.next_ack \in Int
      BY DEF TxType
    <2> QED
      BY <2>1, <2>2, Constants
  <1>2. CASE MaxWindow # 0 /\ TxBase(t, t.next) > MaxWindow
    <2>1. t.next \in Int /\ t.next_ack \in Int /\ t.next_ack <= t.next
          /\ t.next - t.next_ack <= Window
      <3>1. Top(t) \in Int /\ t.next <= Top(t)
        BY WindowSize
      <3> QED
        BY <3>1, Constants DEF TxType, TxWindow
    <2>2. TxBase(t, t.next) = t.next - t.next_ack
      BY <2>1, TxDistance, Constants
    <2> QED
      BY <1>2, <2>1, <2>2, Constants
  <1> QED
    BY <1>1, <1>2 DEF is_tx_window_full

\* u is t after more was sent.
Grown(t, u) ==
  /\ t.next <= u.next /\ Top(t) <= Top(u)
  /\ \A sn \in Int : sn < Top(t) =>
       /\ Sent(t, sn) <= Sent(u, sn)
       /\ sn = u.segmented => sn = t.segmented

\* What the receiver has, and what is on the air, stays as it should be.
LEMMA GrownPdu ==
  ASSUME TxOK(tx), TxOK(tx)', Grown(tx, tx'), rx'.next \in Int, rx.next \in Int,
         NEW p, PduOK(p), p.of >= rx'.next - Window
  PROVE  PduOK(p)'
  <1>1. p.of \in Int /\ p.of < Top(tx) /\ Top(tx) \in Int /\ Top(tx') \in Int
        /\ Top(tx) <= Top(tx')
    BY WindowSize, Constants DEF PduOK, TxOK, Grown
  <1>2. Sent(tx, p.of) <= Sent(tx', p.of) /\ Sent(tx, p.of) \in Int /\ Sent(tx', p.of) \in Int
    BY <1>1, SentBounds, Constants DEF Grown, TxOK
  <1> QED
    BY <1>1, <1>2, Constants DEF PduOK

LEMMA GrownBytes ==
  ASSUME TxOK(tx), TxOK(tx)', Grown(tx, tx'), rx' = rx, RxOK(rx), EdgeInv
  PROVE  RxOK(rx)' /\ rx'.next_highest <= Top(tx') /\ rx'.next <= tx'.next
  <1>1. Top(tx) \in Int /\ Top(tx') \in Int /\ Top(tx) <= Top(tx')
        /\ tx.next \in Int /\ tx'.next \in Int /\ tx.next <= tx'.next
    BY WindowSize DEF TxOK, Grown, TxType
  <1>2. ASSUME NEW sn \in DOMAIN rx.window
        PROVE  rx.window[sn] \subseteq (0 .. Sent(tx', sn) - 1) \X {sn}
    <2>1. sn \in Int /\ sn < Top(tx)
      BY <1>1 DEF RxOK, RxWindow, RxType, EdgeInv
    <2>2. Sent(tx, sn) <= Sent(tx', sn) /\ Sent(tx, sn) \in Int /\ Sent(tx', sn) \in Int
      BY <2>1, SentBounds, Constants DEF Grown, TxOK
    <2>3. 0 .. Sent(tx, sn) - 1 \subseteq 0 .. Sent(tx', sn) - 1
      BY <2>2
    <2> QED
      BY <2>3 DEF RxOK, RxBytes
  <1>3. RxBytes(rx)'
    BY <1>2 DEF RxOK, RxBytes
  <1>4. RxType(rx)' /\ RxWindow(rx)' /\ RxStatus(rx)' /\ RxTrigger(rx)'
    BY DEF RxOK, RxType, RxWindow, RxStatus, RxTrigger, Has, Full, Got
  <1> QED
    BY <1>1, <1>3, <1>4 DEF RxOK, EdgeInv, RxType

LEMMA GrownStatus ==
  ASSUME TxOK(tx), TxOK(tx)', Grown(tx, tx'), rx.next \in Int, rx'.next \in Int,
         rx.next <= rx'.next,
         NEW s, StatusOK(s), s.upto > tx'.next_ack - Window
  PROVE  StatusOK(s)'
  <1>1. Top(tx) \in Int /\ Top(tx') \in Int /\ Top(tx) <= Top(tx')
        /\ tx'.next \in Int /\ s.upto \in Int /\ s.upto <= Top(tx)
    BY WindowSize DEF TxOK, Grown, TxType, StatusOK
  <1>2. s.ack \in Int /\ s.ack = s.upto % Mod
    <2>1. s.ack = s.upto % Mod
      BY DEF StatusOK
    <2>2. PICK U \in Int : U = s.upto
      BY <1>1
    <2>3. U % Mod \in 0 .. Mod - 1
      BY ONLY <2>2, DivMod
    <2>4. U % Mod \in Int
      BY ONLY <2>3, Constants
    <2> QED
      BY <2>1, <2>2, <2>4
  <1>3. ASSUME NEW k \in 1 .. Len(s.nacks)
        PROVE  /\ NackSn(s, s.nacks[k]) \in Int
               /\ NackOK(s.nacks[k], NackSn(s, s.nacks[k]), s.upto)'
    <2> DEFINE nack == s.nacks[k]
               sn == NackSn(s, nack)
    <2>1. nack \in NackEntry
      BY DEF StatusOK
    <2>2. sn \in Int
      <3>1. s.ack - nack.sn \in Int
        BY <1>2, <2>1 DEF NackEntry
      <3>2. (s.ack - nack.sn) % Mod \in Int
        BY <3>1, DivMod
      <3> QED
        BY <1>1, <3>2 DEF NackSn
    <2>3. NackOK(nack, sn, s.upto)
      BY DEF StatusOK
    <2> HIDE DEF nack, sn
    <2>4. ASSUME sn + nack.range - 1 < s.upto, sn + nack.range - 1 = tx'.segmented
          PROVE  /\ nack.has_so
                 /\ \/ nack.so_end < Sent(tx', tx'.segmented)
                    \/ nack.range = 1 /\ nack.so_start > 0 /\ nack.so_end = Size
      <3> DEFINE x == sn + nack.range - 1
      <3>1. x \in Int /\ x < Top(tx) /\ x < s.upto
        BY <1>1, <2>1, <2>2, <2>4 DEF NackEntry
      <3>2. x = tx.segmented /\ Sent(tx, x) <= Sent(tx', x)
        BY <3>1, <2>4 DEF Grown
      <3> HIDE DEF x
      <3>3. Sent(tx, x) \in Int /\ Sent(tx', x) \in Int
        BY <3>1, SentBounds, Constants DEF TxOK
      <3>4. /\ nack.has_so
            /\ \/ nack.so_end < Sent(tx, tx.segmented)
               \/ nack.range = 1 /\ nack.so_start > 0 /\ nack.so_end = Size
        BY <3>1, <3>2, <2>3 DEF NackOK, x
      <3>5. x = tx'.segmented
        BY <2>4 DEF x
      <3> QED
        BY <3>2, <3>3, <3>4, <3>5, <2>1 DEF NackEntry
    <2>5. NackOK(nack, sn, s.upto)'
      BY <2>3, <2>4 DEF NackOK
    <2> QED
      BY <2>2, <2>5 DEF nack, sn
  <1>4. s.nacks # << >> => 1 \in 1 .. Len(s.nacks)
    BY DEF StatusOK
  <1> QED
    BY <1>1, <1>2, <1>3, <1>4 DEF StatusOK

-----------------------------------------------------------------------------
(* Sending.                                                                *)

\* What get_polling_bit and the counters leave alone.
SameButPoll(t, u) ==
  /\ u.queue = t.queue /\ u.next = t.next /\ u.next_ack = t.next_ack
  /\ u.window = t.window /\ u.segmented = t.segmented /\ u.retx = t.retx

LEMMA Counted ==
  ASSUME NEW t, TxRecord(t), NEW n, NEW u, u = CountNew(t, n)
  PROVE  /\ TxRecord(u) /\ SameButPoll(t, u)
         /\ u.poll_timer = t.poll_timer /\ u.poll_sn = t.poll_sn
  BY DEF CountNew, TxRecord, SameButPoll

LEMMA NewSduFields ==
  ASSUME NEW t, TxRecord(t), NEW n, NEW u, u = NewSdu(t, n)
  PROVE  /\ TxRecord(u)
         /\ u.queue = t.queue - 1 /\ u.next = t.next /\ u.next_ack = t.next_ack
         /\ u.window = With(t.window, t.next, [next_so |-> 0, retx_count |-> NotStarted])
         /\ u.segmented = IF n = Size THEN t.segmented ELSE t.next
         /\ u.retx = t.retx /\ u.poll_timer = t.poll_timer /\ u.poll_sn = t.poll_sn
  BY DEF NewSdu, TxRecord

\* The assignments that follow get_polling_bit.
AfterNew(u, n, sn, m) ==
  [u EXCEPT !.next = IF n = Size THEN @ + 1 ELSE @, !.window[sn].next_so = m]

EndSegment(t, n, so) ==
  [t EXCEPT !.segmented = IF so + n = Size THEN None ELSE @]

AfterContinued(u, n, sn, so) ==
  [u EXCEPT !.window[sn].next_so = so + n, !.next = IF so + n = Size THEN @ + 1 ELSE @]

\* The transmitter after a PDU of a new SDU.
LEMMA NewPduFields ==
  ASSUME TxOK(tx), NEW n \in 1 .. Size, NEW t, NEW u, NEW m,
         m = (IF n = Size THEN 0 ELSE n),
         t = CountNew(NewSdu(tx, n), IF n = Size THEN 0 ELSE n),
         u = get_polling_bit(t, tx.next, FALSE),
         tx' = AfterNew(u, n, tx.next, m),
         tx.segmented = None
  PROVE  /\ TxRecord(tx')
         /\ tx'.queue = tx.queue - 1 /\ tx'.next_ack = tx.next_ack
         /\ tx'.next = IF n = Size THEN tx.next + 1 ELSE tx.next
         /\ tx'.segmented = IF n = Size THEN None ELSE tx.next
         /\ tx'.retx = tx.retx
         /\ tx'.window = With(tx.window, tx.next,
              [next_so |-> m, retx_count |-> NotStarted])
         /\ PollRequired(t, FALSE) => tx'.poll_timer = TRUE /\ tx'.poll_sn = tx.next
         /\ ~PollRequired(t, FALSE) =>
              tx'.poll_timer = tx.poll_timer /\ tx'.poll_sn = tx.poll_sn
         /\ t.queue = tx.queue - 1 /\ t.retx = tx.retx
         /\ t.segmented = tx'.segmented /\ DOMAIN t.window = DOMAIN tx'.window
  <1> DEFINE a == NewSdu(tx, n)
             e == [next_so |-> 0, retx_count |-> NotStarted]
  <1>1. TxRecord(tx)
    BY DEF TxOK, TxType
  <1>2. /\ TxRecord(a)
        /\ a.queue = tx.queue - 1 /\ a.next = tx.next /\ a.next_ack = tx.next_ack
        /\ a.window = With(tx.window, tx.next, e)
        /\ a.segmented = IF n = Size THEN tx.segmented ELSE tx.next
        /\ a.retx = tx.retx /\ a.poll_timer = tx.poll_timer /\ a.poll_sn = tx.poll_sn
    BY <1>1, NewSduFields
  <1> HIDE DEF a
  <1>3. /\ TxRecord(t) /\ SameButPoll(a, t)
        /\ t.poll_timer = a.poll_timer /\ t.poll_sn = a.poll_sn
    BY <1>2, Counted DEF a
  <1>4. /\ TxRecord(u) /\ SameButPoll(t, u)
        /\ PollRequired(t, FALSE) => u.poll_timer = TRUE /\ u.poll_sn = tx.next
        /\ ~PollRequired(t, FALSE) =>
             u.poll_timer = t.poll_timer /\ u.poll_sn = t.poll_sn
    BY ONLY <1>3, u = get_polling_bit(t, tx.next, FALSE) DEF get_polling_bit, TxRecord, SameButPoll
  <1> HIDE DEF e
  <1>6. /\ TxRecord(tx')
        /\ tx'.queue = u.queue /\ tx'.next_ack = u.next_ack
        /\ tx'.next = IF n = Size THEN u.next + 1 ELSE u.next
        /\ tx'.segmented = u.segmented /\ tx'.retx = u.retx
        /\ tx'.window = [u.window EXCEPT ![tx.next].next_so = m]
        /\ tx'.poll_timer = u.poll_timer /\ tx'.poll_sn = u.poll_sn
    BY <1>4 DEF TxRecord, AfterNew
  <1>7. u.window = With(tx.window, tx.next, e)
    BY <1>2, <1>3, <1>4 DEF SameButPoll
  <1>8. [With(tx.window, tx.next, e) EXCEPT ![tx.next].next_so = m] =
          With(tx.window, tx.next, [next_so |-> m, retx_count |-> NotStarted])
    <2>1. [e EXCEPT !.next_so = m] = [next_so |-> m, retx_count |-> NotStarted]
      BY DEF e
    <2> QED
      BY <2>1 DEF With
  <1>9. DOMAIN t.window = DOMAIN tx'.window
    BY <1>3, <1>4, <1>6 DEF SameButPoll
  <1>10. tx'.segmented = IF n = Size THEN None ELSE tx.next
    BY ONLY <1>2, <1>3, <1>4, <1>6, tx.segmented = None DEF SameButPoll
  <1>11. /\ tx'.queue = tx.queue - 1 /\ tx'.next_ack = tx.next_ack
         /\ tx'.next = (IF n = Size THEN tx.next + 1 ELSE tx.next)
         /\ tx'.retx = tx.retx /\ t.queue = tx.queue - 1 /\ t.retx = tx.retx
         /\ t.segmented = tx'.segmented
    BY ONLY <1>2, <1>3, <1>4, <1>6 DEF SameButPoll
  <1>12. /\ PollRequired(t, FALSE) => tx'.poll_timer = TRUE /\ tx'.poll_sn = tx.next
         /\ ~PollRequired(t, FALSE) =>
              tx'.poll_timer = tx.poll_timer /\ tx'.poll_sn = tx.poll_sn
    BY ONLY <1>2, <1>3, <1>4, <1>6
  <1>13. tx'.window = With(tx.window, tx.next, [next_so |-> m, retx_count |-> NotStarted])
    BY <1>6, <1>7, <1>8
  <1> QED
    BY <1>6, <1>9, <1>10, <1>11, <1>12, <1>13

LEMMA NewPduState ==
  ASSUME TxOK(tx), NEW n \in 1 .. Size, NEW m, m = (IF n = Size THEN 0 ELSE n),
         tx.segmented = None, tx.retx = << >>, tx.queue > 0, ~is_tx_window_full(tx),
         TxRecord(tx'),
         tx'.queue = tx.queue - 1, tx'.next_ack = tx.next_ack,
         tx'.next = IF n = Size THEN tx.next + 1 ELSE tx.next,
         tx'.segmented = IF n = Size THEN None ELSE tx.next,
         tx'.retx = tx.retx,
         tx'.window = With(tx.window, tx.next, [next_so |-> m, retx_count |-> NotStarted]),
         tx'.poll_timer \in BOOLEAN, tx'.poll_sn \in Int
  PROVE  /\ TxOK(tx)' /\ Grown(tx, tx') /\ Top(tx') = tx.next + 1
         /\ n <= Sent(tx', tx.next)
  <1>1. /\ tx.next \in Int /\ tx.next_ack \in Int /\ tx.next_ack <= tx.next
        /\ Top(tx) = tx.next /\ tx.queue \in 0 .. QueueSize /\ Start <= tx.next_ack
    BY DEF TxOK, TxType, TxWindow, Top
  <1>2. tx.next - tx.next_ack < Window
    <2>1. Cardinality(DOMAIN tx.window) # Window
      BY DEF is_tx_window_full
    <2>2. tx.next - tx.next_ack # Window /\ tx.next - tx.next_ack <= Window
      BY <2>1, <1>1, WindowSize DEF TxOK, TxWindow
    <2> QED
      BY <2>2, <1>1, Constants
  <1>3. Top(tx') = tx.next + 1
    BY <1>1, Constants DEF Top
  <1> DEFINE e == [next_so |-> m, retx_count |-> NotStarted]
  <1>4. e \in Entry
    BY Constants DEF Entry, NotStarted
  <1>5. tx'.window \in [tx'.next_ack .. Top(tx') - 1 -> Entry] /\ tx'.window[tx.next] = e
    <2>1. tx.window \in [tx.next_ack .. tx.next - 1 -> Entry]
      BY <1>1 DEF TxOK, TxType
    <2>2. (tx.next_ack .. tx.next - 1) \cup {tx.next} = tx.next_ack .. tx.next
      BY <1>1
    <2> HIDE DEF e
    <2>3. With(tx.window, tx.next, e) \in [tx.next_ack .. tx.next -> Entry]
          /\ With(tx.window, tx.next, e)[tx.next] = e
      BY <2>1, <2>2, <1>4 DEF With
    <2> QED
      BY <2>3, <1>1, <1>3 DEF e
  <1>6. TxType(tx')
    BY <1>1, <1>3, <1>5, Constants DEF TxType, TxOK
  <1>7. TxWindow(tx')
    <2>1. Top(tx') - tx'.next_ack <= Window
      BY <1>1, <1>2, <1>3, Constants
    <2>2. tx'.segmented # None => tx'.window[tx'.next].next_so \in 1 .. Size - 1
      BY <1>5, Constants
    <2> QED
      BY <2>1, <2>2, <1>1 DEF TxWindow
  <1>8. TxRetx(tx')
    BY Constants DEF TxRetx
  <1>9. Grown(tx, tx')
    <2>1. \A sn \in Int : sn < Top(tx) => sn # tx'.segmented
      BY <1>1, Constants
    <2>2. \A sn \in Int : sn < Top(tx) => Sent(tx', sn) = Size /\ Sent(tx, sn) = Size
      BY <2>1, <1>1, Constants DEF Sent
    <2> QED
      BY <2>1, <2>2, <1>1, <1>3, Constants DEF Grown
  <1>10. n <= Sent(tx', tx.next)
    <2>1. CASE n = Size
      BY <2>1, <1>1, Constants DEF Sent
    <2>2. CASE n # Size
      BY <2>2, <1>1, <1>5, Constants DEF Sent
    <2> QED
      BY <2>1, <2>2
  <1> QED
    BY <1>3, <1>6, <1>7, <1>8, <1>9, <1>10 DEF TxOK

\* The last poll and the poll that is waited for, after a PDU was sent.
LEMMA PollSent ==
  ASSUME TxOK(tx), TxOK(tx)', NEW t, t.queue = tx'.queue, t.retx = tx'.retx,
         t.segmented = tx'.segmented, DOMAIN t.window = DOMAIN tx'.window,
         NothingToSend(t) \/ is_tx_window_full(t) => tx'.poll_timer = TRUE,
         MaxWindow = 0
  PROVE  ~PollLost(tx')
  <1>1. SUFFICES ASSUME PollLost(tx') PROVE FALSE
    OBVIOUS
  <1>2. /\ ~tx'.poll_timer /\ tx'.retx = << >> /\ tx'.segmented = None
        /\ tx'.queue = 0 \/ is_tx_window_full(tx')
    BY <1>1 DEF PollLost
  <1>3. is_tx_window_full(tx') => is_tx_window_full(t)
    BY DEF is_tx_window_full
  <1>4. tx'.queue = 0 => NothingToSend(t)
    BY <1>2 DEF NothingToSend
  <1> QED
    BY <1>2, <1>3, <1>4

\* The common part of the three ways to send a PDU.
LEMMA PduSent ==
  ASSUME IInv, TxOK(tx)', Grown(tx, tx'), tx'.next_ack = tx.next_ack,
         Top(tx') + tx'.queue <= Top(tx) + tx.queue,
         UNCHANGED <<rx, statuses, given, waived, delivered, reported, faults>>,
         NEW sn \in tx.next_ack .. Top(tx') - 1, NEW so \in Nat, NEW n \in 1 .. Size,
         so + n <= Sent(tx', sn), NEW poll, Transmit(Pdu(sn, so, n, poll)),
         PollInv'
  PROVE  IInv'
  <1>0. TxOK(tx) /\ TxOK(tx') /\ RxOK(rx) /\ EdgeInv /\ rx' = rx
    BY DEF IInv
  <1>1. /\ Top(tx) \in Int /\ Top(tx') \in Int /\ tx.next_ack \in Int
        /\ tx.queue \in Int /\ tx'.queue \in Int /\ rx.next \in Int /\ rx'.next \in Int
    BY <1>0, TxFacts, RxFacts
  <1>2. RxOK(rx)' /\ EdgeInv'
    <2>1. RxOK(rx)' /\ rx'.next_highest <= Top(tx') /\ rx'.next <= tx'.next
      BY <1>0, GrownBytes
    <2> QED
      BY <1>0, <2>1 DEF EdgeInv
  <1>3. GivenInv'
    BY <1>1, Constants DEF IInv, GivenInv
  <1>4. AirInv'
    <2> DEFINE p == Pdu(sn, so, n, poll)
    <2>1. air' = air \cup {p}
      BY DEF Transmit
    <2>2. ASSUME NEW q \in air PROVE PduOK(q)'
      <3>1. PduOK(q)
        BY DEF IInv, AirInv
      <3>2. q.of >= rx'.next - Window
        BY <3>1 DEF PduOK
      <3> QED
        BY <3>1, <3>2, <1>1, GrownPdu DEF IInv
    <2>3. PduOK(p)'
      <3>1. p.of = sn /\ p.sn = sn % Mod /\ p.bytes = so .. so + n - 1
        BY DEF Pdu
      <3>2. p.bytes # {} /\ p.bytes \subseteq 0 .. Sent(tx', sn) - 1
        <4>1. sn \in Int
          BY <1>1
        <4>2. Sent(tx', sn) \in Int
          BY <4>1, SentBounds, Constants DEF TxOK
        <4> QED
          <5>1. so \in so .. so + n - 1
            BY Constants
          <5>2. so .. so + n - 1 \subseteq 0 .. Sent(tx', sn) - 1
            BY <4>2, Constants
          <5> QED
            BY <3>1, <5>1, <5>2
      <3>3. sn \in Start .. Top(tx') - 1
        BY <1>1, Constants DEF IInv, TxOK, TxWindow
      <3>4. sn >= rx'.next - Window
        <4>1. rx.next <= tx.next /\ tx.next <= Top(tx) /\ Top(tx) - tx.next_ack <= Window
          BY WindowSize DEF IInv, EdgeInv, TxOK, TxWindow
        <4>2. tx.next \in Int
          BY DEF IInv, TxOK, TxType
        <4> QED
          BY <4>1, <4>2, <1>1, Constants
      <3> QED
        BY <3>1, <3>2, <3>3, <3>4 DEF PduOK
    <2> HIDE DEF p
    <2> QED
      BY <2>1, <2>2, <2>3 DEF AirInv
  <1>5. StatusInv'
    <2>1. ASSUME NEW s \in statuses PROVE StatusOK(s)'
      <3>1. StatusOK(s) /\ s.upto > tx'.next_ack - Window
        BY DEF IInv, StatusInv, StatusOK
      <3> QED
        BY <3>1, <1>1, GrownStatus DEF IInv
    <2> QED
      BY <2>1 DEF StatusInv
  <1>6. DeliveredInv'
    BY DEF IInv, DeliveredInv, Full, Has, Got
  <1> QED
    BY <1>2, <1>3, <1>4, <1>5, <1>6 DEF IInv

LEMMA NewPduStep ==
  ASSUME IInv, NEW n \in 1 .. Size, tx.retx = << >>, tx.segmented = None,
         build_new_pdu(n),
         UNCHANGED <<rx, statuses, given, waived, delivered, reported, faults>>
  PROVE  IInv'
  <1>1. tx.queue > 0 /\ ~is_tx_window_full(tx)
    BY DEF build_new_pdu
  <1>2. PICK t : /\ t = CountNew(NewSdu(tx, n), IF n = Size THEN 0 ELSE n)
                 /\ tx' = AfterNew(get_polling_bit(t, tx.next, FALSE), n, tx.next,
                                   IF n = Size THEN 0 ELSE n)
                 /\ Transmit(Pdu(tx.next, 0, n, PollRequired(t, FALSE)))
    BY DEF build_new_pdu, AfterNew
  <1>3. PICK m : m = (IF n = Size THEN 0 ELSE n)
    OBVIOUS
  <1>4. PICK u : u = get_polling_bit(t, tx.next, FALSE)
    OBVIOUS
  <1>5. tx' = AfterNew(u, n, tx.next, m)
    BY <1>2, <1>3, <1>4
  <1>6. TxOK(tx)
    BY DEF IInv
  <1>7. /\ TxRecord(tx')
        /\ tx'.queue = tx.queue - 1 /\ tx'.next_ack = tx.next_ack
        /\ tx'.next = IF n = Size THEN tx.next + 1 ELSE tx.next
        /\ tx'.segmented = IF n = Size THEN None ELSE tx.next
        /\ tx'.retx = tx.retx
        /\ tx'.window = With(tx.window, tx.next,
              [next_so |-> m, retx_count |-> NotStarted])
        /\ PollRequired(t, FALSE) => tx'.poll_timer = TRUE /\ tx'.poll_sn = tx.next
        /\ ~PollRequired(t, FALSE) =>
             tx'.poll_timer = tx.poll_timer /\ tx'.poll_sn = tx.poll_sn
        /\ t.queue = tx.queue - 1 /\ t.retx = tx.retx
        /\ t.segmented = tx'.segmented /\ DOMAIN t.window = DOMAIN tx'.window
    BY <1>2, <1>3, <1>4, <1>5, <1>6, NewPduFields
  <1>8. tx.next \in Int /\ tx.queue \in Int /\ tx.next_ack <= tx.next
        /\ tx.next_ack \in Int /\ Top(tx) = tx.next
    BY <1>6, TxFacts
  <1>9. tx'.poll_timer \in BOOLEAN /\ tx'.poll_sn \in Int
    BY <1>6, <1>7, <1>8, TxFacts
  <1>10. /\ TxOK(tx)' /\ Grown(tx, tx') /\ Top(tx') = tx.next + 1
         /\ n <= Sent(tx', tx.next)
    BY <1>1, <1>3, <1>6, <1>7, <1>9, NewPduState
  <1>11. PollInv'
    <2>1. SUFFICES ASSUME MaxWindow = 0 PROVE
            /\ tx'.segmented = None /\ tx'.next_ack < tx'.next /\ tx'.queue = 0 =>
                 tx'.poll_sn = tx'.next - 1 \/ waived' # {}
            /\ PollLost(tx') => waived' # {}
      BY DEF PollInv
    <2>2. NothingToSend(t) \/ is_tx_window_full(t) => PollRequired(t, FALSE)
      BY DEF PollRequired
    <2>3. ~PollLost(tx')
      BY <2>1, <2>2, <1>6, <1>7, <1>10, PollSent
    <2>4. ASSUME tx'.segmented = None, tx'.queue = 0 PROVE tx'.poll_sn = tx'.next - 1
      <3>1. NothingToSend(t)
        BY <2>4, <1>7 DEF NothingToSend
      <3>2. n = Size
        BY <2>4, <1>7, <1>8, Constants
      <3> QED
        BY <3>1, <3>2, <2>2, <1>7, <1>8
    <2> QED
      BY <2>3, <2>4
  <1>12. tx.next \in tx.next_ack .. Top(tx') - 1 /\ Top(tx') + tx'.queue <= Top(tx) + tx.queue
    BY <1>7, <1>8, <1>10
  <1>13. 0 + n <= Sent(tx', tx.next)
    BY <1>10
  <1> QED
    BY <1>2, <1>7, <1>10, <1>11, <1>12, <1>13, PduSent

\* The entry of the SDU under segmentation after its first m bytes were sent.
SentUpTo(m) == [next_so |-> m, retx_count |-> tx.window[tx.next].retx_count]

\* The transmitter after a further PDU of a segmented SDU.
ContinuedTx(n, so) ==
  /\ TxRecord(tx')
  /\ tx'.queue = tx.queue /\ tx'.next_ack = tx.next_ack
  /\ tx'.next = IF so + n = Size THEN tx.next + 1 ELSE tx.next
  /\ tx'.segmented = IF so + n = Size THEN None ELSE tx.next
  /\ tx'.retx = tx.retx
  /\ tx'.window = With(tx.window, tx.next, SentUpTo(so + n))

Polled(t) ==
  /\ PollRequired(t, FALSE) => tx'.poll_timer = TRUE /\ tx'.poll_sn = tx.next
  /\ ~PollRequired(t, FALSE) =>
       tx'.poll_timer = tx.poll_timer /\ tx'.poll_sn = tx.poll_sn
  /\ t.queue = tx'.queue /\ t.retx = tx'.retx
  /\ t.segmented = tx'.segmented /\ DOMAIN t.window = DOMAIN tx'.window

LEMMA ContinuedFields ==
  ASSUME TxOK(tx), tx.segmented = tx.next, NEW so \in Int, NEW n \in Int, NEW t, NEW u,
         t = CountNew(EndSegment(tx, n, so), n),
         u = get_polling_bit(t, tx.next, FALSE),
         tx' = AfterContinued(u, n, tx.next, so)
  PROVE  ContinuedTx(n, so) /\ Polled(t)
  <1>1. TxRecord(tx)
    BY TxFacts
  <1>2. PICK a : a = EndSegment(tx, n, so)
    OBVIOUS
  <1>3. /\ TxRecord(a) /\ a.queue = tx.queue /\ a.next = tx.next /\ a.next_ack = tx.next_ack
        /\ a.window = tx.window /\ a.segmented = (IF so + n = Size THEN None ELSE tx.next)
        /\ a.retx = tx.retx /\ a.poll_timer = tx.poll_timer /\ a.poll_sn = tx.poll_sn
    BY ONLY <1>1, <1>2, tx.next = tx.segmented DEF TxRecord, EndSegment
  <1>4. t = CountNew(a, n)
    BY <1>2
  <1>5. /\ TxRecord(t) /\ SameButPoll(a, t)
        /\ t.poll_timer = a.poll_timer /\ t.poll_sn = a.poll_sn
    BY ONLY <1>3, <1>4, Counted
  <1>6. /\ TxRecord(u) /\ SameButPoll(t, u)
        /\ PollRequired(t, FALSE) => u.poll_timer = TRUE /\ u.poll_sn = tx.next
        /\ ~PollRequired(t, FALSE) =>
             u.poll_timer = t.poll_timer /\ u.poll_sn = t.poll_sn
    BY ONLY <1>5, u = get_polling_bit(t, tx.next, FALSE)
       DEF get_polling_bit, TxRecord, SameButPoll
  <1>7. /\ TxRecord(tx')
        /\ tx'.queue = u.queue /\ tx'.next_ack = u.next_ack
        /\ tx'.next = (IF so + n = Size THEN u.next + 1 ELSE u.next)
        /\ tx'.segmented = u.segmented /\ tx'.retx = u.retx
        /\ tx'.window = [u.window EXCEPT ![tx.next].next_so = so + n]
        /\ tx'.poll_timer = u.poll_timer /\ tx'.poll_sn = u.poll_sn
    BY ONLY <1>6, tx' = AfterContinued(u, n, tx.next, so) DEF TxRecord, AfterContinued
  <1>8. /\ u.window = tx.window /\ u.queue = tx.queue /\ u.next = tx.next
        /\ u.next_ack = tx.next_ack /\ u.retx = tx.retx
        /\ u.segmented = (IF so + n = Size THEN None ELSE tx.next)
        /\ t.queue = tx.queue /\ t.retx = tx.retx /\ t.window = tx.window
        /\ t.segmented = u.segmented
    BY ONLY <1>3, <1>5, <1>6 DEF SameButPoll
  <1>9. /\ PollRequired(t, FALSE) => tx'.poll_timer = TRUE /\ tx'.poll_sn = tx.next
        /\ ~PollRequired(t, FALSE) =>
              tx'.poll_timer = tx.poll_timer /\ tx'.poll_sn = tx.poll_sn
    BY ONLY <1>3, <1>5, <1>6, <1>7
  <1>10. tx'.window = With(tx.window, tx.next, SentUpTo(so + n))
    <2>1. tx.window \in [DOMAIN tx.window -> Entry] /\ tx.next \in DOMAIN tx.window
      <3>1. /\ tx.window \in [tx.next_ack .. Top(tx) - 1 -> Entry]
            /\ DOMAIN tx.window = tx.next_ack .. Top(tx) - 1
            /\ tx.next_ack <= tx.next
            /\ tx.next \in Int /\ tx.next_ack \in Int
        BY TxFacts
      <3>3. Top(tx) = tx.next + 1
        BY <3>1, Constants DEF Top
      <3>2. tx.next \in tx.next_ack .. Top(tx) - 1
        BY ONLY <3>1, <3>3
      <3> QED
        BY ONLY <3>1, <3>2
    <2>2. [tx.window EXCEPT ![tx.next].next_so = so + n] = With(tx.window, tx.next, SentUpTo(so + n))
      BY <2>1 DEF With, Entry, SentUpTo
    <2> QED
      BY ONLY <1>7, <1>8, <2>2
  <1>11. DOMAIN t.window = DOMAIN tx'.window
    BY ONLY <1>7, <1>8
  <1>12. ContinuedTx(n, so)
    BY ONLY <1>7, <1>8, <1>10 DEF ContinuedTx
  <1>13. Polled(t)
    BY ONLY <1>7, <1>8, <1>9, <1>11 DEF Polled
  <1> QED
    BY <1>12, <1>13

LEMMA ContinuedState ==
  ASSUME TxOK(tx), tx.segmented = tx.next, NEW so, NEW n \in 1 .. Size,
         tx.retx = << >>,
         so = tx.window[tx.next].next_so, so + n <= Size,
         ContinuedTx(n, so),
         tx'.poll_timer \in BOOLEAN, tx'.poll_sn \in Int
  PROVE  /\ TxOK(tx)' /\ Grown(tx, tx') /\ Top(tx') = tx.next + 1 /\ Top(tx) = tx.next + 1
         /\ so \in Nat /\ so + n <= Sent(tx', tx.next)
  <1> USE DEF ContinuedTx
  <1>1. /\ tx.next \in Int /\ tx.next_ack \in Int /\ tx.next_ack <= tx.next
        /\ Top(tx) = tx.next + 1 /\ tx.queue \in 0 .. QueueSize /\ Start <= tx.next_ack
        /\ Top(tx) - tx.next_ack <= Window
        /\ tx.window \in [tx.next_ack .. tx.next -> Entry]
    <2>1. Top(tx) = tx.next + 1
      <3>1. tx.next \in Int
        BY TxFacts
      <3> QED
        BY <3>1, Constants DEF Top
    <2>2. Top(tx) - 1 = tx.next
      BY <2>1, TxFacts
    <2> QED
      BY <2>1, <2>2, TxFacts
  <1>2. so \in 1 .. Size - 1
    BY <1>1, Constants DEF TxOK, TxWindow
  <1>3. Top(tx') = tx.next + 1
    BY <1>1, Constants DEF Top
  <1>4. tx'.window \in [tx'.next_ack .. Top(tx') - 1 -> Entry]
        /\ tx'.window[tx.next].next_so = so + n
    <2>1. so + n \in 0 .. Size
      BY <1>2, Constants
    <2>2. tx.next \in tx.next_ack .. tx.next
      BY <1>1
    <2> DEFINE e == SentUpTo(so + n)
    <2>5. e \in Entry /\ e.next_so = so + n
      BY <1>1, <2>1, <2>2 DEF Entry, SentUpTo
    <2>6. tx'.window = With(tx.window, tx.next, e)
      OBVIOUS
    <2> HIDE DEF e
    <2>3. tx'.window \in [tx.next_ack .. tx.next -> Entry] /\ tx'.window[tx.next].next_so = so + n
      BY <1>1, <2>2, <2>5, <2>6 DEF With
    <2>4. Top(tx') - 1 = tx.next
      BY <1>1, <1>3
    <2> QED
      BY <2>3, <2>4
  <1>5. tx'.next \in Int /\ tx'.segmented \in {None, tx'.next}
    BY <1>1
  <1>6. TxType(tx')
    <2>1. tx.retx \in Seq(RetxEntry)
      BY TxFacts
    <2> QED
      BY <1>1, <1>4, <1>5, <2>1 DEF TxType
  <1>7. TxWindow(tx')
    <2>1. Top(tx') - tx'.next_ack <= Window
      BY <1>1, <1>3, Constants
    <2>2. ASSUME tx'.segmented # None
          PROVE  tx'.window[tx'.next].next_so \in 1 .. Size - 1
      <3>1. tx'.next = tx.next /\ so + n # Size
        BY <2>2, <1>1
      <3>2. tx'.window[tx'.next].next_so = so + n
        BY <3>1, <1>4
      <3> QED
        BY <3>1, <3>2, <1>2, Constants
    <2>3. Start <= tx'.next_ack /\ tx'.next_ack <= tx'.next
      BY <1>1
    <2> QED
      BY <2>1, <2>2, <2>3 DEF TxWindow
  <1>8. TxRetx(tx')
    BY Constants DEF TxRetx
  <1>9. Sent(tx', tx.next) = so + n
    <2>1. CASE so + n = Size
      BY <2>1, <1>1, Constants DEF Sent
    <2>2. CASE so + n # Size
      BY <2>2, <1>1, <1>4, Constants DEF Sent
    <2> QED
      BY <2>1, <2>2
  <1>10. Grown(tx, tx')
    <2>1. ASSUME NEW k \in Int, k < Top(tx)
          PROVE  Sent(tx, k) <= Sent(tx', k) /\ (k = tx'.segmented => k = tx.segmented)
      <3>1. CASE k = tx.next
        <4>1. Sent(tx, k) = so /\ Sent(tx', k) = so + n
          BY <3>1, <1>9 DEF Sent
        <4> QED
          BY <3>1, <4>1, <1>2, Constants
      <3>2. CASE k # tx.next
        BY <3>2, <1>1, Constants DEF Sent
      <3> QED
        BY <3>1, <3>2
    <2> QED
      BY <2>1, <1>1, <1>3, Constants DEF Grown
  <1> QED
    <2>1. so \in Nat /\ so + n <= Sent(tx', tx.next)
      BY <1>2, <1>9, Constants
    <2> QED
      BY <1>1, <1>3, <1>6, <1>7, <1>8, <1>10, <2>1 DEF TxOK

LEMMA ContinuedStep ==
  ASSUME IInv, NEW n \in 1 .. Size, tx.retx = << >>, tx.segmented # None,
         build_continued_sdu_segment(n),
         UNCHANGED <<rx, statuses, given, waived, delivered, reported, faults>>
  PROVE  IInv'
  <1>6. TxOK(tx)
    BY DEF IInv
  <1>0. tx.segmented = tx.next
    BY <1>6, TxFacts
  <1>1. PICK so : so = tx.window[tx.next].next_so
    OBVIOUS
  <1>2. /\ so + n <= Size
        /\ \E t \in {CountNew(EndSegment(tx, n, so), n)} :
             /\ tx' = AfterContinued(get_polling_bit(t, tx.next, FALSE), n, tx.next, so)
             /\ Transmit(Pdu(tx.next, so, n, PollRequired(t, FALSE)))
    BY <1>0, <1>1 DEF build_continued_sdu_segment, AfterContinued, EndSegment
  <1>3. PICK t : /\ t = CountNew(EndSegment(tx, n, so), n)
                 /\ tx' = AfterContinued(get_polling_bit(t, tx.next, FALSE), n, tx.next, so)
                 /\ Transmit(Pdu(tx.next, so, n, PollRequired(t, FALSE)))
    BY <1>2
  <1>4. PICK u : u = get_polling_bit(t, tx.next, FALSE)
    OBVIOUS
  <1>5. tx' = AfterContinued(u, n, tx.next, so)
    BY <1>3, <1>4
  <1>7. ContinuedTx(n, so) /\ Polled(t)
    <2>1. so \in Int /\ n \in Int
      <3>1. tx.segmented = tx.next /\ tx.window[tx.next].next_so \in 1 .. Size - 1
        BY <1>6, TxFacts DEF TxWindow
      <3> QED
        BY <3>1, <1>1, Constants
    <2> QED
      <3>1. t = CountNew(EndSegment(tx, n, so), n)
        BY <1>3
      <3> QED
        BY ONLY <2>1, <3>1, <1>0, <1>4, <1>5, <1>6, ContinuedFields
  <1>8. tx.next \in Int /\ tx.queue \in Int /\ tx.next_ack <= tx.next
        /\ tx.next_ack \in Int
    BY <1>6, TxFacts
  <1>9. tx'.poll_timer \in BOOLEAN /\ tx'.poll_sn \in Int
    BY <1>6, <1>7, <1>8, TxFacts DEF Polled
  <1>10. /\ TxOK(tx)' /\ Grown(tx, tx') /\ Top(tx') = tx.next + 1 /\ Top(tx) = tx.next + 1
         /\ so \in Nat /\ so + n <= Sent(tx', tx.next)
    BY <1>0, <1>1, <1>2, <1>6, <1>7, <1>9, ContinuedState
  <1>11. PollInv'
    <2>1. SUFFICES ASSUME MaxWindow = 0 PROVE
            /\ tx'.segmented = None /\ tx'.next_ack < tx'.next /\ tx'.queue = 0 =>
                 tx'.poll_sn = tx'.next - 1 \/ waived' # {}
            /\ PollLost(tx') => waived' # {}
      BY DEF PollInv
    <2>2. NothingToSend(t) \/ is_tx_window_full(t) => PollRequired(t, FALSE)
      BY DEF PollRequired
    <2>3. ~PollLost(tx')
      BY <2>1, <2>2, <1>6, <1>7, <1>10, PollSent DEF Polled
    <2>4. ASSUME tx'.segmented = None, tx'.queue = 0 PROVE tx'.poll_sn = tx'.next - 1
      <3>1. NothingToSend(t)
        BY <2>4, <1>7 DEF NothingToSend, Polled, ContinuedTx
      <3>2. so + n = Size
        BY <2>4, <1>1, <1>7, <1>8, Constants DEF ContinuedTx
      <3> QED
        BY <3>1, <3>2, <2>2, <1>7, <1>8 DEF Polled, ContinuedTx
    <2> QED
      BY <2>3, <2>4
  <1>12. tx.next \in tx.next_ack .. Top(tx') - 1 /\ Top(tx') + tx'.queue <= Top(tx) + tx.queue
    BY <1>7, <1>8, <1>10 DEF ContinuedTx
  <1>13. tx'.next_ack = tx.next_ack
    BY <1>7 DEF ContinuedTx
  <1> QED
    BY <1>3, <1>13, <1>10, <1>11, <1>12, PduSent

-----------------------------------------------------------------------------
(* Sending a retransmission.                                               *)

\* u differs from t in what was not sent: counters, queues and polling.
SameSent(t, u) ==
  /\ u.next = t.next /\ u.next_ack = t.next_ack /\ u.segmented = t.segmented
  /\ t.segmented # None => u.window[t.next].next_so = t.window[t.next].next_so

LEMMA SameSentGrown ==
  ASSUME NEW t, NEW u, TxOK(t), SameSent(t, u)
  PROVE  /\ Top(u) = Top(t) /\ \A sn \in Int : Sent(u, sn) = Sent(t, sn)
         /\ Grown(t, u)
  <1>1. Top(u) = Top(t)
    BY DEF Top, SameSent
  <1>2. t.next \in Int /\ t.segmented \in {None, t.next} /\ Top(t) \in Int
    BY TxFacts
  <1>3. ASSUME NEW sn \in Int PROVE Sent(u, sn) = Sent(t, sn) /\ Sent(t, sn) \in Int
    <2>1. Sent(u, sn) = Sent(t, sn)
      BY <1>2, Constants DEF Sent, SameSent
    <2>2. Sent(t, sn) \in 0 .. Size
      BY TxFacts, SentBounds
    <2> QED
      BY <2>1, <2>2, Constants
  <1>4. Grown(t, u)
    BY <1>1, <1>2, <1>3 DEF Grown, SameSent
  <1> QED
    BY <1>1, <1>3, <1>4

LEMMA SameRetxOK ==
  ASSUME NEW t, NEW u, TxOK(t), SameSent(t, u), NEW r \in RetxEntry, RetxOK(t, r)
  PROVE  RetxOK(u, r)
  BY SameSentGrown DEF RetxOK, SameSent, RetxEntry

LEMMA TailOf ==
  ASSUME NEW S, NEW q \in Seq(S), q # << >>
  PROVE  /\ Len(q) \in Nat /\ Len(q) >= 1 /\ Head(q) = q[1] /\ Head(q) \in S
         /\ Tail(q) \in Seq(S) /\ Len(Tail(q)) = Len(q) - 1
         /\ \A i \in 1 .. Len(q) - 1 : Tail(q)[i] = q[i + 1]
  OBVIOUS

LEMMA HeadReplaced ==
  ASSUME NEW S, NEW q \in Seq(S), q # << >>, NEW x \in S
  PROVE  /\ <<x>> \o Tail(q) \in Seq(S) /\ Len(<<x>> \o Tail(q)) = Len(q)
         /\ (<<x>> \o Tail(q))[1] = x
         /\ \A i \in 2 .. Len(q) : (<<x>> \o Tail(q))[i] = q[i]
  <1> DEFINE w == Tail(q)
  <1>1. w \in Seq(S) /\ Len(w) = Len(q) - 1 /\ Len(q) \in Nat /\ Len(q) >= 1
        /\ \A i \in 1 .. Len(q) - 1 : w[i] = q[i + 1]
    BY TailOf
  <1> HIDE DEF w
  <1>2. <<x>> \o w \in Seq(S) /\ Len(<<x>> \o w) = 1 + Len(w) /\ (<<x>> \o w)[1] = x
    BY <1>1
  <1>3. \A i \in 2 .. Len(q) : (<<x>> \o w)[i] = w[i - 1]
    BY <1>1
  <1>4. \A i \in 2 .. Len(q) : w[i - 1] = q[i]
    BY <1>1
  <1> QED
    BY <1>1, <1>2, <1>3, <1>4 DEF w

\* The retx_queue after n bytes of its first element were sent.
RetxLeft(q, n) ==
  IF n = Head(q).len THEN Tail(q)
  ELSE <<[Head(q) EXCEPT !.so = @ + n, !.len = @ - n]>> \o Tail(q)

LEMMA RetxLeftOK ==
  ASSUME NEW t, TxOK(t), NEW n \in 1 .. Size, t.retx # << >>, n <= Head(t.retx).len,
         NEW q, q = RetxLeft(t.retx, n)
  PROVE  /\ q \in Seq(RetxEntry) /\ Len(q) <= Window
         /\ \A i \in 1 .. Len(q) : RetxOK(t, q[i])
  <1>1. /\ t.retx \in Seq(RetxEntry) /\ Len(t.retx) <= Window
        /\ \A i \in 1 .. Len(t.retx) : RetxOK(t, t.retx[i])
    BY TxFacts DEF TxRetx
  <1>2. PICK r \in RetxEntry : r = Head(t.retx) /\ r = t.retx[1] /\ RetxOK(t, r)
    BY <1>1, TailOf
  <1>3. PICK k \in Nat : k = Len(t.retx) /\ k >= 1
    BY <1>1, TailOf
  <1>4. CASE n = r.len
    <2>1. q = Tail(t.retx)
      BY <1>2, <1>4 DEF RetxLeft
    <2>2. q \in Seq(RetxEntry) /\ Len(q) = k - 1 /\ \A i \in 1 .. k - 1 : q[i] = t.retx[i + 1]
      BY <2>1, <1>1, <1>3, TailOf
    <2>3. Len(q) <= Window
      BY <2>2, <1>1, <1>3, Constants
    <2>4. ASSUME NEW i \in 1 .. Len(q) PROVE RetxOK(t, q[i])
      <3>1. i + 1 \in 1 .. k /\ q[i] = t.retx[i + 1]
        BY <2>2, <1>3
      <3> QED
        BY <3>1, <1>1, <1>3
    <2> QED
      BY <2>2, <2>3, <2>4
  <1>5. CASE n # r.len
    <2>1. PICK x : x = [r EXCEPT !.so = @ + n, !.len = @ - n]
      OBVIOUS
    <2>7. r.so + n \in Nat /\ r.len - n \in Nat \ {0}
      <3>1. n <= r.len
        BY <1>2
      <3> QED
        BY <3>1, <1>5, Constants DEF RetxEntry
    <2>2. x.sn = r.sn /\ x.so = r.so + n /\ x.len = r.len - n /\ x \in RetxEntry
      BY ONLY <2>1, <2>7, r \in RetxEntry DEF RetxEntry
    <2>3. RetxOK(t, x)
      BY <2>2, <1>2, Constants DEF RetxOK, RetxEntry
    <2>4. q = <<x>> \o Tail(t.retx)
      BY <2>1, <1>2, <1>5 DEF RetxLeft
    <2>5. q \in Seq(RetxEntry) /\ Len(q) = k /\ q[1] = x
          /\ \A i \in 2 .. k : q[i] = t.retx[i]
      BY <2>2, <2>4, <1>1, <1>3, HeadReplaced
    <2>6. ASSUME NEW i \in 1 .. Len(q) PROVE RetxOK(t, q[i])
      <3>1. CASE i = 1
        BY <3>1, <2>3, <2>5
      <3>2. CASE i # 1
        BY <3>2, <2>5, <1>1, <1>3
      <3> QED
        BY <3>1, <3>2
    <2> QED
      BY <2>5, <2>6, <1>1, <1>3
  <1> QED
    BY <1>4, <1>5

LEMMA DequeuedFields ==
  ASSUME TxOK(tx), tx.retx # << >>, NEW n, NEW t, t = Dequeued(n),
         NEW u, u = get_polling_bit(t, Head(tx.retx).sn, TRUE)
  PROVE  /\ TxRecord(u) /\ SameButPoll(t, u) /\ SameSent(tx, u)
         /\ u.queue = tx.queue /\ u.window = tx.window
         /\ u.retx = RetxLeft(tx.retx, n) /\ u.poll_sn = tx.poll_sn
         /\ PollRequired(t, TRUE) => u.poll_timer = TRUE
         /\ ~PollRequired(t, TRUE) => u.poll_timer = tx.poll_timer
  <1>1. TxRecord(tx)
    BY TxFacts
  <1>2. /\ TxRecord(t) /\ SameSent(tx, t) /\ t.queue = tx.queue /\ t.window = tx.window
        /\ t.retx = RetxLeft(tx.retx, n)
        /\ t.poll_sn = tx.poll_sn /\ t.poll_timer = tx.poll_timer
    BY <1>1 DEF Dequeued, TxRecord, SameSent, RetxLeft
  <1>3. /\ TxRecord(u) /\ SameButPoll(t, u) /\ u.poll_sn = t.poll_sn
        /\ PollRequired(t, TRUE) => u.poll_timer = TRUE
        /\ ~PollRequired(t, TRUE) => u.poll_timer = t.poll_timer
    BY ONLY <1>2, u = get_polling_bit(t, Head(tx.retx).sn, TRUE)
       DEF get_polling_bit, TxRecord, SameButPoll
  <1>4. /\ SameSent(tx, u) /\ u.queue = tx.queue /\ u.window = tx.window
        /\ u.retx = RetxLeft(tx.retx, n)
    BY ONLY <1>2, <1>3 DEF SameButPoll, SameSent
  <1> QED
    BY ONLY <1>2, <1>3, <1>4

LEMMA RetxPduStep ==
  ASSUME IInv, NEW n \in 1 .. Size, tx.retx # << >>, build_retx_pdu(n),
         UNCHANGED <<rx, statuses, given, waived, delivered, reported, faults>>
  PROVE  IInv'
  <1>1. TxOK(tx)
    BY DEF IInv
  <1>2. PICK r \in RetxEntry : r = Head(tx.retx) /\ r = tx.retx[1] /\ RetxOK(tx, r)
    <2>1. tx.retx \in Seq(RetxEntry) /\ \A i \in 1 .. Len(tx.retx) : RetxOK(tx, tx.retx[i])
      BY <1>1, TxFacts DEF TxRetx
    <2> QED
      BY <2>1, TailOf
  <1>3. n <= r.len
    BY <1>2 DEF build_retx_pdu
  <1>4. PICK t : /\ t = Dequeued(n)
                 /\ tx' = get_polling_bit(t, Head(tx.retx).sn, TRUE)
                 /\ Transmit(Pdu(r.sn, r.so, n, PollRequired(t, TRUE)))
    BY <1>2 DEF build_retx_pdu
  <1>5. /\ TxRecord(tx') /\ SameButPoll(t, tx') /\ SameSent(tx, tx')
        /\ tx'.queue = tx.queue /\ tx'.window = tx.window
        /\ tx'.retx = RetxLeft(tx.retx, n) /\ tx'.poll_sn = tx.poll_sn
        /\ PollRequired(t, TRUE) => tx'.poll_timer = TRUE
        /\ ~PollRequired(t, TRUE) => tx'.poll_timer = tx.poll_timer
    BY <1>1, <1>4, DequeuedFields
  <1>6. Top(tx') = Top(tx) /\ Grown(tx, tx') /\ \A sn \in Int : Sent(tx', sn) = Sent(tx, sn)
    BY <1>1, <1>5, SameSentGrown
  <1>7. TxOK(tx')
    <2>1. /\ tx'.retx \in Seq(RetxEntry) /\ Len(tx'.retx) <= Window
          /\ \A i \in 1 .. Len(tx'.retx) : RetxOK(tx, tx'.retx[i])
      BY <1>1, <1>2, <1>3, <1>5, RetxLeftOK
    <2>2. TxRetx(tx')
      BY <2>1, <1>1, <1>5, SameRetxOK DEF TxRetx
    <2>3. tx'.poll_timer \in BOOLEAN
      BY <1>1, <1>5, TxFacts
    <2>4. TxType(tx')
      BY <2>1, <2>3, <1>1, <1>5, <1>6 DEF TxType, TxOK, SameSent
    <2>5. TxWindow(tx')
      BY <1>1, <1>5, <1>6 DEF TxWindow, TxOK, SameSent
    <2> QED
      BY <2>2, <2>4, <2>5 DEF TxOK
  <1>8. tx'.next = tx.next /\ tx'.next_ack = tx.next_ack /\ tx'.segmented = tx.segmented
    BY <1>5 DEF SameSent
  <1>9. PollInv'
    <2>1. SUFFICES ASSUME MaxWindow = 0 PROVE
            /\ tx'.segmented = None /\ tx'.next_ack < tx'.next /\ tx'.queue = 0 =>
                 tx'.poll_sn = tx'.next - 1 \/ waived' # {}
            /\ PollLost(tx') => waived' # {}
      BY DEF PollInv
    <2>2. NothingToSend(t) \/ is_tx_window_full(t) => PollRequired(t, TRUE)
      BY DEF PollRequired
    <2>3. /\ t.queue = tx'.queue /\ t.retx = tx'.retx
          /\ t.segmented = tx'.segmented /\ DOMAIN t.window = DOMAIN tx'.window
      BY <1>5 DEF SameButPoll
    <2>4. ~PollLost(tx')
      BY <2>1, <2>2, <2>3, <1>1, <1>5, <1>7, PollSent
    <2> QED
      BY <2>1, <2>4, <1>5, <1>8 DEF IInv, PollInv
  <1>10. /\ r.sn \in tx.next_ack .. Top(tx') - 1 /\ r.so \in Nat
         /\ r.so + n <= Sent(tx', r.sn)
         /\ Top(tx') + tx'.queue <= Top(tx) + tx.queue
    <2>1. r.sn \in Int /\ r.so \in Nat /\ r.len \in Nat
      BY DEF RetxEntry
    <2>2. r.sn \in tx.next_ack .. Top(tx) - 1 /\ r.so + r.len <= Sent(tx, r.sn)
      BY <1>2 DEF RetxOK
    <2>3. Sent(tx', r.sn) = Sent(tx, r.sn) /\ Sent(tx, r.sn) \in Int
      <3>1. TxType(tx) /\ TxWindow(tx)
        BY <1>1 DEF TxOK
      <3>2. Sent(tx, r.sn) \in 0 .. Size
        BY <2>1, <3>1, SentBounds
      <3> QED
        BY <2>1, <3>2, <1>6, Constants
    <2>4. Top(tx) \in Int /\ tx.queue \in Int
      BY <1>1, TxFacts
    <2> QED
      BY <2>1, <2>2, <2>3, <2>4, <1>3, <1>5, <1>6, Constants
  <1> QED
    BY <1>4, <1>6, <1>7, <1>8, <1>9, <1>10, PduSent

-----------------------------------------------------------------------------
(* The upper layer and the poll retransmission timer.                      *)

\* The parts that hold of a transmitter that sent nothing.
LEMMA NothingSent ==
  ASSUME IInv, TxOK(tx)', SameSent(tx, tx'), rx' = rx, air' = air, statuses' = statuses
  PROVE  RxOK(rx)' /\ EdgeInv' /\ AirInv' /\ StatusInv'
  <1>1. TxOK(tx) /\ TxOK(tx') /\ RxOK(rx) /\ EdgeInv
    BY DEF IInv
  <1>2. Grown(tx, tx') /\ tx'.next_ack = tx.next_ack
    BY <1>1, SameSentGrown DEF SameSent
  <1>3. rx.next \in Int /\ rx'.next \in Int
    BY <1>1, RxFacts
  <1>4. RxOK(rx)' /\ EdgeInv'
    <2>1. RxOK(rx)' /\ rx'.next_highest <= Top(tx') /\ rx'.next <= tx'.next
      BY <1>1, <1>2, GrownBytes
    <2> QED
      BY <1>1, <1>2, <2>1 DEF EdgeInv
  <1>5. AirInv'
    <2>1. ASSUME NEW q \in air PROVE PduOK(q)'
      <3>1. PduOK(q)
        BY DEF IInv, AirInv
      <3>2. q.of >= rx'.next - Window
        BY <3>1 DEF PduOK
      <3> QED
        BY <3>1, <3>2, <1>1, <1>2, <1>3, GrownPdu
    <2> QED
      BY <2>1 DEF AirInv
  <1>6. StatusInv'
    <2>1. ASSUME NEW s \in statuses PROVE StatusOK(s)'
      <3>1. StatusOK(s) /\ s.upto > tx'.next_ack - Window
        BY <1>2 DEF IInv, StatusInv, StatusOK
      <3>2. rx.next <= rx'.next
        BY <1>3
      <3> QED
        BY <3>1, <3>2, <1>1, <1>2, <1>3, GrownStatus
    <2> QED
      BY <2>1 DEF StatusInv
  <1> QED
    BY <1>4, <1>5, <1>6

\* A grant without room for payload changes only retx_sn.
LEMMA DoesNotFitStep ==
  ASSUME IInv, tx.retx # << >>, RetxDoesNotFit,
         UNCHANGED <<rx, statuses, given, waived, delivered, reported, faults>>
  PROVE  IInv'
  <1>1. TxOK(tx) /\ TxRecord(tx)
    BY TxFacts DEF IInv
  <1>2. PICK x : tx' = [tx EXCEPT !.retx_sn = x]
    BY DEF RetxDoesNotFit
  <1>3. /\ TxRecord(tx') /\ tx'.queue = tx.queue /\ tx'.next = tx.next
        /\ tx'.next_ack = tx.next_ack /\ tx'.window = tx.window
        /\ tx'.segmented = tx.segmented /\ tx'.retx = tx.retx
        /\ tx'.poll_sn = tx.poll_sn /\ tx'.poll_timer = tx.poll_timer
    BY ONLY <1>1, <1>2 DEF TxRecord
  <1>4. SameSent(tx, tx') /\ Top(tx') = Top(tx)
    BY <1>3 DEF SameSent, Top
  <1>5. TxOK(tx)'
    <2>1. TxType(tx') /\ TxWindow(tx')
      BY <1>1, <1>3, <1>4 DEF TxOK, TxType, TxWindow
    <2>2. TxRetx(tx')
      BY <1>1, <1>3, <1>4 DEF TxOK, TxRetx, RetxOK, Sent
    <2> QED
      BY <2>1, <2>2 DEF TxOK
  <1>6. RxOK(rx)' /\ EdgeInv' /\ AirInv' /\ StatusInv'
    BY <1>4, <1>5, NothingSent DEF RetxDoesNotFit
  <1>7. GivenInv'
    BY <1>3, <1>4 DEF IInv, GivenInv
  <1>8. DeliveredInv'
    BY DEF IInv, DeliveredInv, Full, Has, Got
  <1>9. PollInv'
    BY <1>3 DEF IInv, PollInv, PollLost, is_tx_window_full
  <1> QED
    BY <1>5, <1>6, <1>7, <1>8, <1>9 DEF IInv

LEMMA PullPduStep ==
  ASSUME IInv, pull_pdu
  PROVE  IInv'
  <1>1. UNCHANGED <<rx, statuses, given, waived, delivered, reported, faults>>
    BY DEF pull_pdu
  <1>2. \/ tx.retx # << >> /\ RetxDoesNotFit
        \/ \E n \in 1 .. Size :
             \/ tx.retx # << >> /\ build_retx_pdu(n)
             \/ tx.retx = << >> /\ tx.segmented # None /\ build_continued_sdu_segment(n)
             \/ tx.retx = << >> /\ tx.segmented = None /\ build_new_pdu(n)
    BY DEF pull_pdu
  <1>3. ASSUME NEW n \in 1 .. Size, tx.retx # << >>, build_retx_pdu(n) PROVE IInv'
    BY <1>1, <1>3, RetxPduStep
  <1>4. ASSUME NEW n \in 1 .. Size, tx.retx = << >>, tx.segmented # None,
               build_continued_sdu_segment(n)
        PROVE  IInv'
    BY <1>1, <1>4, ContinuedStep
  <1>5. ASSUME NEW n \in 1 .. Size, tx.retx = << >>, tx.segmented = None, build_new_pdu(n)
        PROVE  IInv'
    BY <1>1, <1>5, NewPduStep
  <1>6. CASE tx.retx # << >> /\ RetxDoesNotFit
    BY <1>1, <1>6, DoesNotFitStep
  <1> QED
    BY <1>2, <1>3, <1>4, <1>5, <1>6

LEMMA QueueOK ==
  ASSUME TxOK(tx), NEW q \in 0 .. QueueSize, tx' = [tx EXCEPT !.queue = q]
  PROVE  /\ TxOK(tx)' /\ SameSent(tx, tx') /\ Top(tx') = Top(tx) /\ tx'.queue = q
         /\ tx'.retx = tx.retx /\ tx'.poll_timer = tx.poll_timer
         /\ tx'.poll_sn = tx.poll_sn /\ tx'.window = tx.window
  <1>1. TxRecord(tx)
    BY TxFacts
  <1>2. /\ TxRecord(tx') /\ tx'.queue = q /\ tx'.next = tx.next /\ tx'.next_ack = tx.next_ack
        /\ tx'.window = tx.window /\ tx'.segmented = tx.segmented /\ tx'.retx = tx.retx
        /\ tx'.poll_sn = tx.poll_sn /\ tx'.poll_timer = tx.poll_timer
    BY ONLY <1>1, tx' = [tx EXCEPT !.queue = q] DEF TxRecord
  <1>3. SameSent(tx, tx')
    BY <1>2 DEF SameSent
  <1>4. Top(tx') = Top(tx)
    BY <1>2 DEF Top
  <1>5. TxType(tx') /\ TxWindow(tx')
    BY <1>2, <1>4 DEF TxOK, TxType, TxWindow
  <1>6. TxRetx(tx')
    BY <1>2, <1>4 DEF TxOK, TxRetx, RetxOK, Sent
  <1> QED
    BY <1>2, <1>3, <1>4, <1>5, <1>6 DEF TxOK

LEMMA SduStep ==
  ASSUME IInv, handle_sdu \/ discard_sdu
  PROVE  IInv'
  <1>1. TxOK(tx) /\ tx.queue \in 0 .. QueueSize /\ Top(tx) \in Int /\ tx.queue \in Int
        /\ given \in 0 .. MaxSdus /\ Top(tx) - Start + tx.queue <= given
    BY TxFacts DEF IInv, GivenInv
  <1>2. CASE handle_sdu /\ tx.queue >= QueueSize
    <2>1. /\ tx' = tx /\ given' = given + 1 /\ given < MaxSdus /\ waived' # {}
          /\ UNCHANGED <<rx, air, statuses, delivered, reported, faults>>
      <3>1. ~(tx.queue < QueueSize)
        BY <1>1, <1>2, Constants
      <3>2. waived' = waived \cup {"discard"} /\ tx' = tx
        BY <3>1, <1>2 DEF handle_sdu
      <3> QED
        BY <3>2, <1>2 DEF handle_sdu
    <2>2. TxOK(tx)' /\ SameSent(tx, tx')
      BY <1>1, <2>1 DEF SameSent
    <2>3. RxOK(rx)' /\ EdgeInv' /\ AirInv' /\ StatusInv'
      BY <2>1, <2>2, NothingSent
    <2>4. GivenInv'
      BY <1>1, <2>1, Constants DEF GivenInv
    <2>5. DeliveredInv'
      BY <2>1 DEF IInv, DeliveredInv, Full, Has, Got
    <2>6. PollInv'
      BY <2>1 DEF PollInv
    <2> QED
      BY <2>1, <2>2, <2>3, <2>4, <2>5, <2>6 DEF IInv
  <1>3. CASE handle_sdu /\ tx.queue < QueueSize
    <2>1. /\ tx' = [tx EXCEPT !.queue = tx.queue + 1] /\ given' = given + 1
          /\ given < MaxSdus
          /\ UNCHANGED <<rx, air, statuses, waived, delivered, reported, faults>>
      BY <1>1, <1>3, Constants DEF handle_sdu
    <2>2. tx.queue + 1 \in 0 .. QueueSize
      BY <1>1, <1>3, Constants
    <2>3. /\ TxOK(tx)' /\ SameSent(tx, tx') /\ Top(tx') = Top(tx) /\ tx'.queue = tx.queue + 1
          /\ tx'.retx = tx.retx /\ tx'.poll_timer = tx.poll_timer
          /\ tx'.poll_sn = tx.poll_sn /\ tx'.window = tx.window
      BY <2>1, <2>2, <1>1, QueueOK
    <2>4. RxOK(rx)' /\ EdgeInv' /\ AirInv' /\ StatusInv'
      BY <2>1, <2>3, NothingSent
    <2>5. GivenInv'
      BY <1>1, <2>1, <2>3, Constants DEF GivenInv
    <2>6. DeliveredInv'
      BY <2>1 DEF IInv, DeliveredInv, Full, Has, Got
    <2>7. PollInv'
      <3>1. SUFFICES ASSUME MaxWindow = 0, PollLost(tx') PROVE waived' # {}
        BY <2>3, <1>1 DEF PollInv
      <3>2. is_tx_window_full(tx') => is_tx_window_full(tx)
        BY <3>1, <2>3 DEF is_tx_window_full
      <3>3. PollLost(tx)
        BY <3>1, <3>2, <2>3, <1>1 DEF PollLost, SameSent
      <3> QED
        BY <3>1, <3>3, <2>1 DEF IInv, PollInv
    <2> QED
      BY <2>1, <2>3, <2>4, <2>5, <2>6, <2>7 DEF IInv
  <1>4. CASE discard_sdu
    <2>1. /\ tx' = [tx EXCEPT !.queue = tx.queue - 1] /\ tx.queue > 0 /\ waived' # {}
          /\ UNCHANGED <<rx, air, statuses, given, delivered, reported, faults>>
      BY <1>1, <1>4, Constants DEF discard_sdu
    <2>2. tx.queue - 1 \in 0 .. QueueSize
      BY <1>1, <2>1, Constants
    <2>3. TxOK(tx)' /\ SameSent(tx, tx') /\ Top(tx') = Top(tx) /\ tx'.queue = tx.queue - 1
      BY <2>1, <2>2, <1>1, QueueOK
    <2>4. RxOK(rx)' /\ EdgeInv' /\ AirInv' /\ StatusInv'
      BY <2>1, <2>3, NothingSent
    <2>5. GivenInv'
      BY <1>1, <2>1, <2>3, Constants DEF GivenInv
    <2>6. DeliveredInv'
      BY <2>1 DEF IInv, DeliveredInv, Full, Has, Got
    <2>7. PollInv'
      BY <2>1 DEF PollInv
    <2> QED
      BY <2>1, <2>3, <2>4, <2>5, <2>6, <2>7 DEF IInv
  <1> QED
    BY <1>1, <1>2, <1>3, <1>4, Constants

Raised(f, x) == [f EXCEPT ![x].retx_count = @ + 1]

\* A retransmission is counted.
LEMMA CountedRetx ==
  ASSUME NEW t, TxOK(t), NEW sn \in t.next_ack .. Top(t) - 1,
         NEW u, u = increment_retx_count(t, sn)
  PROVE  /\ TxOK(u) /\ SameSent(t, u) /\ u.queue = t.queue /\ u.retx = t.retx
         /\ u.poll_timer = t.poll_timer /\ u.poll_sn = t.poll_sn
         /\ DOMAIN u.window = DOMAIN t.window /\ Top(u) = Top(t)
  <1>1. TxRecord(t) /\ t.window \in [t.next_ack .. Top(t) - 1 -> Entry]
    BY TxFacts
  <1>2. PICK w : w = Raised(t.window, sn)
    OBVIOUS
  <1>3. /\ TxRecord(u) /\ u.queue = t.queue /\ u.next = t.next /\ u.next_ack = t.next_ack
        /\ u.window = w /\ u.segmented = t.segmented /\ u.retx = t.retx
        /\ u.poll_timer = t.poll_timer /\ u.poll_sn = t.poll_sn
    BY ONLY <1>1, <1>2, u = increment_retx_count(t, sn) DEF increment_retx_count, TxRecord, Raised
  <1>4. /\ w \in [t.next_ack .. Top(t) - 1 -> Entry]
        /\ \A k \in t.next_ack .. Top(t) - 1 : w[k].next_so = t.window[k].next_so
    <2> DEFINE D == t.next_ack .. Top(t) - 1
    <2>1. PICK f : f = t.window /\ f \in [D -> Entry]
      BY <1>1
    <2>2. sn \in D
      OBVIOUS
    <2> HIDE DEF D
    <2>3. PICK e : e = [f[sn] EXCEPT !.retx_count = f[sn].retx_count + 1]
      OBVIOUS
    <2>4. f[sn] \in Entry
      BY <2>1, <2>2
    <2>5. e \in Entry /\ e.next_so = f[sn].next_so
      BY ONLY <2>3, <2>4 DEF Entry
    <2>6. w = [f EXCEPT ![sn] = e]
      BY ONLY <1>2, <2>1, <2>3 DEF Raised
    <2>7. w \in [D -> Entry] /\ \A k \in D : w[k].next_so = f[k].next_so
      BY ONLY <2>1, <2>2, <2>5, <2>6
    <2> QED
      BY <2>1, <2>7 DEF D
  <1>5. t.segmented # None => t.next \in t.next_ack .. Top(t) - 1
    BY TxFacts, Constants
  <1>6. SameSent(t, u)
    BY <1>3, <1>4, <1>5 DEF SameSent
  <1>7. Top(u) = Top(t) /\ \A k \in Int : Sent(u, k) = Sent(t, k)
    BY <1>6, SameSentGrown
  <1>8. TxType(u)
    BY <1>3, <1>4, <1>7 DEF TxType, TxOK
  <1>9. TxWindow(u)
    BY <1>3, <1>4, <1>5, <1>7 DEF TxWindow, TxOK
  <1>10. TxRetx(u)
    <2>1. ASSUME NEW i \in 1 .. Len(t.retx) PROVE RetxOK(u, t.retx[i])
      <3>1. RetxOK(t, t.retx[i]) /\ t.retx[i] \in RetxEntry
        BY TxFacts DEF TxRetx
      <3> QED
        BY <3>1, <1>6, SameRetxOK
    <2> QED
      BY <2>1, <1>3 DEF TxRetx, TxOK
  <1>11. DOMAIN u.window = DOMAIN t.window
    BY <1>1, <1>3, <1>4
  <1> QED
    BY <1>3, <1>6, <1>7, <1>8, <1>9, <1>10, <1>11 DEF TxOK

\* A retransmission of sent bytes is queued.
LEMMA QueuedRetx ==
  ASSUME NEW t, TxOK(t), NEW r \in RetxEntry, RetxOK(t, r), Len(t.retx) < Window,
         NEW u, u = [t EXCEPT !.retx = Append(t.retx, r)]
  PROVE  /\ TxOK(u) /\ SameSent(t, u) /\ u.queue = t.queue /\ u.retx = Append(t.retx, r)
         /\ u.poll_timer = t.poll_timer /\ u.poll_sn = t.poll_sn
         /\ u.window = t.window /\ Top(u) = Top(t)
  <1>1. TxRecord(t) /\ t.retx \in Seq(RetxEntry)
    BY TxFacts
  <1>2. PICK q : q = Append(t.retx, r)
    OBVIOUS
  <1>3. /\ TxRecord(u) /\ u.queue = t.queue /\ u.next = t.next /\ u.next_ack = t.next_ack
        /\ u.window = t.window /\ u.segmented = t.segmented /\ u.retx = q
        /\ u.poll_timer = t.poll_timer /\ u.poll_sn = t.poll_sn
    BY ONLY <1>1, <1>2, u = [t EXCEPT !.retx = Append(t.retx, r)] DEF TxRecord
  <1>4. SameSent(t, u)
    BY <1>3 DEF SameSent
  <1>5. Top(u) = Top(t)
    BY <1>3 DEF Top
  <1>6. /\ q \in Seq(RetxEntry) /\ Len(q) = Len(t.retx) + 1 /\ Len(t.retx) \in Nat
        /\ \A i \in 1 .. Len(t.retx) : q[i] = t.retx[i]
        /\ q[Len(t.retx) + 1] = r
    BY <1>1, <1>2
  <1>7. TxType(u) /\ TxWindow(u)
    BY <1>3, <1>5, <1>6 DEF TxType, TxWindow, TxOK
  <1>8. TxRetx(u)
    <2>1. ASSUME NEW i \in 1 .. Len(q) PROVE RetxOK(u, q[i])
      <3>1. RetxOK(t, q[i]) /\ q[i] \in RetxEntry
        <4>1. CASE i = Len(t.retx) + 1
          BY <4>1, <1>6
        <4>2. CASE i \in 1 .. Len(t.retx)
          BY <4>2, <1>6, <1>1, TxFacts DEF TxRetx
        <4> QED
          BY <4>1, <4>2, <1>6
      <3> QED
        BY <3>1, <1>4, SameRetxOK
    <2>2. Len(q) <= Window
      BY <1>6, Constants
    <2> QED
      BY <2>1, <2>2, <1>3 DEF TxRetx
  <1> QED
    BY <1>2, <1>3, <1>4, <1>5, <1>7, <1>8 DEF TxOK

LEMMA StoppedPoll ==
  ASSUME NEW t, TxOK(t), NEW u, u = [t EXCEPT !.poll_timer = FALSE]
  PROVE  /\ TxOK(u) /\ SameSent(t, u) /\ u.queue = t.queue /\ u.retx = t.retx
         /\ u.poll_sn = t.poll_sn /\ u.window = t.window /\ Top(u) = Top(t)
  <1>1. TxRecord(t)
    BY TxFacts
  <1>2. /\ TxRecord(u) /\ u.queue = t.queue /\ u.next = t.next /\ u.next_ack = t.next_ack
        /\ u.window = t.window /\ u.segmented = t.segmented /\ u.retx = t.retx
        /\ u.poll_timer \in BOOLEAN /\ u.poll_sn = t.poll_sn
    BY ONLY <1>1, u = [t EXCEPT !.poll_timer = FALSE] DEF TxRecord
  <1>3. SameSent(t, u)
    BY <1>2 DEF SameSent
  <1>4. Top(u) = Top(t)
    BY <1>2 DEF Top
  <1>5. TxType(u) /\ TxWindow(u)
    BY <1>2, <1>4 DEF TxType, TxWindow, TxOK
  <1>6. TxRetx(u)
    BY <1>2, <1>4 DEF TxOK, TxRetx, RetxOK, Sent
  <1> QED
    BY <1>2, <1>3, <1>4, <1>5, <1>6 DEF TxOK

LEMMA PollExpiryStep ==
  ASSUME IInv, on_expired_poll_retransmit_timer
  PROVE  IInv'
  <1> DEFINE retx == /\ NothingToSend(tx) \/ is_tx_window_full(tx)
                     /\ Has(tx, tx.next_ack)
                     /\ Len(tx.retx) < Window
  <1>1. TxOK(tx)
    BY DEF IInv
  <1>2. UNCHANGED <<rx, air, statuses, given, waived, delivered, faults>>
    BY DEF on_expired_poll_retransmit_timer
  <1>3. PICK v : v = [tx EXCEPT !.poll_timer = FALSE]
    OBVIOUS
  <1>4. /\ TxOK(v) /\ SameSent(tx, v) /\ v.queue = tx.queue /\ v.retx = tx.retx
        /\ v.poll_sn = tx.poll_sn /\ v.window = tx.window /\ Top(v) = Top(tx)
    BY <1>1, <1>3, StoppedPoll
  <1>5. PICK r : r = [sn |-> tx.next_ack, so |-> 0, len |-> Size]
    OBVIOUS
  <1>6. tx' = IF retx THEN increment_retx_count([v EXCEPT !.retx = Append(v.retx, r)], tx.next_ack)
              ELSE v
    BY <1>3, <1>4, <1>5 DEF on_expired_poll_retransmit_timer
  <1>7. /\ TxOK(tx)' /\ SameSent(tx, tx') /\ tx'.queue = tx.queue /\ Top(tx') = Top(tx)
        /\ tx'.poll_sn = tx.poll_sn /\ DOMAIN tx'.window = DOMAIN tx.window
        /\ retx => tx'.retx # << >>
        /\ ~retx => tx'.retx = tx.retx
    <2>1. CASE retx
      <3>1. tx.next_ack < tx.next \/ tx.segmented = None
        BY <2>1, <1>1, StalledBelow, TxFacts DEF NothingToSend
      <3>2. tx.next_ack \in tx.next_ack .. Top(tx) - 1 /\ tx.next_ack # tx.segmented
            /\ tx.next_ack \in Int /\ v.next_ack = tx.next_ack /\ v.segmented = tx.segmented
        BY <2>1, <3>1, <1>1, <1>4, TxFacts, Constants DEF Has, SameSent
      <3>3. r \in RetxEntry /\ r.sn = tx.next_ack /\ r.so = 0 /\ r.len = Size
        BY <3>2, <1>5, Constants DEF RetxEntry
      <3>4. RetxOK(v, r)
        BY <3>2, <3>3, <1>4, Constants DEF RetxOK, Sent
      <3>5. PICK a : a = [v EXCEPT !.retx = Append(v.retx, r)]
        OBVIOUS
      <3>6. /\ TxOK(a) /\ SameSent(v, a) /\ a.queue = v.queue /\ a.retx = Append(v.retx, r)
            /\ a.poll_timer = v.poll_timer /\ a.poll_sn = v.poll_sn
            /\ a.window = v.window /\ Top(a) = Top(v)
        BY <3>3, <3>4, <3>5, <2>1, <1>4, QueuedRetx
      <3>7. tx' = increment_retx_count(a, tx.next_ack)
        BY <3>5, <2>1, <1>6
      <3>8. tx.next_ack \in a.next_ack .. Top(a) - 1
        BY <3>2, <3>6, <1>4 DEF SameSent
      <3>9. /\ TxOK(tx') /\ SameSent(a, tx') /\ tx'.queue = a.queue /\ tx'.retx = a.retx
            /\ tx'.poll_sn = a.poll_sn
            /\ DOMAIN tx'.window = DOMAIN a.window /\ Top(tx') = Top(a)
        BY <3>6, <3>7, <3>8, CountedRetx
      <3>10. SameSent(tx, tx')
        BY <3>6, <3>9, <1>4 DEF SameSent
      <3>11. a.retx # << >>
        BY <3>6, <1>4, TxFacts
      <3> QED
        BY <3>6, <3>9, <3>10, <3>11, <2>1, <1>4
    <2>2. CASE ~retx
      BY <2>2, <1>4, <1>6
    <2> QED
      BY <2>1, <2>2
  <1>8. RxOK(rx)' /\ EdgeInv' /\ AirInv' /\ StatusInv'
    BY <1>2, <1>7, NothingSent
  <1>9. GivenInv'
    BY <1>2, <1>7 DEF IInv, GivenInv
  <1>10. DeliveredInv'
    BY <1>2 DEF IInv, DeliveredInv, Full, Has, Got
  <1>11. PollInv'
    <2>1. SUFFICES ASSUME MaxWindow = 0 PROVE
            /\ tx'.segmented = None /\ tx'.next_ack < tx'.next /\ tx'.queue = 0 =>
                 tx'.poll_sn = tx'.next - 1 \/ waived' # {}
            /\ PollLost(tx') => waived' # {}
      BY DEF PollInv
    <2>2. tx'.next = tx.next /\ tx'.next_ack = tx.next_ack /\ tx'.segmented = tx.segmented
      BY <1>7 DEF SameSent
    <2>3. ~PollLost(tx')
      <3>1. SUFFICES ASSUME PollLost(tx') PROVE FALSE
        OBVIOUS
      <3>2. /\ DOMAIN tx'.window # {} /\ tx'.retx = << >> /\ tx'.segmented = None
            /\ tx'.queue = 0 \/ is_tx_window_full(tx')
        BY <3>1 DEF PollLost
      <3>3. is_tx_window_full(tx') => is_tx_window_full(tx)
        BY <2>1, <1>7 DEF is_tx_window_full
      <3>4. ~retx /\ tx.retx = << >>
        BY <3>2, <1>7
      <3>5. NothingToSend(tx) \/ is_tx_window_full(tx)
        BY <3>2, <3>3, <3>4, <2>2, <1>7 DEF NothingToSend
      <3>6. Has(tx, tx.next_ack)
        BY <3>2, <1>1, <1>7, TxFacts DEF Has
      <3>7. Len(tx.retx) < Window
        BY <3>4, Constants
      <3> QED
        BY <3>4, <3>5, <3>6, <3>7
    <2> QED
      BY <2>1, <2>2, <2>3, <1>2, <1>7 DEF IInv, PollInv
  <1> QED
    BY <1>2, <1>7, <1>8, <1>9, <1>10, <1>11 DEF IInv

-----------------------------------------------------------------------------
(* The receiver.                                                           *)

LEMMA FirstIncompleteIs ==
  ASSUME NEW r, r.next \in Int, r.next_highest \in Int,
         r.next_highest <= r.next + Window,
         NEW sn \in r.next .. r.next_highest, NEW k, k = FirstIncomplete(r, sn)
  PROVE  /\ k \in sn .. r.next_highest
         /\ \A l \in sn .. k - 1 : Full(r, l)
         /\ k = r.next_highest \/ ~Full(r, k)
  <1> DEFINE nh == r.next_highest
             Below(x) == RxBase(r, x) < RxBase(r, nh)
             P(x) == /\ ~Below(x) \/ ~Full(r, x)
                     /\ \A l \in sn .. x - 1 : Below(l) /\ Full(r, l)
  <1>1. sn \in Int /\ r.next <= sn /\ sn <= nh /\ nh \in Int
    OBVIOUS
  <1>2. ASSUME NEW x \in r.next .. r.next + Window PROVE Below(x) <=> x < nh
    <2>0. x \in Int /\ x - r.next >= -Mod /\ x - r.next < Mod /\ x >= r.next
      BY Constants
    <2>1. RxBase(r, x) = x - r.next
      BY <2>0, RxDistance
    <2>2. RxBase(r, nh) = nh - r.next
      BY <1>1, RxDistance, Constants
    <2> QED
      BY <2>1, <2>2, <1>1
  <1> HIDE DEF Below
  <1>3. \E x \in sn .. sn + Mod : P(x)
    <2> DEFINE S == {d \in Nat : sn + d = nh \/ (sn + d < nh /\ ~Full(r, sn + d))}
    <2>1. nh - sn \in S
      BY <1>1
    <2>2. PICK d \in S : \A m \in S : d <= m
      BY <2>1, Least
    <2>3. d \in Nat /\ d <= nh - sn
      BY <2>1, <2>2
    <2>4. \A m \in 0 .. d - 1 : Full(r, sn + m) /\ sn + m < nh
      <3>1. SUFFICES ASSUME NEW m \in 0 .. d - 1 PROVE Full(r, sn + m) /\ sn + m < nh
        OBVIOUS
      <3>2. m \notin S /\ m \in Nat /\ sn + m < nh
        BY <2>2, <2>3, <1>1
      <3> QED
        BY <3>2
    <2>5. PICK x \in Int : x = sn + d
      BY <1>1, <2>3
    <2>6. x \in sn .. sn + Mod /\ x \in r.next .. r.next + Window
      BY <2>3, <2>5, <1>1, Constants
    <2>7. ~Below(x) \/ ~Full(r, x)
      BY <2>2, <2>3, <2>5, <2>6, <1>1, <1>2
    <2>8. ASSUME NEW l \in sn .. x - 1 PROVE Below(l) /\ Full(r, l)
      <3>1. l - sn \in 0 .. d - 1 /\ sn + (l - sn) = l
        BY <2>5, <1>1, <2>3
      <3>2. Full(r, l) /\ l < nh
        BY <3>1, <2>4
      <3>3. l \in r.next .. r.next + Window
        BY <3>2, <1>1, Constants
      <3> QED
        BY <3>2, <3>3, <1>2
    <2> QED
      BY <2>6, <2>7, <2>8
  <1>4. k = CHOOSE x \in sn .. sn + Mod : P(x)
    BY DEF FirstIncomplete, Below
  <1>5. k \in sn .. sn + Mod /\ P(k)
    BY <1>3, <1>4
  <1>6. k <= nh
    <2>1. SUFFICES ASSUME k > nh PROVE FALSE
      BY <1>1, <1>5, Constants
    <2>2. nh \in sn .. k - 1 /\ nh \in r.next .. r.next + Window
      BY <2>1, <1>1, <1>5, Constants
    <2> QED
      BY <2>2, <1>2, <1>5
  <1>7. k \in sn .. nh /\ k \in r.next .. r.next + Window
    BY <1>1, <1>5, <1>6, Constants
  <1>8. k = nh \/ ~Full(r, k)
    BY <1>1, <1>2, <1>5, <1>7
  <1> QED
    BY <1>5, <1>7, <1>8

\* What a complete SDU moves, and what it leaves.
Advanced(r, s) ==
  /\ s.next_highest = r.next_highest /\ s.trigger = r.trigger
  /\ r.next <= s.next
  /\ \A k \in r.next .. s.next - 1 : Full(r, k)
  /\ \A k \in Int : k >= s.next =>
       /\ k \in DOMAIN s.window <=> k \in DOMAIN r.window
       /\ k \in DOMAIN s.window => s.window[k] = r.window[k]

LEMMA CompletedOK ==
  ASSUME NEW r, RxType(r), RxWindow(r), NEW sn \in Int, Full(r, sn),
         r.next <= r.highest_status, r.highest_status <= r.next_highest,
         r.next # sn => ~Full(r, r.next),
         r.highest_status # sn => ~Full(r, r.highest_status),
         NEW s, s = Completed(r, sn)
  PROVE  RxType(s) /\ RxWindow(s) /\ RxStatus(s) /\ Advanced(r, s)
  <1>1. /\ r.next \in Int /\ r.next_highest \in Int /\ r.highest_status \in Int
        /\ r.next <= r.next_highest /\ r.next_highest <= r.next + Window
        /\ DOMAIN r.window \subseteq r.next .. r.next_highest - 1 /\ RxRecord(r)
        /\ r.next_highest = r.next \/ Has(r, r.next_highest - 1)
    BY DEF RxType, RxWindow
  <1>2. sn \in r.next .. r.next_highest - 1
    BY <1>1 DEF Full, Has
  <1>3. PICK h : h = IF sn = r.highest_status THEN FirstIncomplete(r, sn + 1)
                     ELSE r.highest_status
    OBVIOUS
  <1>4. h \in r.next .. r.next_highest /\ (h = r.next_highest \/ ~Full(r, h))
        /\ h >= r.highest_status
    <2>1. CASE sn = r.highest_status
      <3>1. h = FirstIncomplete(r, sn + 1) /\ sn + 1 \in r.next .. r.next_highest
        BY <2>1, <1>1, <1>2, <1>3
      <3>2. h \in sn + 1 .. r.next_highest /\ (h = r.next_highest \/ ~Full(r, h))
        BY <3>1, <1>1, FirstIncompleteIs
      <3> QED
        BY <3>1, <3>2, <2>1, <1>1, <1>2
    <2>2. CASE sn # r.highest_status
      BY <2>2, <1>1, <1>3
    <2> QED
      BY <2>1, <2>2
  <1>5. PICK a : a = IF sn = r.highest_status
                       THEN [r EXCEPT !.highest_status = FirstIncomplete(r, sn + 1)] ELSE r
    OBVIOUS
  <1>6. /\ RxRecord(a) /\ a.next = r.next /\ a.next_highest = r.next_highest
        /\ a.highest_status = h /\ a.trigger = r.trigger /\ a.window = r.window
    <2>1. CASE sn = r.highest_status
      <3>1. a = [r EXCEPT !.highest_status = h]
        BY <2>1, <1>3, <1>5
      <3> QED
        BY ONLY <3>1, <1>1 DEF RxRecord
    <2>2. CASE sn # r.highest_status
      BY <2>2, <1>1, <1>3, <1>5
    <2> QED
      BY <2>1, <2>2
  <1>7. \A k : Full(a, k) <=> Full(r, k)
    BY <1>6 DEF Full, Has, Got
  <1>8. PICK m : m = FirstIncomplete(a, a.next)
    OBVIOUS
  <1>9. /\ m \in r.next .. r.next_highest /\ \A l \in r.next .. m - 1 : Full(r, l)
        /\ m = r.next_highest \/ ~Full(r, m)
    <2>1. r.next \in r.next .. r.next_highest
      BY <1>1
    <2>2. /\ m \in a.next .. a.next_highest /\ \A l \in a.next .. m - 1 : Full(a, l)
          /\ m = a.next_highest \/ ~Full(a, m)
      BY <2>1, <1>1, <1>6, <1>8, FirstIncompleteIs
    <2> QED
      BY <2>2, <1>6, <1>7
  <1>10. CASE sn = r.next
    <2> DEFINE D == {l \in DOMAIN r.window : l >= m}
    <2>1. s = [a EXCEPT !.next = m, !.window = [k \in D |-> r.window[k]]]
      BY <1>5, <1>6, <1>8, <1>10 DEF Completed
    <2>2. PICK w : w = [k \in D |-> r.window[k]]
      OBVIOUS
    <2>3. DOMAIN w = D /\ w = [k \in DOMAIN w |-> w[k]] /\ \A k \in D : w[k] = r.window[k]
      BY <2>2
    <2>4. /\ RxRecord(s) /\ s.next = m /\ s.next_highest = r.next_highest
          /\ s.highest_status = h /\ s.trigger = r.trigger /\ s.window = w
      <3>1. s = [a EXCEPT !.next = m, !.window = w]
        BY <2>1, <2>2
      <3> QED
        BY ONLY <3>1, <1>6 DEF RxRecord
    <2>5. m <= h
      <3>1. SUFFICES ASSUME h < m PROVE FALSE
        BY <1>1, <1>4, <1>9
      <3>2. h \in r.next .. m - 1 /\ h # r.next_highest
        BY <3>1, <1>1, <1>4, <1>9
      <3> QED
        BY <3>2, <1>4, <1>9
    <2>6. \A k : Full(s, k) => Full(r, k) /\ k \in D
      BY <2>3, <2>4 DEF Full, Has, Got
    <2>7. r.next_highest \notin DOMAIN r.window
      BY <1>1
    <2>8. RxType(s)
      BY <2>3, <2>4, <1>1, <1>4, <1>9 DEF RxType
    <2>9. RxWindow(s)
      <3>1. m <= r.next_highest /\ r.next_highest <= m + Window
        BY <1>1, <1>9, Constants
      <3>2. D \subseteq m .. r.next_highest - 1
        BY <1>1, <1>9
      <3>3. m = r.next_highest \/ r.next_highest - 1 \in D
        BY <1>1, <1>9 DEF Has
      <3> QED
        BY <3>1, <3>2, <3>3, <2>3, <2>4 DEF RxWindow, Has
    <2>10. RxStatus(s)
      <3>1. ~Full(s, m)
        BY <2>6, <2>7, <1>9
      <3>2. ~Full(s, h)
        BY <2>6, <2>7, <1>4
      <3> QED
        BY <3>1, <3>2, <2>4, <2>5, <1>4 DEF RxStatus
    <2>11. Advanced(r, s)
      BY <2>3, <2>4, <1>1, <1>9 DEF Advanced
    <2> QED
      BY <2>8, <2>9, <2>10, <2>11
  <1>11. CASE sn # r.next
    <2>1. s = a
      BY <1>5, <1>11 DEF Completed
    <2>2. RxType(s)
      BY <2>1, <1>4, <1>6 DEF RxType
    <2>3. RxWindow(s)
      BY <2>1, <1>6 DEF RxWindow, Has
    <2>4. RxStatus(s)
      <3>1. r.next_highest \notin DOMAIN r.window
        BY <1>1
      <3>2. ~Full(r, h)
        BY <3>1, <1>4 DEF Full, Has
      <3> QED
        BY <3>2, <2>1, <1>4, <1>6, <1>7, <1>11 DEF RxStatus
    <2>5. Advanced(r, s)
      BY <2>1, <1>1, <1>6 DEF Advanced
    <2> QED
      BY <2>2, <2>3, <2>4, <2>5
  <1> QED
    BY <1>10, <1>11

\* The trigger after RX_Next moved, before the timer is looked at again.
LateTrigger(r) ==
  r.trigger # None => /\ r.trigger \in r.next - Window + 1 .. r.next_highest
                      /\ r.trigger > r.next => Has(r, r.trigger - 1)

\* The fields that decide what was received.
SameReceived(r, s) ==
  /\ s.next = r.next /\ s.next_highest = r.next_highest
  /\ s.highest_status = r.highest_status /\ s.window = r.window

LEMMA SameReceivedOK ==
  ASSUME NEW r, NEW s, SameReceived(r, s), RxRecord(s), s.trigger \in Int \cup {None}
  PROVE  /\ RxType(r) => RxType(s)
         /\ RxWindow(r) => RxWindow(s)
         /\ RxStatus(r) => RxStatus(s)
         /\ RxBytes(r) => RxBytes(s)
         /\ \A k : Full(s, k) <=> Full(r, k)
         /\ \A k : Has(s, k) <=> Has(r, k)
  BY DEF SameReceived, RxType, RxWindow, RxStatus, RxBytes, Full, Has, Got

LEMMA ReassemblyOK ==
  ASSUME NEW r, RxType(r), RxWindow(r), LateTrigger(r), NEW s, s = Reassembly(r)
  PROVE  /\ RxRecord(s) /\ SameReceived(r, s) /\ RxTrigger(s) /\ s.trigger \in Int \cup {None}
         /\ ~(r.trigger # None /\ RxBase(r, r.trigger) = 1 /\ ~Has(r, r.next))
  <1>1. /\ r.next \in Int /\ r.next_highest \in Int /\ r.next <= r.next_highest
        /\ r.next_highest <= r.next + Window /\ RxRecord(r)
        /\ r.trigger \in Int \cup {None}
        /\ r.next_highest = r.next \/ Has(r, r.next_highest - 1)
    BY DEF RxType, RxWindow
  <1>2. r.trigger # None =>
          /\ r.trigger \in Int /\ r.trigger <= r.next_highest
          /\ RxBase(r, r.trigger) = IF r.trigger >= r.next THEN r.trigger - r.next
                                    ELSE r.trigger - r.next + Mod
          /\ r.trigger - r.next > -Window
    <2>1. SUFFICES ASSUME r.trigger # None PROVE
          /\ r.trigger \in Int /\ r.trigger <= r.next_highest
          /\ RxBase(r, r.trigger) = IF r.trigger >= r.next THEN r.trigger - r.next
                                    ELSE r.trigger - r.next + Mod
          /\ r.trigger - r.next > -Window
      OBVIOUS
    <2>2. /\ r.trigger \in Int /\ r.trigger <= r.next_highest /\ r.trigger - r.next > -Window
          /\ r.trigger - r.next >= -Mod /\ r.trigger - r.next < Mod
      BY <1>1, <2>1, Constants DEF LateTrigger
    <2>3. RxBase(r, r.trigger) = IF r.trigger >= r.next THEN r.trigger - r.next
                                 ELSE r.trigger - r.next + Mod
      BY <1>1, <2>2, RxDistance
    <2> QED
      BY <2>2, <2>3
  <1>3. ~(r.trigger # None /\ RxBase(r, r.trigger) = 1 /\ ~Has(r, r.next))
    <2>1. SUFFICES ASSUME r.trigger # None, RxBase(r, r.trigger) = 1 PROVE Has(r, r.next)
      OBVIOUS
    <2>2. r.trigger = r.next + 1
      BY <1>1, <1>2, <2>1, Constants
    <2> QED
      BY <1>1, <2>1, <2>2 DEF LateTrigger
  <1>4. CASE ~ReassemblyStops(r)
    <2>1. s = r /\ r.trigger # None /\ RxBase(r, r.trigger) # 0
          /\ ~(RxBase(r, r.trigger) >= Window)
      BY <1>4 DEF Reassembly, ReassemblyStops
    <2>2. r.trigger > r.next
      BY <1>1, <1>2, <2>1, Constants
    <2> QED
      BY <1>1, <1>2, <1>3, <2>1, <2>2 DEF SameReceived, RxTrigger, LateTrigger
  <1>5. CASE ReassemblyStops(r) /\ Missing(r, r.next)
    <2>1. s = [r EXCEPT !.trigger = r.next_highest]
      BY <1>5 DEF Reassembly, StartReassembly
    <2>2. RxRecord(s) /\ SameReceived(r, s) /\ s.trigger = r.next_highest
      BY ONLY <1>1, <2>1 DEF RxRecord, SameReceived
    <2>3. r.next_highest > r.next
      <3>1. r.next + 1 \in Int /\ RxBase(r, r.next + 1) = 1
        <4>1. r.next + 1 - r.next = 1 /\ r.next + 1 \in Int /\ r.next + 1 >= r.next
          BY <1>1
        <4> QED
          BY <4>1, <1>1, RxDistance, Constants
      <3>2. RxBase(r, r.next_highest) = r.next_highest - r.next
        BY <1>1, RxAhead
      <3>3. RxBase(r, r.next_highest) >= 1
        BY <3>1, <3>2, <1>1, <1>5 DEF Missing
      <3> QED
        BY <3>2, <3>3, <1>1
    <2> QED
      BY <1>1, <1>3, <2>2, <2>3 DEF RxTrigger, SameReceived, Has
  <1>6. CASE ReassemblyStops(r) /\ ~Missing(r, r.next)
    <2>1. s = [r EXCEPT !.trigger = None]
      BY <1>6 DEF Reassembly
    <2>2. RxRecord(s) /\ SameReceived(r, s) /\ s.trigger = None
      BY ONLY <1>1, <2>1 DEF RxRecord, SameReceived
    <2> QED
      BY <1>3, <2>2 DEF RxTrigger
  <1> QED
    BY <1>4, <1>5, <1>6

\* A complete SDU was sent to its end.
LEMMA FullBelow ==
  ASSUME TxOK(tx), NEW r, RxBytes(r), NEW k \in Int, k < Top(tx), Full(r, k)
  PROVE  k < tx.next
  <1>1. Has(r, k) /\ Got(r, k) = Bytes
    BY DEF Full
  <1>2. Size - 1 \in Bytes
    BY Constants DEF Bytes
  <1>3. PICK e \in r.window[k] : e[1] = Size - 1
    BY <1>1, <1>2 DEF Got
  <1>4. r.window[k] \subseteq (0 .. Sent(tx, k) - 1) \X {k}
    BY <1>1 DEF RxBytes, Has
  <1>5. e[1] \in 0 .. Sent(tx, k) - 1
    BY <1>3, <1>4
  <1>6. TxType(tx) /\ TxWindow(tx)
    BY TxFacts
  <1>7. Sent(tx, k) \in Int
    BY <1>6, SentBounds, Constants
  <1>8. Sent(tx, k) >= Size
    BY <1>3, <1>5, <1>7, Constants
  <1>9. k # tx.segmented
    <2>1. SUFFICES ASSUME k = tx.segmented PROVE FALSE
      OBVIOUS
    <2>2. tx.segmented # None /\ tx.segmented = tx.next /\ Sent(tx, k) = tx.window[tx.next].next_so
      BY <2>1, Constants, TxFacts DEF Sent
    <2>3. tx.window[tx.next].next_so \in 1 .. Size - 1
      BY <2>2, <1>6 DEF TxWindow
    <2> QED
      BY <2>2, <2>3, <1>8, Constants
  <1> QED
    BY <1>9, TxFacts

\* A PDU's bytes are stored.
LEMMA StoredOK ==
  ASSUME TxOK(tx), RxOK(rx), EdgeInv, NEW p, PduOK(p),
         NEW sn \in Int, sn = p.of, sn >= rx.next, sn < rx.next + Window,
         NEW a, RxRecord(a), SameReceived(rx, a), a.trigger = rx.trigger,
         NEW r, r = Stored(a, sn, p)
  PROVE  /\ RxType(r) /\ RxWindow(r) /\ RxBytes(r) /\ LateTrigger(r) /\ RxTrigger(r)
         /\ r.next = rx.next /\ r.highest_status = rx.highest_status
         /\ r.next_highest >= rx.next_highest /\ r.next_highest <= Top(tx)
         /\ Has(r, sn) /\ r.trigger = rx.trigger
         /\ \A k : k # sn => (Full(r, k) <=> Full(rx, k))
  <1> DEFINE had == IF Has(a, sn) /\ p.bytes # Bytes THEN a.window[sn] ELSE {}
             new == {<<b, p.of>> : b \in p.bytes \ {e[1] : e \in had}}
  <1>1. PICK H : H = had
    OBVIOUS
  <1>2. PICK S : S = H \cup {<<b, sn>> : b \in p.bytes \ {e[1] : e \in H}}
    OBVIOUS
  <1>3. PICK w : w = With(rx.window, sn, S)
    OBVIOUS
  <1>4. PICK h : h = IF RxBase(a, sn) >= RxBase(a, a.next_highest) THEN sn + 1
                     ELSE a.next_highest
    OBVIOUS
  <1>5. a.window = rx.window /\ a.next = rx.next /\ a.next_highest = rx.next_highest
        /\ a.highest_status = rx.highest_status
    BY DEF SameReceived
  <1>6. r = [a EXCEPT !.window = w, !.next_highest = h]
    BY <1>1, <1>2, <1>3, <1>4, <1>5 DEF Stored
  <1>7. /\ RxRecord(r) /\ r.next = rx.next /\ r.next_highest = h /\ r.window = w
        /\ r.highest_status = rx.highest_status /\ r.trigger = rx.trigger
    BY ONLY <1>5, <1>6, RxRecord(a), a.trigger = rx.trigger DEF RxRecord
  <1>8. /\ rx.next \in Int /\ rx.next_highest \in Int /\ rx.next <= rx.next_highest
        /\ rx.next_highest <= rx.next + Window
        /\ DOMAIN rx.window \subseteq rx.next .. rx.next_highest - 1
        /\ RxType(rx) /\ RxWindow(rx) /\ RxTrigger(rx) /\ RxBytes(rx)
    BY RxFacts
  <1>9. h = IF sn >= rx.next_highest THEN sn + 1 ELSE rx.next_highest
    <2>1. a.next \in Int
      BY <1>5, <1>8
    <2>2. RxBase(a, sn) = sn - rx.next
      BY <2>1, <1>5, <1>8, RxAhead, Constants
    <2>3. RxBase(a, a.next_highest) = rx.next_highest - rx.next
      BY <2>1, <1>5, <1>8, RxAhead
    <2> QED
      BY <1>4, <1>5, <1>8, <2>2, <2>3
  <1>10. /\ DOMAIN w = DOMAIN rx.window \cup {sn} /\ w[sn] = S
         /\ \A k \in DOMAIN rx.window : k # sn => w[k] = rx.window[k]
         /\ w = [k \in DOMAIN w |-> w[k]]
    BY <1>3 DEF With
  <1>11. Top(tx) \in Int /\ sn < Top(tx) /\ rx.next_highest <= Top(tx)
    BY TxFacts DEF PduOK, EdgeInv
  <1>12. h \in Int /\ h >= rx.next_highest /\ h <= Top(tx) /\ h <= rx.next + Window /\ h > sn
    BY <1>8, <1>9, <1>11, Constants
  <1>13. Sent(tx, sn) \in Int
    <2>1. TxType(tx) /\ TxWindow(tx)
      BY TxFacts
    <2> QED
      BY <2>1, SentBounds, Constants
  <1>14. S # {} /\ S \subseteq (0 .. Sent(tx, sn) - 1) \X {sn}
    <2>1. H \subseteq (0 .. Sent(tx, sn) - 1) \X {sn}
      BY <1>1, <1>5, <1>8 DEF RxBytes, Has
    <2>2. p.bytes # {} /\ p.bytes \subseteq 0 .. Sent(tx, sn) - 1
      BY DEF PduOK
    <2>3. S \subseteq (0 .. Sent(tx, sn) - 1) \X {sn}
      BY <1>2, <2>1, <2>2
    <2>4. PICK b \in p.bytes : TRUE
      BY <2>2
    <2>5. CASE H # {}
      BY <2>3, <2>5, <1>2
    <2>6. CASE H = {}
      <3>1. b \in p.bytes \ {e[1] : e \in H}
        BY <2>4, <2>6
      <3>2. <<b, sn>> \in S
        BY ONLY <3>1, <1>2
      <3> QED
        BY <3>2, <2>3
    <2> QED
      BY <2>3, <2>5, <2>6
  <1>15. RxType(r)
    BY <1>7, <1>8, <1>10, <1>12 DEF RxType
  <1>16. RxWindow(r)
    <2>1. DOMAIN w \subseteq rx.next .. h - 1
      BY <1>8, <1>10, <1>12
    <2>2. h - 1 \in DOMAIN w
      <3>1. CASE sn >= rx.next_highest
        BY <3>1, <1>9, <1>10
      <3>2. CASE sn < rx.next_highest
        BY <3>2, <1>8, <1>9, <1>10 DEF RxWindow, Has
      <3> QED
        BY <3>1, <3>2, <1>8
    <2> QED
      BY <2>1, <2>2, <1>7, <1>8, <1>12 DEF RxWindow, Has
  <1>17. RxBytes(r)
    BY <1>7, <1>8, <1>10, <1>14 DEF RxBytes
  <1>18. RxTrigger(r) /\ LateTrigger(r)
    BY <1>7, <1>8, <1>10, <1>12, Constants DEF RxTrigger, LateTrigger, Has
  <1>19. \A k : k # sn => (Full(r, k) <=> Full(rx, k))
    BY <1>7, <1>10 DEF Full, Has, Got
  <1> QED
    BY <1>7, <1>10, <1>12, <1>15, <1>16, <1>17, <1>18, <1>19 DEF Has

\* Everything but the receiver's own state follows when only it moves on.
LEMMA ReceiverMoves ==
  ASSUME IInv, UNCHANGED <<tx, statuses, given, waived>>, faults' = faults,
         RxType(rx'), RxWindow(rx'), RxStatus(rx'), RxTrigger(rx'), RxBytes(rx'),
         rx.next <= rx'.next, rx'.next <= tx.next, rx'.next_highest <= Top(tx),
         \A q \in air' : q \in air /\ q.of >= rx'.next - Window,
         DeliveredInv'
  PROVE  IInv'
  <1>1. TxOK(tx) /\ RxOK(rx) /\ EdgeInv
    BY DEF IInv
  <1>2. TxOK(tx)' /\ GivenInv' /\ PollInv' /\ faults' = {}
    BY DEF IInv, GivenInv, PollInv
  <1>3. RxOK(rx)'
    BY DEF RxOK, RxType, RxWindow, RxStatus, RxTrigger, RxBytes, Full, Has, Got
  <1>4. rx.next \in Int /\ rx'.next \in Int
    BY <1>1, RxFacts DEF RxType
  <1>5. Grown(tx, tx')
    <2>1. \A sn \in Int : Sent(tx, sn) \in Int
      <3>1. TxType(tx) /\ TxWindow(tx)
        BY <1>1, TxFacts
      <3> QED
        BY <3>1, SentBounds, Constants
    <2> QED
      BY <2>1, <1>1, TxFacts DEF Grown
  <1>6. EdgeInv'
    BY <1>1, <1>4, TxFacts DEF EdgeInv
  <1>7. AirInv'
    <2>1. ASSUME NEW q \in air' PROVE PduOK(q)'
      <3>1. PduOK(q) /\ q.of >= rx'.next - Window
        BY DEF IInv, AirInv
      <3> QED
        BY <3>1, <1>1, <1>2, <1>4, <1>5, GrownPdu
    <2> QED
      BY <2>1 DEF AirInv
  <1>8. StatusInv'
    <2>1. ASSUME NEW s \in statuses PROVE StatusOK(s)'
      <3>1. StatusOK(s) /\ s.upto > tx'.next_ack - Window
        BY DEF IInv, StatusInv, StatusOK
      <3> QED
        BY <3>1, <1>1, <1>2, <1>4, <1>5, GrownStatus
    <2> QED
      BY <2>1 DEF StatusInv
  <1> QED
    BY <1>2, <1>3, <1>6, <1>7, <1>8 DEF IInv

\* The same, when what was received does not change.
LEMMA ReceivedSame ==
  ASSUME IInv, UNCHANGED <<tx, statuses, given, waived, delivered>>, faults' = faults,
         RxRecord(rx'), SameReceived(rx, rx'), RxTrigger(rx'), rx'.trigger \in Int \cup {None},
         air' \subseteq air
  PROVE  IInv'
  <1>1. TxOK(tx) /\ RxOK(rx) /\ EdgeInv
    BY DEF IInv
  <1>2. /\ RxType(rx) /\ RxWindow(rx) /\ RxStatus(rx) /\ RxBytes(rx)
        /\ rx.next \in Int
    BY <1>1, RxFacts
  <1>3. /\ RxType(rx') /\ RxWindow(rx') /\ RxStatus(rx') /\ RxBytes(rx')
        /\ \A k : Full(rx', k) <=> Full(rx, k)
    BY <1>2, SameReceivedOK
  <1>4. rx'.next = rx.next /\ rx'.next_highest = rx.next_highest
    BY DEF SameReceived
  <1>5. \A q \in air' : q \in air /\ q.of >= rx'.next - Window
    BY <1>4 DEF IInv, AirInv, PduOK
  <1>6. DeliveredInv'
    <2>1. \A sn \in Sns : delivered[sn] = IF sn < rx.next \/ Full(rx, sn) THEN 1 ELSE 0
      BY DEF IInv, DeliveredInv
    <2>2. \A sn \in Sns : delivered'[sn] = IF sn < rx'.next \/ Full(rx', sn) THEN 1 ELSE 0
      BY ONLY <2>1, <1>3, <1>4, delivered' = delivered
    <2>3. delivered' \in [Sns -> Nat]
      BY DEF IInv, DeliveredInv
    <2> QED
      BY <2>2, <2>3 DEF DeliveredInv, Full, Has, Got
  <1>7. rx.next <= rx'.next /\ rx'.next <= tx.next /\ rx'.next_highest <= Top(tx)
    BY <1>1, <1>2, <1>4 DEF EdgeInv
  <1> QED
    BY <1>3, <1>5, <1>6, <1>7, ReceiverMoves

\* Storing a PDU and, if its SDU is complete, moving on.
LEMMA MovedOn ==
  ASSUME TxOK(tx), RxOK(rx), EdgeInv, NEW r, NEW sn \in Int,
         RxType(r), RxWindow(r), RxBytes(r), RxTrigger(r), LateTrigger(r),
         r.next = rx.next, r.highest_status = rx.highest_status,
         r.next_highest >= rx.next_highest, r.next_highest <= Top(tx),
         \A k : k # sn => (Full(r, k) <=> Full(rx, k)),
         sn >= rx.next,
         NEW s, s = IF Full(r, sn) THEN Completed(r, sn) ELSE r
  PROVE  /\ RxType(s) /\ RxWindow(s) /\ RxStatus(s) /\ RxBytes(s) /\ LateTrigger(s)
         /\ s.next >= rx.next /\ s.next <= tx.next /\ s.next_highest <= Top(tx)
         /\ \A k \in Int : (k < s.next \/ Full(s, k)) <=> (k < rx.next \/ Full(r, k))
  <1>1. /\ rx.next \in Int /\ rx.next_highest \in Int /\ rx.highest_status \in Int
        /\ rx.next <= rx.highest_status /\ rx.highest_status <= rx.next_highest
        /\ RxStatus(rx) /\ rx.next <= tx.next /\ tx.next \in Int /\ Top(tx) \in Int
    BY RxFacts, TxFacts DEF EdgeInv
  <1>2. /\ r.next_highest \in Int /\ r.next <= r.highest_status
        /\ r.highest_status <= r.next_highest /\ r.next_highest <= r.next + Window
        /\ DOMAIN r.window \subseteq r.next .. r.next_highest - 1
    BY <1>1 DEF RxType, RxWindow
  <1>3. r.next # sn => ~Full(r, r.next)
    BY <1>1 DEF RxStatus
  <1>4. r.highest_status # sn => ~Full(r, r.highest_status)
    BY <1>1 DEF RxStatus
  <1>5. CASE Full(r, sn)
    <2>1. s = Completed(r, sn)
      BY <1>5
    <2>2. RxType(s) /\ RxWindow(s) /\ RxStatus(s) /\ Advanced(r, s)
      BY <1>2, <1>3, <1>4, <1>5, <2>1, CompletedOK
    <2>3. /\ s.next_highest = r.next_highest /\ s.trigger = r.trigger /\ r.next <= s.next
          /\ \A k \in r.next .. s.next - 1 : Full(r, k)
          /\ \A k \in Int : k >= s.next =>
               /\ k \in DOMAIN s.window <=> k \in DOMAIN r.window
               /\ k \in DOMAIN s.window => s.window[k] = r.window[k]
      BY <2>2 DEF Advanced
    <2>4. /\ s.next \in Int /\ s.next <= s.next_highest
          /\ DOMAIN s.window \subseteq s.next .. s.next_highest - 1
      BY <2>2 DEF RxType, RxWindow
    <2>5. RxBytes(s)
      <3>1. ASSUME NEW k \in DOMAIN s.window
            PROVE  k \in DOMAIN r.window /\ s.window[k] = r.window[k]
        <4>1. k \in Int /\ k >= s.next
          BY <2>4
        <4> QED
          BY <4>1, <2>3
      <3> QED
        BY <3>1 DEF RxBytes
    <2>6. s.next <= tx.next
      <3>1. CASE s.next = r.next
        BY <3>1, <1>1
      <3>2. CASE s.next > r.next
        <4>1. Full(r, s.next - 1) /\ s.next - 1 < Top(tx) /\ s.next - 1 \in Int
          BY <3>2, <2>3, <2>4, <1>1, <1>2
        <4>2. s.next - 1 < tx.next
          BY <4>1, FullBelow
        <4> QED
          BY <4>2, <2>4, <1>1
      <3> QED
        BY <3>1, <3>2, <2>3, <2>4, <1>1
    <2>7. LateTrigger(s)
      <3>1. SUFFICES ASSUME s.trigger # None
            PROVE  /\ s.trigger \in s.next - Window + 1 .. s.next_highest
                   /\ s.trigger > s.next => Has(s, s.trigger - 1)
        BY DEF LateTrigger
      <3>2. s.trigger \in r.next + 1 .. r.next_highest /\ Has(r, s.trigger - 1)
        BY <3>1, <2>3 DEF RxTrigger
      <3>3. s.next <= r.next + Window
        BY <2>3, <2>4, <1>2, <1>1, Constants
      <3>4. s.trigger \in s.next - Window + 1 .. s.next_highest
        BY <3>2, <3>3, <2>3, <2>4, <1>1, <1>2, Constants
      <3>5. ASSUME s.trigger > s.next PROVE Has(s, s.trigger - 1)
        <4>1. s.trigger - 1 \in Int /\ s.trigger - 1 >= s.next
          BY <3>2, <3>5, <2>4
        <4> QED
          BY <4>1, <3>2, <2>3 DEF Has
      <3> QED
        BY <3>4, <3>5
    <2>8. ASSUME NEW k \in Int
          PROVE  (k < s.next \/ Full(s, k)) <=> (k < rx.next \/ Full(r, k))
      <3>1. CASE k >= s.next
        <4>1. Full(s, k) <=> Full(r, k)
          BY <3>1, <2>3 DEF Full, Has, Got
        <4> QED
          BY <3>1, <4>1, <2>3, <2>4, <1>1
      <3>2. CASE k < s.next
        <4>1. k < rx.next \/ k \in r.next .. s.next - 1
          BY <3>2, <2>4, <1>1
        <4> QED
          BY <3>2, <4>1, <2>3
      <3> QED
        BY <3>1, <3>2, <2>4
    <2> QED
      BY <2>2, <2>3, <2>5, <2>6, <2>7, <2>8
  <1>6. CASE ~Full(r, sn)
    <2>1. s = r
      BY <1>6
    <2>2. RxStatus(r)
      BY <1>2, <1>3, <1>4, <1>6 DEF RxStatus
    <2> QED
      BY <2>1, <2>2, <1>1
  <1> QED
    BY <1>5, <1>6

LEMMA ReceiveNewStep ==
  ASSUME IInv, UNCHANGED <<tx, statuses, given, waived, reported>>, NEW p \in air,
         NEW sn, sn = rx.next + RxBase(rx, p.sn), Expected(rx, sn), ReceiveNew(p, sn)
  PROVE  IInv'
  <1>1. TxOK(tx) /\ RxOK(rx) /\ EdgeInv /\ PduOK(p) /\ faults = {}
    BY DEF IInv, AirInv
  <1>2. /\ rx.next \in Int /\ RxRecord(rx) /\ rx.trigger \in Int \cup {None}
        /\ tx.next_ack \in Int /\ Top(tx) \in Int /\ Top(tx) - tx.next_ack <= Window
        /\ tx.next_ack <= rx.next
    BY <1>1, RxFacts, TxFacts DEF EdgeInv, RxType
  <1>3. /\ p.of \in Int /\ p.of < Top(tx) /\ p.of >= rx.next - Window /\ p.sn = p.of % Mod
        /\ p.of >= Start
    BY <1>1, <1>2, Constants DEF PduOK
  <1>4. p.of - rx.next >= -Mod /\ p.of - rx.next < Mod
    BY <1>2, <1>3, Constants
  <1>5. RxBase(rx, p.sn) = IF p.of >= rx.next THEN p.of - rx.next ELSE p.of - rx.next + Mod
    BY <1>2, <1>3, <1>4, RxDistance
  <1>6. sn \in Int /\ sn - rx.next >= 0 /\ sn - rx.next < Mod
    BY <1>2, <1>3, <1>4, <1>5, Constants
  <1>7. RxBase(rx, sn) = sn - rx.next
    <2>1. sn - rx.next >= -Mod /\ sn >= rx.next
      BY <1>2, <1>6, Constants
    <2> QED
      BY <1>2, <1>6, <2>1, RxDistance
  <1>8. sn = p.of /\ sn >= rx.next /\ sn < rx.next + Window /\ ~Full(rx, sn)
    <2>1. RxBase(rx, sn) < Window /\ ~Full(rx, sn)
      BY DEF Expected
    <2> QED
      BY <2>1, <1>2, <1>3, <1>5, <1>6, <1>7, Constants
  <1>9. PICK a : a = [rx EXCEPT !.do_status = rx.do_status \/ p.poll]
    OBVIOUS
  <1>10. RxRecord(a) /\ SameReceived(rx, a) /\ a.trigger = rx.trigger
    BY ONLY <1>2, <1>9 DEF RxRecord, SameReceived
  <1>11. PICK r : r = Stored(a, sn, p)
    OBVIOUS
  <1>12. /\ RxType(r) /\ RxWindow(r) /\ RxBytes(r) /\ LateTrigger(r) /\ RxTrigger(r)
         /\ r.next = rx.next /\ r.highest_status = rx.highest_status
         /\ r.next_highest >= rx.next_highest /\ r.next_highest <= Top(tx)
         /\ Has(r, sn)
         /\ \A k : k # sn => (Full(r, k) <=> Full(rx, k))
    BY <1>1, <1>6, <1>8, <1>10, <1>11, StoredOK
  <1>13. PICK s : s = IF Full(r, sn) THEN Completed(r, sn) ELSE r
    OBVIOUS
  <1>14. /\ RxType(s) /\ RxWindow(s) /\ RxStatus(s) /\ RxBytes(s) /\ LateTrigger(s)
         /\ s.next >= rx.next /\ s.next <= tx.next /\ s.next_highest <= Top(tx)
         /\ \A k \in Int : (k < s.next \/ Full(s, k)) <=> (k < rx.next \/ Full(r, k))
    BY <1>1, <1>6, <1>8, <1>12, <1>13, MovedOn
  <1> DEFINE up == IF Full(r, sn) /\ Got(r, sn) = Bytes THEN {e[2] : e \in r.window[sn]} ELSE {}
  <1>15. /\ rx' = Reassembly(s)
         /\ delivered' = [k \in Sns |-> delivered[k] + IF k \in up THEN 1 ELSE 0]
         /\ air' = {o \in air \ {p} : InLifetime(s.next, o.of + 1)}
         /\ faults' = faults \cup
              (IF s.trigger # None /\ RxBase(s, s.trigger) = 1 /\ ~Has(s, s.next)
                 THEN {"rx_window"} ELSE {})
    BY <1>9, <1>11, <1>13 DEF ReceiveNew
  <1>16. /\ RxRecord(rx') /\ SameReceived(s, rx') /\ RxTrigger(rx')
         /\ rx'.trigger \in Int \cup {None}
         /\ ~(s.trigger # None /\ RxBase(s, s.trigger) = 1 /\ ~Has(s, s.next))
    BY <1>14, <1>15, ReassemblyOK
  <1>17. faults' = faults
    BY <1>15, <1>16
  <1>18. /\ RxType(rx') /\ RxWindow(rx') /\ RxStatus(rx') /\ RxBytes(rx')
         /\ \A k : Full(rx', k) <=> Full(s, k)
    BY <1>14, <1>16, SameReceivedOK
  <1>19. rx'.next = s.next /\ rx'.next_highest = s.next_highest /\ s.next \in Int
    BY <1>14, <1>16 DEF SameReceived, RxType
  <1>20. \A q \in air' : q \in air /\ q.of >= rx'.next - Window
    <2>1. SUFFICES ASSUME NEW q \in air' PROVE q \in air /\ q.of >= rx'.next - Window
      OBVIOUS
    <2>2. q \in air /\ InLifetime(s.next, q.of + 1)
      BY <1>15
    <2>3. q.of \in Int
      BY <1>1, <1>2, <2>2, Constants DEF IInv, AirInv, PduOK
    <2> QED
      BY <2>2, <2>3, <1>19, Constants DEF InLifetime
  <1>21. up = IF Full(r, sn) THEN {sn} ELSE {}
    <2>1. CASE Full(r, sn)
      <3>1. r.window[sn] # {} /\ r.window[sn] \subseteq (0 .. Sent(tx, sn) - 1) \X {sn}
        BY <1>12 DEF RxBytes, Has
      <3>2. {e[2] : e \in r.window[sn]} = {sn}
        BY <3>1
      <3> QED
        BY <2>1, <3>2 DEF Full
    <2>2. CASE ~Full(r, sn)
      BY <2>2
    <2> QED
      BY <2>1, <2>2
  <1>22. DeliveredInv'
    <2> HIDE DEF up
    <2>1. delivered \in [Sns -> Nat]
          /\ \A k \in Sns : delivered[k] = IF k < rx.next \/ Full(rx, k) THEN 1 ELSE 0
      BY DEF IInv, DeliveredInv
    <2>2. delivered' \in [Sns -> Nat]
          /\ \A k \in Sns : delivered'[k] = delivered[k] + IF k \in up THEN 1 ELSE 0
      BY <1>15, <2>1
    <2>3. ASSUME NEW k \in Sns
          PROVE  delivered'[k] = IF k < rx'.next \/ Full(rx', k) THEN 1 ELSE 0
      <3>1. k \in Int
        BY Constants DEF Sns
      <3>2. (k < rx'.next \/ Full(rx', k)) <=> (k < rx.next \/ Full(r, k))
        BY <3>1, <1>14, <1>18, <1>19
      <3>3. CASE k = sn
        <4>1. ~(k < rx.next \/ Full(rx, k)) /\ (k \in up <=> Full(r, k))
              /\ ~(k < rx.next)
          BY <3>3, <1>2, <1>6, <1>8, <1>21
        <4>2. delivered[k] = 0
          BY <4>1, <2>1
        <4>3. delivered'[k] = IF Full(r, k) THEN 1 ELSE 0
          BY <4>1, <4>2, <2>2
        <4> QED
          BY <4>1, <4>3, <3>2
      <3>4. CASE k # sn
        <4>1. k \notin up /\ (Full(r, k) <=> Full(rx, k))
          BY <3>4, <1>12, <1>21
        <4>2. delivered'[k] = delivered[k]
          BY <4>1, <2>1, <2>2
        <4> QED
          BY <4>1, <4>2, <3>2, <2>1
      <3> QED
        BY <3>3, <3>4
    <2> QED
      BY <2>2, <2>3 DEF DeliveredInv, Full, Has, Got
  <1> QED
    BY <1>14, <1>16, <1>17, <1>18, <1>19, <1>20, <1>22, ReceiverMoves

LEMMA DataStep ==
  ASSUME IInv, handle_data_pdu
  PROVE  IInv'
  <1>1. UNCHANGED <<tx, statuses, given, waived, reported>>
    BY DEF handle_data_pdu
  <1>2. PICK p \in air : LET sn == rx.next + RxBase(rx, p.sn)
                         IN IF Expected(rx, sn) THEN ReceiveNew(p, sn) ELSE ReceiveKnown(p)
    BY DEF handle_data_pdu
  <1>3. PICK sn : sn = rx.next + RxBase(rx, p.sn)
    OBVIOUS
  <1>4. CASE Expected(rx, sn)
    <2>1. ReceiveNew(p, sn)
      BY <1>2, <1>3, <1>4
    <2> QED
      BY <2>1, <1>1, <1>3, <1>4, ReceiveNewStep
  <1>5. CASE ~Expected(rx, sn)
    <2>1. ReceiveKnown(p)
      BY <1>2, <1>3, <1>5
    <2>2. rx' = [rx EXCEPT !.do_status = rx.do_status \/ p.poll] /\ air' \subseteq air
          /\ UNCHANGED <<delivered, faults>>
      BY <2>1 DEF ReceiveKnown
    <2>3. RxRecord(rx) /\ RxTrigger(rx) /\ rx.trigger \in Int \cup {None}
      BY RxFacts DEF IInv, RxType
    <2>4. RxRecord(rx') /\ SameReceived(rx, rx') /\ rx'.trigger = rx.trigger
      BY ONLY <2>2, <2>3 DEF RxRecord, SameReceived
    <2>5. RxTrigger(rx')
      BY <2>3, <2>4 DEF RxTrigger, SameReceived, Has
    <2> QED
      BY <1>1, <2>2, <2>3, <2>4, <2>5, ReceivedSame
  <1> QED
    BY <1>4, <1>5

LEMMA ProhibitStep ==
  ASSUME IInv, on_expired_status_prohibit_timer
  PROVE  IInv'
  <1>1. /\ rx' = [rx EXCEPT !.prohibit = FALSE]
        /\ UNCHANGED <<tx, air, statuses, given, waived, delivered, reported, faults>>
    BY DEF on_expired_status_prohibit_timer
  <1>2. RxRecord(rx) /\ RxTrigger(rx) /\ rx.trigger \in Int \cup {None}
    BY RxFacts DEF IInv, RxType
  <1>3. RxRecord(rx') /\ SameReceived(rx, rx') /\ rx'.trigger = rx.trigger
    BY ONLY <1>1, <1>2 DEF RxRecord, SameReceived
  <1>4. RxTrigger(rx')
    BY <1>2, <1>3 DEF RxTrigger, SameReceived, Has
  <1> QED
    BY <1>1, <1>2, <1>3, <1>4, ReceivedSame

LEMMA LoseStep ==
  ASSUME IInv, Lose
  PROVE  IInv'
  <1>1. UNCHANGED <<tx, rx, given, waived, delivered, reported, faults>>
        /\ air' \subseteq air /\ statuses' \subseteq statuses
    BY DEF Lose
  <1>2. TxOK(tx)' /\ RxOK(rx)' /\ GivenInv' /\ EdgeInv'
    BY <1>1 DEF IInv, GivenInv, EdgeInv, RxOK, RxType, RxWindow, RxStatus, RxTrigger,
                RxBytes, Has, Full, Got
  <1>3. AirInv'
    BY <1>1 DEF IInv, AirInv, PduOK
  <1>4. StatusInv'
    BY <1>1 DEF IInv, StatusInv, StatusOK, NackOK
  <1>5. DeliveredInv' /\ PollInv' /\ faults' = {}
    BY <1>1 DEF IInv, DeliveredInv, PollInv, Full, Has, Got
  <1> QED
    BY <1>2, <1>3, <1>4, <1>5 DEF IInv

LEMMA ReassemblyExpiryStep ==
  ASSUME IInv, on_expired_reassembly_timer
  PROVE  IInv'
  <1>1. TxOK(tx) /\ RxOK(rx) /\ EdgeInv /\ faults = {}
    BY DEF IInv
  <1>2. /\ UNCHANGED <<tx, air, statuses, given, waived, delivered, reported>>
        /\ rx.trigger # None
    BY DEF on_expired_reassembly_timer
  <1>3. /\ rx.next \in Int /\ rx.next_highest \in Int /\ rx.next_highest <= rx.next + Window
        /\ rx.trigger \in rx.next + 1 .. rx.next_highest /\ rx.trigger \in Int
        /\ DOMAIN rx.window \subseteq rx.next .. rx.next_highest - 1
        /\ RxType(rx) /\ RxWindow(rx) /\ RxStatus(rx) /\ RxBytes(rx) /\ RxRecord(rx)
    BY <1>1, <1>2, RxFacts DEF RxTrigger
  <1>4. PICK k : k = FirstIncomplete(rx, rx.trigger)
    OBVIOUS
  <1>5. /\ k \in rx.trigger .. rx.next_highest
        /\ k = rx.next_highest \/ ~Full(rx, k)
    <2>1. rx.trigger \in rx.next .. rx.next_highest
      BY <1>3
    <2> QED
      BY <2>1, <1>3, <1>4, FirstIncompleteIs
  <1>6. k \in Int /\ ~Full(rx, k)
    BY <1>3, <1>5 DEF Full, Has
  <1>7. RxBase(rx, rx.trigger) \in 1 .. Window /\ RxBase(rx, k) \in 1 .. Window
    <2>1. RxBase(rx, rx.trigger) = rx.trigger - rx.next
      BY <1>3, RxAhead, Constants
    <2>2. RxBase(rx, k) = k - rx.next
      BY <1>3, <1>5, <1>6, RxAhead, Constants
    <2> QED
      BY <2>1, <2>2, <1>3, <1>5, <1>6, Constants
  <1>8. PICK r : r = [rx EXCEPT !.highest_status = k, !.do_status = TRUE, !.trigger = None]
    OBVIOUS
  <1>9. /\ RxRecord(r) /\ r.next = rx.next /\ r.next_highest = rx.next_highest
        /\ r.highest_status = k /\ r.trigger = None /\ r.window = rx.window
    BY ONLY <1>3, <1>8 DEF RxRecord
  <1>10. /\ rx' = IF Missing(r, r.highest_status) THEN StartReassembly(r) ELSE r
         /\ faults' = faults
    BY <1>4, <1>7, <1>8, <1>9 DEF on_expired_reassembly_timer
  <1>11. /\ RxRecord(rx') /\ SameReceived(r, rx')
         /\ rx'.trigger = None \/ rx'.trigger = rx.next_highest
    <2>1. CASE Missing(r, r.highest_status)
      <3>1. rx' = [r EXCEPT !.trigger = r.next_highest]
        BY <2>1, <1>10 DEF StartReassembly
      <3> QED
        BY ONLY <3>1, <1>9 DEF RxRecord, SameReceived
    <2>2. CASE ~Missing(r, r.highest_status)
      BY <2>2, <1>9, <1>10 DEF SameReceived
    <2> QED
      BY <2>1, <2>2
  <1>12. /\ rx'.next = rx.next /\ rx'.next_highest = rx.next_highest /\ rx'.window = rx.window
         /\ rx'.highest_status = k /\ rx'.trigger \in Int \cup {None}
    BY <1>3, <1>9, <1>11 DEF SameReceived
  <1>13. \A l : (Full(rx', l) <=> Full(rx, l)) /\ (Has(rx', l) <=> Has(rx, l))
    BY <1>12 DEF Full, Has, Got
  <1>14. RxType(rx')
    BY <1>3, <1>6, <1>11, <1>12 DEF RxType
  <1>15. RxWindow(rx')
    BY <1>3, <1>12, <1>13 DEF RxWindow
  <1>16. RxStatus(rx')
    BY <1>3, <1>5, <1>6, <1>12, <1>13 DEF RxStatus
  <1>17. RxTrigger(rx')
    <2>1. rx.next_highest \in rx.next + 1 .. rx.next_highest /\ Has(rx, rx.next_highest - 1)
      BY <1>3 DEF RxWindow
    <2> QED
      BY <2>1, <1>11, <1>12, <1>13 DEF RxTrigger
  <1>18. RxBytes(rx')
    BY <1>3, <1>12 DEF RxBytes
  <1>19. DeliveredInv'
    <2>1. \A sn \in Sns : delivered[sn] = IF sn < rx.next \/ Full(rx, sn) THEN 1 ELSE 0
      BY DEF IInv, DeliveredInv
    <2>2. \A sn \in Sns : delivered'[sn] = IF sn < rx'.next \/ Full(rx', sn) THEN 1 ELSE 0
      BY ONLY <2>1, <1>12, <1>13, <1>2
    <2>3. delivered' \in [Sns -> Nat]
      BY <1>2 DEF IInv, DeliveredInv
    <2> QED
      BY <2>2, <2>3 DEF DeliveredInv, Full, Has, Got
  <1>20. rx.next <= rx'.next /\ rx'.next <= tx.next /\ rx'.next_highest <= Top(tx)
    BY <1>1, <1>3, <1>12 DEF EdgeInv
  <1>21. \A q \in air' : q \in air /\ q.of >= rx'.next - Window
    BY <1>2, <1>12 DEF IInv, AirInv, PduOK
  <1> QED
    BY <1>2, <1>10, <1>14, <1>15, <1>16, <1>17, <1>18, <1>19, <1>20, <1>21, ReceiverMoves

-----------------------------------------------------------------------------
(* The loops.  Each of them passes through states f[0], f[1], ... that its *)
(* body makes one of the other.                                            *)

LEMMA TakenBackLoop ==
  ASSUME NEW base, NEW q, Len(q) \in Nat
  PROVE  \E f : /\ f[0] = base
                /\ \A i \in 1 .. Len(q) : f[i] = TakenBack(f[i - 1], q[i])
                /\ Loop(TakenBack, base, q) = f[Len(q)]
  <1> DEFINE n == Len(q)
             Eq(f, m) == f = [i \in 0 .. m |-> IF i = 0 THEN base
                                               ELSE TakenBack(f[i - 1], q[i])]
             Bad == {m \in Nat : ~ \E f : Eq(f, m)}
  <1>1. Bad = {}
    <2>1. SUFFICES ASSUME Bad # {} PROVE FALSE
      OBVIOUS
    <2>2. PICK m \in Bad : \A k \in Bad : m <= k
      BY <2>1, Least
    <2>3. CASE m = 0
      <3>1. Eq([i \in 0 .. 0 |-> base], 0)
        OBVIOUS
      <3> QED
        BY <3>1, <2>2, <2>3
    <2>4. CASE m # 0
      <3>1. m \in Nat
        BY <2>2
      <3>2. m - 1 \in Nat /\ ~(m <= m - 1)
        BY <3>1, <2>4
      <3>3. PICK f : Eq(f, m - 1)
        BY <3>2, <2>2
      <3> DEFINE g == [i \in 0 .. m |-> IF i = m THEN TakenBack(f[m - 1], q[m]) ELSE f[i]]
      <3>4. Eq(g, m)
        BY <3>1, <3>2, <3>3
      <3> QED
        BY <3>4, <2>2
    <2> QED
      BY <2>3, <2>4
  <1>2. PICK f : f = CHOOSE g : Eq(g, n)
    OBVIOUS
  <1>3. Eq(f, n)
    BY <1>1, <1>2
  <1>4. Loop(TakenBack, base, q) = f[n]
    BY <1>2 DEF Loop
  <1> QED
    BY <1>3, <1>4

LEMMA HandleNackLoop ==
  ASSUME NEW base, NEW q, Len(q) \in Nat
  PROVE  \E f : /\ f[0] = base
                /\ \A i \in 1 .. Len(q) : f[i] = handle_nack(f[i - 1], q[i])
                /\ Loop(handle_nack, base, q) = f[Len(q)]
  <1> DEFINE n == Len(q)
             Eq(f, m) == f = [i \in 0 .. m |-> IF i = 0 THEN base
                                               ELSE handle_nack(f[i - 1], q[i])]
             Bad == {m \in Nat : ~ \E f : Eq(f, m)}
  <1>1. Bad = {}
    <2>1. SUFFICES ASSUME Bad # {} PROVE FALSE
      OBVIOUS
    <2>2. PICK m \in Bad : \A k \in Bad : m <= k
      BY <2>1, Least
    <2>3. CASE m = 0
      <3>1. Eq([i \in 0 .. 0 |-> base], 0)
        OBVIOUS
      <3> QED
        BY <3>1, <2>2, <2>3
    <2>4. CASE m # 0
      <3>1. m \in Nat
        BY <2>2
      <3>2. m - 1 \in Nat /\ ~(m <= m - 1)
        BY <3>1, <2>4
      <3>3. PICK f : Eq(f, m - 1)
        BY <3>2, <2>2
      <3> DEFINE g == [i \in 0 .. m |-> IF i = m THEN handle_nack(f[m - 1], q[m]) ELSE f[i]]
      <3>4. Eq(g, m)
        BY <3>1, <3>2, <3>3
      <3> QED
        BY <3>4, <2>2
    <2> QED
      BY <2>3, <2>4
  <1>2. PICK f : f = CHOOSE g : Eq(g, n)
    OBVIOUS
  <1>3. Eq(f, n)
    BY <1>1, <1>2
  <1>4. Loop(handle_nack, base, q) = f[n]
    BY <1>2 DEF Loop
  <1> QED
    BY <1>3, <1>4

LEMMA NackHandledLoop ==
  ASSUME NEW base, NEW q, Len(q) \in Nat
  PROVE  \E f : /\ f[0] = base
                /\ \A i \in 1 .. Len(q) : f[i] = NackHandled(f[i - 1], q[i])
                /\ Loop(NackHandled, base, q) = f[Len(q)]
  <1> DEFINE n == Len(q)
             Eq(f, m) == f = [i \in 0 .. m |-> IF i = 0 THEN base
                                               ELSE NackHandled(f[i - 1], q[i])]
             Bad == {m \in Nat : ~ \E f : Eq(f, m)}
  <1>1. Bad = {}
    <2>1. SUFFICES ASSUME Bad # {} PROVE FALSE
      OBVIOUS
    <2>2. PICK m \in Bad : \A k \in Bad : m <= k
      BY <2>1, Least
    <2>3. CASE m = 0
      <3>1. Eq([i \in 0 .. 0 |-> base], 0)
        OBVIOUS
      <3> QED
        BY <3>1, <2>2, <2>3
    <2>4. CASE m # 0
      <3>1. m \in Nat
        BY <2>2
      <3>2. m - 1 \in Nat /\ ~(m <= m - 1)
        BY <3>1, <2>4
      <3>3. PICK f : Eq(f, m - 1)
        BY <3>2, <2>2
      <3> DEFINE g == [i \in 0 .. m |-> IF i = m THEN NackHandled(f[m - 1], q[m]) ELSE f[i]]
      <3>4. Eq(g, m)
        BY <3>1, <3>2, <3>3
      <3> QED
        BY <3>4, <2>2
    <2> QED
      BY <2>3, <2>4
  <1>2. PICK f : f = CHOOSE g : Eq(g, n)
    OBVIOUS
  <1>3. Eq(f, n)
    BY <1>1, <1>2
  <1>4. Loop(NackHandled, base, q) = f[n]
    BY <1>2 DEF Loop
  <1> QED
    BY <1>3, <1>4

LEMMA PushNackLoop ==
  ASSUME NEW base, NEW q, Len(q) \in Nat
  PROVE  \E f : /\ f[0] = base
                /\ \A i \in 1 .. Len(q) : f[i] = push_nack(f[i - 1], q[i])
                /\ Loop(push_nack, base, q) = f[Len(q)]
  <1> DEFINE n == Len(q)
             Eq(f, m) == f = [i \in 0 .. m |-> IF i = 0 THEN base
                                               ELSE push_nack(f[i - 1], q[i])]
             Bad == {m \in Nat : ~ \E f : Eq(f, m)}
  <1>1. Bad = {}
    <2>1. SUFFICES ASSUME Bad # {} PROVE FALSE
      OBVIOUS
    <2>2. PICK m \in Bad : \A k \in Bad : m <= k
      BY <2>1, Least
    <2>3. CASE m = 0
      <3>1. Eq([i \in 0 .. 0 |-> base], 0)
        OBVIOUS
      <3> QED
        BY <3>1, <2>2, <2>3
    <2>4. CASE m # 0
      <3>1. m \in Nat
        BY <2>2
      <3>2. m - 1 \in Nat /\ ~(m <= m - 1)
        BY <3>1, <2>4
      <3>3. PICK f : Eq(f, m - 1)
        BY <3>2, <2>2
      <3> DEFINE g == [i \in 0 .. m |-> IF i = m THEN push_nack(f[m - 1], q[m]) ELSE f[i]]
      <3>4. Eq(g, m)
        BY <3>1, <3>2, <3>3
      <3> QED
        BY <3>4, <2>2
    <2> QED
      BY <2>3, <2>4
  <1>2. PICK f : f = CHOOSE g : Eq(g, n)
    OBVIOUS
  <1>3. Eq(f, n)
    BY <1>1, <1>2
  <1>4. Loop(push_nack, base, q) = f[n]
    BY <1>2 DEF Loop
  <1> QED
    BY <1>3, <1>4

-----------------------------------------------------------------------------
(* The STATUS PDU.                                                         *)

\* A NACK of SN sn alone, as r asks for it.
UnitNack(r, sn, n) ==
  /\ n \in NackEntry /\ n.sn = sn % Mod /\ n.range = 1
  /\ n.so_start < Size /\ n.so_end <= Size /\ n.so_start <= n.so_end
  /\ Has(r, sn) => /\ n.has_so
                   /\ \/ \E g \in Got(r, sn) : n.so_end < g
                      \/ n.so_start > 0 /\ n.so_end = Size

LEMMA LostFromOK ==
  ASSUME NEW r, NEW sn \in Int, Has(r, sn), Got(r, sn) \subseteq Bytes, Got(r, sn) # {},
         NEW b \in Lost(r, sn), NEW n, n = LostFrom(r, sn, b)
  PROVE  UnitNack(r, sn, n)
  <1> DEFINE L == Lost(r, sn)
             Good(e) == e >= b /\ b .. e \subseteq L /\ e + 1 \notin L
  <1>1. L \subseteq 0 .. Size - 1 /\ L \cap Got(r, sn) = {} /\ Size \in Nat
    BY Constants DEF Lost, Bytes
  <1>2. b \in L /\ b \in Nat /\ b < Size
    BY <1>1
  <1> HIDE DEF L
  <1>3. \E e \in L : Good(e)
    <2> DEFINE S == {d \in Nat : b + d + 1 \notin L}
    <2>1. Size \in S
      BY <1>1, <1>2
    <2>2. PICK d \in S : \A m \in S : d <= m
      BY <2>1, Least
    <2>3. \A k \in Nat : k < d => b + k + 1 \in L
      BY <2>2
    <2>4. d \in Nat /\ b + d \in Int
      BY <1>2, <2>2
    <2>5. ASSUME NEW x \in b .. b + d PROVE x \in L
      <3>1. CASE x = b
        BY <3>1, <1>2
      <3>2. CASE x # b
        <4>1. PICK k \in Nat : k = x - b - 1 /\ k < d
          BY <3>2, <2>4, <1>2
        <4>2. b + k + 1 = x
          BY <4>1, <1>2
        <4> QED
          BY <4>1, <4>2, <2>3
      <3> QED
        BY <3>1, <3>2
    <2>6. b + d \in L /\ b + d >= b /\ b + d + 1 \notin L
      BY <2>2, <2>4, <2>5, <1>2
    <2> QED
      BY <2>5, <2>6
  <1>4. PICK e : e = CHOOSE x \in L : Good(x)
    OBVIOUS
  <1>5. e \in L /\ Good(e)
    BY <1>3, <1>4
  <1>6. e \in 0 .. Size - 1 /\ e >= b
    BY <1>1, <1>5
  <1>7. PICK z : z = IF e = Size - 1 THEN Size ELSE e
    OBVIOUS
  <1>8. n = [sn |-> sn % Mod, range |-> 1, has_so |-> TRUE, so_start |-> b, so_end |-> z]
    BY <1>4, <1>7 DEF LostFrom, Nack, EndOfSdu, L
  <1>9. z \in Nat /\ z <= Size /\ b <= z
    BY <1>1, <1>2, <1>6, <1>7
  <1>10. (\E g \in Got(r, sn) : z < g) \/ (b > 0 /\ z = Size)
    <2>1. CASE e = Size - 1
      <3>1. PICK g \in Got(r, sn) : g \in 0 .. Size - 1 /\ g \notin L
        BY <1>1 DEF Bytes
      <3>2. ~(g \in b .. e)
        BY <1>5, <3>1
      <3> QED
        BY <2>1, <3>1, <3>2, <1>1, <1>2, <1>7
    <2>2. CASE e # Size - 1
      <3>1. e + 1 \in 0 .. Size - 1 /\ e + 1 \notin L
        BY <2>2, <1>1, <1>5, <1>6
      <3>2. e + 1 \in Got(r, sn)
        BY <3>1 DEF L, Lost, Bytes
      <3>3. z < e + 1
        BY <2>2, <1>6, <1>7
      <3> QED
        BY <3>2, <3>3
    <2> QED
      BY <2>1, <2>2
  <1>11. sn % Mod \in Int
    BY DivMod
  <1> QED
    BY <1>2, <1>8, <1>9, <1>10, <1>11 DEF UnitNack, NackEntry

\* The body of the loop of NacksOf.
IsStart(r, sn, b) == b \in Lost(r, sn) /\ b - 1 \notin Lost(r, sn)
AddPart(r, sn, c, b) == IF IsStart(r, sn, b) THEN Append(c, LostFrom(r, sn, b)) ELSE c
Parts(r, sn, base, q) == LET add(c, b) == AddPart(r, sn, c, b) IN Loop(add, base, q)

LEMMA AddPartLoop ==
  ASSUME NEW r, NEW sn, NEW base, NEW q, Len(q) \in Nat
  PROVE  \E f : /\ f[0] = base
                /\ \A i \in 1 .. Len(q) : f[i] = AddPart(r, sn, f[i - 1], q[i])
                /\ Parts(r, sn, base, q) = f[Len(q)]
  <1> DEFINE n == Len(q)
             Eq(f, m) == f = [i \in 0 .. m |-> IF i = 0 THEN base
                                               ELSE AddPart(r, sn, f[i - 1], q[i])]
             Bad == {m \in Nat : ~ \E f : Eq(f, m)}
  <1>1. Bad = {}
    <2>1. SUFFICES ASSUME Bad # {} PROVE FALSE
      OBVIOUS
    <2>2. PICK m \in Bad : \A k \in Bad : m <= k
      BY <2>1, Least
    <2>3. CASE m = 0
      <3>1. Eq([i \in 0 .. 0 |-> base], 0)
        OBVIOUS
      <3> QED
        BY <3>1, <2>2, <2>3
    <2>4. CASE m # 0
      <3>1. m \in Nat
        BY <2>2
      <3>2. m - 1 \in Nat /\ ~(m <= m - 1)
        BY <3>1, <2>4
      <3>3. PICK f : Eq(f, m - 1)
        BY <3>2, <2>2
      <3> DEFINE g == [i \in 0 .. m |-> IF i = m THEN AddPart(r, sn, f[m - 1], q[m]) ELSE f[i]]
      <3>4. Eq(g, m)
        BY <3>1, <3>2, <3>3
      <3> QED
        BY <3>4, <2>2
    <2> QED
      BY <2>3, <2>4
  <1>2. PICK f : f = CHOOSE g : Eq(g, n)
    OBVIOUS
  <1>3. Eq(f, n)
    BY <1>1, <1>2
  <1>4. Parts(r, sn, base, q) = f[n]
    BY <1>2 DEF Loop, Parts
  <1> QED
    BY <1>3, <1>4

\* A sequence of NACKs of SN sn alone.
UnitNacksOf(r, sn, c) == c \in Seq(NackEntry) /\ \A k \in 1 .. Len(c) : UnitNack(r, sn, c[k])

LEMMA NacksOfOK ==
  ASSUME NEW r, NEW sn \in Int, Has(r, sn) => Got(r, sn) \subseteq Bytes /\ Got(r, sn) # {},
         NEW N, N = NacksOf(r, sn)
  PROVE  UnitNacksOf(r, sn, N) /\ (Full(r, sn) => N = << >>) /\ (~Full(r, sn) => N # << >>)
  <1>1. CASE Full(r, sn)
    <2>1. N = << >>
      BY <1>1 DEF NacksOf
    <2> QED
      BY <1>1, <2>1 DEF UnitNacksOf
  <1>2. CASE ~Full(r, sn) /\ ~Has(r, sn)
    <2>1. PICK n : n = Nack(sn, FALSE, 0, EndOfSdu)
      OBVIOUS
    <2>2. N = <<n>>
      BY <1>2, <2>1 DEF NacksOf
    <2>3. sn % Mod \in Int
      BY DivMod
    <2>4. UnitNack(r, sn, n) /\ n \in NackEntry
      BY <1>2, <2>1, <2>3, Constants DEF UnitNack, NackEntry, Nack, EndOfSdu
    <2> QED
      BY <1>2, <2>2, <2>4 DEF UnitNacksOf
  <1>3. CASE ~Full(r, sn) /\ Has(r, sn)
    <2>1. PICK q : q = [i \in 1 .. Size |-> i - 1]
      OBVIOUS
    <2>2. Len(q) = Size /\ Size \in Nat /\ \A i \in 1 .. Size : q[i] = i - 1
      BY <2>1, Constants
    <2>3. N = Parts(r, sn, << >>, q)
      BY <1>3, <2>1 DEF NacksOf, Parts, AddPart, IsStart
    <2>4. PICK f : /\ f[0] = << >>
                   /\ \A i \in 1 .. Size : f[i] = AddPart(r, sn, f[i - 1], q[i])
                   /\ N = f[Size]
      <3>1. Len(q) \in Nat
        BY <2>2
      <3>2. PICK e : e = << >>
        OBVIOUS
      <3>3. PICK f : /\ f[0] = e
                     /\ \A i \in 1 .. Len(q) : f[i] = AddPart(r, sn, f[i - 1], q[i])
                     /\ Parts(r, sn, e, q) = f[Len(q)]
        BY ONLY <3>1, AddPartLoop
      <3> QED
        BY <3>2, <3>3, <2>2, <2>3
    <2> DEFINE Inv(i) == /\ UnitNacksOf(r, sn, f[i])
                         /\ (\E b \in 0 .. i - 1 : IsStart(r, sn, b)) => f[i] # << >>
               Bad == {i \in Nat : i <= Size /\ ~Inv(i)}
    <2>5. Bad = {}
      <3>1. SUFFICES ASSUME Bad # {} PROVE FALSE
        OBVIOUS
      <3>2. PICK m \in Bad : \A k \in Bad : m <= k
        BY <3>1, Least
      <3>3. m \in Nat /\ m <= Size /\ ~Inv(m)
        BY <3>2
      <3>4. CASE m = 0
        <4>1. Inv(0)
          BY <2>4 DEF UnitNacksOf
        <4> QED
          BY <4>1, <3>3, <3>4
      <3>5. CASE m # 0
        <4>1. m - 1 \in Nat /\ m - 1 <= Size /\ ~(m <= m - 1) /\ m \in 1 .. Size
          BY <3>3, <3>5, <2>2
        <4>2. Inv(m - 1)
          BY <4>1, <3>2
        <4>3. f[m] = AddPart(r, sn, f[m - 1], m - 1)
          BY <4>1, <2>2, <2>4
        <4>4. PICK c : c = f[m - 1]
          OBVIOUS
        <4>5. CASE IsStart(r, sn, m - 1)
          <5>1. PICK n : n = LostFrom(r, sn, m - 1)
            OBVIOUS
          <5>2. UnitNack(r, sn, n) /\ n \in NackEntry
            BY <4>5, <5>1, <1>3, LostFromOK DEF IsStart, UnitNack
          <5>3. f[m] = Append(c, n)
            BY <4>3, <4>4, <4>5, <5>1 DEF AddPart
          <5>4. UnitNacksOf(r, sn, c)
            BY <4>2, <4>4
          <5>5. UnitNacksOf(r, sn, Append(c, n)) /\ Append(c, n) # << >>
            <6>1. PICK d : d = Append(c, n)
              OBVIOUS
            <6>2. c \in Seq(NackEntry) /\ \A k \in 1 .. Len(c) : UnitNack(r, sn, c[k])
              BY <5>4 DEF UnitNacksOf
            <6>3. /\ d \in Seq(NackEntry) /\ Len(d) = Len(c) + 1 /\ d[Len(c) + 1] = n
                  /\ \A k \in 1 .. Len(c) : d[k] = c[k]
              BY <6>1, <6>2, <5>2
            <6>4. \A k \in 1 .. Len(d) : UnitNack(r, sn, d[k])
              BY <6>2, <6>3, <5>2
            <6>5. d # << >>
              BY <6>2, <6>3
            <6> QED
              BY <6>1, <6>3, <6>4, <6>5 DEF UnitNacksOf
          <5> QED
            BY <3>3, <5>3, <5>5
        <4>6. CASE ~IsStart(r, sn, m - 1)
          <5>1. f[m] = f[m - 1]
            BY <4>3, <4>6 DEF AddPart
          <5>2. \A b \in 0 .. m - 1 : b = m - 1 \/ b \in 0 .. (m - 1) - 1
            BY <4>1
          <5> QED
            BY <3>3, <4>2, <4>6, <5>1, <5>2
        <4> QED
          BY <4>5, <4>6
      <3> QED
        BY <3>4, <3>5
    <2>6. Inv(Size)
      BY <2>2, <2>5
    <2>7. \E b \in 0 .. Size - 1 : IsStart(r, sn, b)
      <3>1. Lost(r, sn) \subseteq 0 .. Size - 1 /\ Lost(r, sn) # {}
        BY <1>3 DEF Lost, Bytes, Full
      <3>2. Lost(r, sn) \in SUBSET Nat
        BY <3>1
      <3>3. PICK b \in Lost(r, sn) : \A m \in Lost(r, sn) : b <= m
        BY <3>1, <3>2, Least
      <3>4. b \in 0 .. Size - 1 /\ b - 1 \notin Lost(r, sn)
        BY <3>1, <3>3, Constants
      <3> QED
        BY <3>3, <3>4 DEF IsStart
    <2> QED
      BY <1>3, <2>4, <2>6, <2>7
  <1> QED
    BY <1>1, <1>2, <1>3

\* The SN of a NACK, from its distance to RX_Next.
At(r, n) == r.next + RxBase(r, n.sn)

\* A NACK of the report of r up to SN x, x not included.
ReportNack(r, x, n) ==
  /\ n \in NackEntry /\ n.sn = At(r, n) % Mod
  /\ r.next <= At(r, n) /\ At(r, n) + n.range <= x
  /\ n.so_start < Size /\ n.so_end <= Size
  /\ n.range = 1 => n.so_start <= n.so_end
  /\ Has(r, At(r, n) + n.range - 1) =>
       /\ n.has_so
       /\ \/ \E g \in Got(r, At(r, n) + n.range - 1) : n.so_end < g
          \/ n.range = 1 /\ n.so_start > 0 /\ n.so_end = Size

Report(r, x, c) ==
  /\ c \in Seq(NackEntry)
  /\ \A k \in 1 .. Len(c) : ReportNack(r, x, c[k])
  /\ \A j, k \in 1 .. Len(c) : j <= k => At(r, c[j]) <= At(r, c[k])
  /\ c # << >> => At(r, c[1]) = r.next

LEMMA AtInt ==
  ASSUME NEW r, r.next \in Int, NEW n \in NackEntry
  PROVE  At(r, n) \in Int
  <1>1. n.sn - r.next \in Int
    BY DEF NackEntry
  <1>2. (n.sn - r.next) % Mod \in Int
    BY <1>1, DivMod
  <1> QED
    BY <1>2 DEF At, RxBase

LEMMA UnitReport ==
  ASSUME NEW r, r.next \in Int, NEW x \in r.next .. r.next + Window - 1,
         NEW n, UnitNack(r, x, n)
  PROVE  At(r, n) = x /\ ReportNack(r, x + 1, n)
  <1>1. x \in Int /\ x - r.next >= -Mod /\ x - r.next < Mod /\ x >= r.next
    BY Constants
  <1>2. RxBase(r, x % Mod) = x - r.next
    BY <1>1, RxDistance
  <1>3. /\ n \in NackEntry /\ n.sn = x % Mod /\ n.range = 1
        /\ n.so_start < Size /\ n.so_end <= Size /\ n.so_start <= n.so_end
        /\ Has(r, x) => /\ n.has_so
                        /\ \/ \E g \in Got(r, x) : n.so_end < g
                           \/ n.so_start > 0 /\ n.so_end = Size
    BY DEF UnitNack
  <1>4. At(r, n) = x
    BY <1>1, <1>2, <1>3 DEF At
  <1>5. At(r, n) + n.range - 1 = x /\ At(r, n) + n.range = x + 1
    BY <1>1, <1>3, <1>4
  <1>6. n.so_start \in Nat
    BY <1>3 DEF NackEntry
  <1>7. ReportNack(r, x + 1, n)
    BY <1>1, <1>3, <1>4, <1>5, <1>6 DEF ReportNack
  <1> QED
    BY <1>4, <1>7

\* The record that push_nack makes of two NACKs.
Merged(prev, n) ==
  [prev EXCEPT !.range = @ + 1, !.has_so = @ \/ n.has_so,
               !.so_end = IF n.has_so THEN n.so_end ELSE EndOfSdu]

LEMMA MergedFields ==
  ASSUME NEW prev \in NackEntry, NEW n \in NackEntry, NEW m, m = Merged(prev, n)
  PROVE  /\ m \in NackEntry /\ m.sn = prev.sn /\ m.range = prev.range + 1
         /\ m.so_start = prev.so_start
         /\ n.has_so => m.has_so /\ m.so_end = n.so_end
         /\ ~n.has_so => m.so_end = Size
  <1>1. PICK h \in BOOLEAN : h = (prev.has_so \/ n.has_so)
    BY DEF NackEntry
  <1>2. PICK e : e = IF n.has_so THEN n.so_end ELSE Size
    OBVIOUS
  <1>3. e \in Nat /\ (n.has_so => e = n.so_end) /\ (~n.has_so => e = Size)
    BY <1>2, Constants DEF NackEntry
  <1>4. m = [prev EXCEPT !.range = prev.range + 1, !.has_so = h, !.so_end = e]
    BY <1>1, <1>2 DEF Merged, EndOfSdu
  <1>5. prev.range \in Nat \ {0} /\ prev.range + 1 \in Nat \ {0}
    BY DEF NackEntry
  <1>6. /\ m \in NackEntry /\ m.sn = prev.sn /\ m.range = prev.range + 1
        /\ m.so_start = prev.so_start /\ m.has_so = h /\ m.so_end = e
    BY ONLY <1>1, <1>3, <1>4, <1>5, prev \in NackEntry DEF NackEntry
  <1>7. n.has_so => m.has_so
    BY ONLY <1>1, <1>6
  <1> QED
    BY <1>3, <1>6, <1>7

LEMMA MergedReport ==
  ASSUME NEW r, r.next \in Int, NEW x \in r.next .. r.next + Window - 1,
         NEW prev, ReportNack(r, x + 1, prev), NEW n, UnitNack(r, x, n),
         can_be_merged(prev, n), NEW m, m = Merged(prev, n)
  PROVE  ReportNack(r, x + 1, m) /\ At(r, m) = At(r, prev)
  <1>1. /\ prev \in NackEntry /\ prev.sn = At(r, prev) % Mod /\ r.next <= At(r, prev)
        /\ At(r, prev) + prev.range <= x + 1 /\ prev.so_start < Size
    BY DEF ReportNack
  <1>2. /\ n \in NackEntry /\ n.sn = x % Mod /\ n.so_end <= Size
        /\ Has(r, x) => /\ n.has_so
                        /\ \/ \E g \in Got(r, x) : n.so_end < g
                           \/ n.so_start > 0 /\ n.so_end = Size
    BY DEF UnitNack
  <1>3. /\ m \in NackEntry /\ m.sn = prev.sn /\ m.range = prev.range + 1
        /\ m.so_start = prev.so_start
        /\ n.has_so => m.has_so /\ m.so_end = n.so_end
        /\ ~n.has_so => m.so_end = Size
    BY <1>1, <1>2, MergedFields
  <1>4. At(r, m) = At(r, prev)
    BY <1>3 DEF At
  <1>5. PICK a \in Int : a = At(r, prev)
    BY <1>1, AtInt
  <1>6. prev.range \in Nat /\ prev.range >= 1 /\ x \in Int
    BY <1>1 DEF NackEntry
  <1>7. x = a + prev.range
    <2>1. n.sn = (prev.sn + prev.range) % Mod
      BY DEF can_be_merged
    <2>2. ((a % Mod) + prev.range) % Mod = (a + prev.range) % Mod
      <3>1. prev.range \in Int
        BY <1>6
      <3> QED
        BY <3>1, FieldLeft
    <2>3. PICK y \in Int : y = a + prev.range
      BY <1>6
    <2>4. x % Mod = y % Mod
      BY <2>1, <2>2, <2>3, <1>1, <1>2, <1>5
    <2>5. x - y < Mod /\ y - x < Mod
      BY <2>3, <1>1, <1>5, <1>6, Constants
    <2> QED
      BY <2>3, <2>4, <2>5, <1>6, SameField
  <1>8. At(r, m) + m.range = x + 1 /\ At(r, m) + m.range - 1 = x /\ m.range # 1
    BY <1>3, <1>4, <1>5, <1>6, <1>7
  <1>9. n.has_so => n.so_start = 0
    BY DEF can_be_merged
  <1>10. Has(r, x) => m.has_so /\ \E g \in Got(r, x) : m.so_end < g
    BY <1>2, <1>3, <1>9
  <1>11. m.so_end <= Size
    BY <1>2, <1>3, Constants
  <1>12. ReportNack(r, x + 1, m)
    BY <1>1, <1>3, <1>4, <1>6, <1>8, <1>10, <1>11 DEF ReportNack
  <1> QED
    BY <1>4, <1>12

LEMMA PushedOK ==
  ASSUME NEW r, r.next \in Int, NEW x \in r.next .. r.next + Window - 1,
         NEW c, Report(r, x + 1, c), c # << >> \/ x = r.next,
         NEW n, UnitNack(r, x, n), NEW d, d = push_nack(c, n)
  PROVE  Report(r, x + 1, d) /\ d # << >>
  <1>1. /\ c \in Seq(NackEntry) /\ Len(c) \in Nat
        /\ \A k \in 1 .. Len(c) : ReportNack(r, x + 1, c[k])
        /\ \A j, k \in 1 .. Len(c) : j <= k => At(r, c[j]) <= At(r, c[k])
        /\ c # << >> => At(r, c[1]) = r.next
    BY DEF Report
  <1>2. n \in NackEntry /\ At(r, n) = x /\ ReportNack(r, x + 1, n)
    BY UnitReport DEF UnitNack
  <1>3. ASSUME NEW k \in 1 .. Len(c) PROVE At(r, c[k]) \in Int /\ At(r, c[k]) <= x
    <2>1. c[k] \in NackEntry /\ ReportNack(r, x + 1, c[k])
      BY <1>1
    <2>2. At(r, c[k]) \in Int
      BY <2>1, AtInt
    <2>3. c[k].range \in Nat /\ c[k].range >= 1 /\ At(r, c[k]) + c[k].range <= x + 1
      BY <2>1 DEF NackEntry, ReportNack
    <2> QED
      BY <2>2, <2>3
  <1>4. CASE c # << >> /\ can_be_merged(c[Len(c)], n)
    <2>1. Len(c) \in 1 .. Len(c) /\ Len(c) >= 1
      BY <1>1, <1>4
    <2>2. PICK p : p = c[Len(c)]
      OBVIOUS
    <2>3. PICK m : m = Merged(p, n)
      OBVIOUS
    <2>4. ReportNack(r, x + 1, p) /\ can_be_merged(p, n)
      BY <2>1, <2>2, <1>1, <1>4
    <2>5. ReportNack(r, x + 1, m) /\ At(r, m) = At(r, p)
      BY <2>3, <2>4, MergedReport
    <2>6. m \in NackEntry
      BY <2>5 DEF ReportNack
    <2>7. d = [c EXCEPT ![Len(c)] = m]
      BY <2>2, <2>3, <1>4 DEF push_nack, Merged
    <2>8. /\ d \in Seq(NackEntry) /\ Len(d) = Len(c) /\ d[Len(c)] = m
          /\ \A k \in 1 .. Len(c) : k # Len(c) => d[k] = c[k]
      BY ONLY <2>1, <2>6, <2>7, <1>1
    <2>9. \A k \in 1 .. Len(c) : ReportNack(r, x + 1, d[k]) /\ At(r, d[k]) = At(r, c[k])
      BY <2>2, <2>5, <2>8, <1>1
    <2>10. d # << >> /\ At(r, d[1]) = r.next
      BY <2>1, <2>8, <2>9, <1>1, <1>4
    <2>11. \A j, k \in 1 .. Len(d) : j <= k => At(r, d[j]) <= At(r, d[k])
      BY <2>8, <2>9, <1>1
    <2> QED
      BY <2>8, <2>9, <2>10, <2>11 DEF Report
  <1>5. CASE ~(c # << >> /\ can_be_merged(c[Len(c)], n))
    <2>1. d = Append(c, n)
      BY <1>5 DEF push_nack
    <2>2. /\ d \in Seq(NackEntry) /\ Len(d) = Len(c) + 1 /\ d[Len(c) + 1] = n
          /\ \A k \in 1 .. Len(c) : d[k] = c[k]
      BY <2>1, <1>1, <1>2
    <2>3. \A k \in 1 .. Len(d) : ReportNack(r, x + 1, d[k])
      BY <2>2, <1>1, <1>2
    <2>4. \A j, k \in 1 .. Len(d) : j <= k => At(r, d[j]) <= At(r, d[k])
      <3>1. SUFFICES ASSUME NEW j \in 1 .. Len(d), NEW k \in 1 .. Len(d), j <= k
                     PROVE  At(r, d[j]) <= At(r, d[k])
        OBVIOUS
      <3>2. CASE k = Len(d)
        <4>1. At(r, d[k]) = x
          BY <3>2, <2>2, <1>2
        <4>2. At(r, d[j]) <= x
          BY <2>2, <1>1, <1>2, <1>3
        <4> QED
          BY <4>1, <4>2
      <3>3. CASE k # Len(d)
        <4>1. j \in 1 .. Len(c) /\ k \in 1 .. Len(c)
          BY <3>1, <3>3, <2>2, <1>1
        <4> QED
          BY <4>1, <3>1, <2>2, <1>1
      <3> QED
        BY <3>2, <3>3
    <2>5. d # << >> /\ At(r, d[1]) = r.next
      <3>1. CASE c = << >>
        <4>1. Len(c) = 0 /\ x = r.next
          BY <3>1
        <4> QED
          BY <4>1, <2>2, <1>2
      <3>2. CASE c # << >>
        <4>1. 1 \in 1 .. Len(c)
          BY <3>2, <1>1
        <4> QED
          BY <4>1, <3>2, <2>2, <1>1
      <3> QED
        BY <3>1, <3>2
    <2> QED
      BY <2>2, <2>3, <2>4, <2>5 DEF Report
  <1> QED
    BY <1>4, <1>5

LEMMA LongerReport ==
  ASSUME NEW r, r.next \in Int, NEW x \in Int, NEW c, Report(r, x, c)
  PROVE  Report(r, x + 1, c)
  <1>1. ASSUME NEW k \in 1 .. Len(c) PROVE ReportNack(r, x + 1, c[k])
    <2>1. ReportNack(r, x, c[k]) /\ c[k] \in NackEntry
      BY DEF Report
    <2>2. At(r, c[k]) \in Int /\ c[k].range \in Nat
      BY <2>1, AtInt DEF NackEntry
    <2>3. At(r, c[k]) + c[k].range <= x + 1
      BY <2>1, <2>2 DEF ReportNack
    <2> QED
      BY <2>1, <2>3 DEF ReportNack
  <1> QED
    BY <1>1 DEF Report

\* The NACKs of one more SN are pushed.
PushSn(r, c, sn) == Loop(push_nack, c, NacksOf(r, sn))

LEMMA PushSnOK ==
  ASSUME NEW r, r.next \in Int, NEW x \in r.next .. r.next + Window - 1,
         Has(r, x) => Got(r, x) \subseteq Bytes /\ Got(r, x) # {},
         NEW c, Report(r, x, c), x > r.next => c # << >>,
         x = r.next => ~Full(r, x), NEW d, d = PushSn(r, c, x)
  PROVE  Report(r, x + 1, d) /\ d # << >>
  <1>1. PICK q : q = NacksOf(r, x)
    OBVIOUS
  <1>2. x \in Int
    OBVIOUS
  <1>3. UnitNacksOf(r, x, q) /\ (~Full(r, x) => q # << >>)
    BY <1>1, <1>2, NacksOfOK
  <1>4. q \in Seq(NackEntry) /\ Len(q) \in Nat /\ \A k \in 1 .. Len(q) : UnitNack(r, x, q[k])
    BY <1>3 DEF UnitNacksOf
  <1>5. PICK f : /\ f[0] = c
                 /\ \A i \in 1 .. Len(q) : f[i] = push_nack(f[i - 1], q[i])
                 /\ Loop(push_nack, c, q) = f[Len(q)]
    BY ONLY <1>4, PushNackLoop
  <1>6. d = f[Len(q)]
    BY <1>1, <1>5 DEF PushSn
  <1>7. Report(r, x + 1, c)
    BY <1>2, LongerReport
  <1> DEFINE Inv(i) == Report(r, x + 1, f[i]) /\ (c # << >> \/ i > 0 => f[i] # << >>)
             Bad == {i \in Nat : i <= Len(q) /\ ~Inv(i)}
  <1>8. Bad = {}
    <2>1. SUFFICES ASSUME Bad # {} PROVE FALSE
      OBVIOUS
    <2>2. PICK m \in Bad : \A k \in Bad : m <= k
      BY <2>1, Least
    <2>3. m \in Nat /\ m <= Len(q) /\ ~Inv(m)
      BY <2>2
    <2>4. CASE m = 0
      BY <2>3, <2>4, <1>5, <1>7
    <2>5. CASE m # 0
      <3>1. m - 1 \in Nat /\ m - 1 <= Len(q) /\ ~(m <= m - 1) /\ m \in 1 .. Len(q)
        BY <2>3, <2>5, <1>4
      <3>2. Inv(m - 1)
        BY <3>1, <2>2
      <3>3. PICK a : a = f[m - 1]
        OBVIOUS
      <3>4. Report(r, x + 1, a) /\ (a # << >> \/ x = r.next)
        BY <3>2, <3>3, <1>2
      <3>5. PICK b : b = f[m] /\ b = push_nack(a, q[m])
        BY <3>1, <3>3, <1>5
      <3>6. UnitNack(r, x, q[m])
        BY <3>1, <1>4
      <3>7. Report(r, x + 1, b) /\ b # << >>
        BY <3>4, <3>5, <3>6, PushedOK
      <3> QED
        BY <3>5, <3>7, <2>3
    <2> QED
      BY <2>4, <2>5
  <1>9. Inv(Len(q))
    BY <1>4, <1>8
  <1>10. c # << >> \/ Len(q) > 0
    <2>1. CASE x = r.next
      BY <2>1, <1>3, <1>4
    <2>2. CASE x > r.next
      BY <2>2
    <2> QED
      BY <2>1, <2>2, <1>2
  <1> QED
    BY <1>6, <1>9, <1>10

PushedSns(r, base, q) == LET push(c, sn) == PushSn(r, c, sn) IN Loop(push, base, q)

LEMMA PushSnLoop ==
  ASSUME NEW r, NEW base, NEW q, Len(q) \in Nat
  PROVE  \E f : /\ f[0] = base
                /\ \A i \in 1 .. Len(q) : f[i] = PushSn(r, f[i - 1], q[i])
                /\ PushedSns(r, base, q) = f[Len(q)]
  <1> DEFINE n == Len(q)
             Eq(f, m) == f = [i \in 0 .. m |-> IF i = 0 THEN base
                                               ELSE PushSn(r, f[i - 1], q[i])]
             Bad == {m \in Nat : ~ \E f : Eq(f, m)}
  <1>1. Bad = {}
    <2>1. SUFFICES ASSUME Bad # {} PROVE FALSE
      OBVIOUS
    <2>2. PICK m \in Bad : \A k \in Bad : m <= k
      BY <2>1, Least
    <2>3. CASE m = 0
      <3>1. Eq([i \in 0 .. 0 |-> base], 0)
        OBVIOUS
      <3> QED
        BY <3>1, <2>2, <2>3
    <2>4. CASE m # 0
      <3>1. m \in Nat
        BY <2>2
      <3>2. m - 1 \in Nat /\ ~(m <= m - 1)
        BY <3>1, <2>4
      <3>3. PICK f : Eq(f, m - 1)
        BY <3>2, <2>2
      <3> DEFINE g == [i \in 0 .. m |-> IF i = m THEN PushSn(r, f[m - 1], q[m]) ELSE f[i]]
      <3>4. Eq(g, m)
        BY <3>1, <3>2, <3>3
      <3> QED
        BY <3>4, <2>2
    <2> QED
      BY <2>3, <2>4
  <1>2. PICK f : f = CHOOSE g : Eq(g, n)
    OBVIOUS
  <1>3. Eq(f, n)
    BY <1>1, <1>2
  <1>4. PushedSns(r, base, q) = f[n]
    BY <1>2 DEF Loop, PushedSns
  <1> QED
    BY <1>3, <1>4

LEMMA GotSent ==
  ASSUME TxOK(tx), RxOK(rx), NEW sn, Has(rx, sn), sn \in Int
  PROVE  Got(rx, sn) # {} /\ Got(rx, sn) \subseteq 0 .. Sent(tx, sn) - 1 /\ Got(rx, sn) \subseteq Bytes
  <1>1. rx.window[sn] # {} /\ rx.window[sn] \subseteq (0 .. Sent(tx, sn) - 1) \X {sn}
    BY RxFacts DEF RxBytes, Has
  <1>2. Got(rx, sn) # {} /\ Got(rx, sn) \subseteq 0 .. Sent(tx, sn) - 1
    BY <1>1 DEF Got
  <1>3. TxType(tx) /\ TxWindow(tx)
    BY TxFacts
  <1>4. Sent(tx, sn) \in 0 .. Size
    BY <1>3, SentBounds
  <1> QED
    BY <1>2, <1>4, Constants DEF Bytes

\* The report of the receiver's window: a NACK for RX_Next first.
LEMMA RefreshedOK ==
  ASSUME IInv, NEW s, s = refresh_status_report(rx)
  PROVE  /\ s = [ack |-> s.upto % Mod, upto |-> s.upto, nacks |-> s.nacks]
         /\ s.upto \in rx.next .. rx.next_highest
         /\ Report(rx, s.upto, s.nacks) /\ (s.nacks = << >> => s.upto = rx.next)
  <1>1. /\ TxOK(tx) /\ RxOK(rx)
        /\ rx.next \in Int /\ rx.next_highest \in Int /\ rx.highest_status \in Int
        /\ rx.next <= rx.highest_status /\ rx.highest_status <= rx.next_highest
        /\ rx.next_highest <= rx.next + Window /\ ~Full(rx, rx.next)
    BY RxFacts DEF IInv, RxStatus
  <1>2. PICK x : x = IF RxBase(rx, rx.highest_status) > SnsPerStatus
                       THEN rx.next + SnsPerStatus ELSE rx.highest_status
    OBVIOUS
  <1>3. x \in rx.next .. rx.next_highest
    <2>1. rx.highest_status <= rx.next + Window
      BY <1>1, Constants
    <2>2. RxBase(rx, rx.highest_status) = rx.highest_status - rx.next
      BY <1>1, <2>1, RxAhead
    <2> QED
      BY <1>1, <1>2, <2>2, Constants
  <1>4. PICK n \in Nat : n = x - rx.next
    BY <1>1, <1>3
  <1>5. PICK q : q = [i \in 1 .. n |-> rx.next + i - 1]
    OBVIOUS
  <1>6. Len(q) = n /\ \A i \in 1 .. n : q[i] = rx.next + i - 1
    BY <1>4, <1>5
  <1>7. s = [ack |-> x % Mod, upto |-> x, nacks |-> PushedSns(rx, << >>, q)]
    BY <1>2, <1>4, <1>5 DEF refresh_status_report, PushedSns, PushSn
  <1>8. PICK f : /\ f[0] = << >>
                 /\ \A i \in 1 .. n : f[i] = PushSn(rx, f[i - 1], q[i])
                 /\ PushedSns(rx, << >>, q) = f[n]
    <2>1. Len(q) \in Nat
      BY <1>6
    <2>2. PICK e : e = << >>
      OBVIOUS
    <2>3. PICK r : r = rx
      OBVIOUS
    <2>4. PICK f : /\ f[0] = e
                   /\ \A i \in 1 .. Len(q) : f[i] = PushSn(r, f[i - 1], q[i])
                   /\ PushedSns(r, e, q) = f[Len(q)]
      BY ONLY <2>1, PushSnLoop
    <2> QED
      BY <2>2, <2>3, <2>4, <1>6
  <1> DEFINE Inv(i) == Report(rx, rx.next + i, f[i]) /\ (i > 0 => f[i] # << >>)
             Bad == {i \in Nat : i <= n /\ ~Inv(i)}
  <1>9. Bad = {}
    <2>1. SUFFICES ASSUME Bad # {} PROVE FALSE
      OBVIOUS
    <2>2. PICK m \in Bad : \A k \in Bad : m <= k
      BY <2>1, Least
    <2>3. m \in Nat /\ m <= n /\ ~Inv(m)
      BY <2>2
    <2>4. CASE m = 0
      <3>1. Report(rx, rx.next + 0, << >>)
        BY DEF Report
      <3> QED
        BY <3>1, <2>3, <2>4, <1>8
    <2>5. CASE m # 0
      <3>1. m - 1 \in Nat /\ m - 1 <= n /\ ~(m <= m - 1) /\ m \in 1 .. n
        BY <2>3, <2>5, <1>4
      <3>2. Inv(m - 1)
        BY <3>1, <2>2
      <3>3. PICK a : a = f[m - 1]
        OBVIOUS
      <3>4. PICK y \in Int : y = rx.next + (m - 1)
        BY <3>1, <1>1
      <3>5. /\ y \in rx.next .. rx.next + Window - 1
            /\ y > rx.next => m - 1 > 0
            /\ y + 1 = rx.next + m /\ q[m] = y
        <4>1. q[m] = rx.next + m - 1
          BY <3>1, <1>6
        <4>2. n <= Window /\ m <= n /\ m \in Int /\ m >= 1
          BY <3>1, <1>1, <1>3, <1>4, Constants
        <4> QED
          BY <4>1, <4>2, <3>4, <1>1, <1>4, Constants
      <3>6. Report(rx, y, a) /\ (y > rx.next => a # << >>)
        BY <3>1, <3>2, <3>3, <3>4, <1>1
      <3>7. PICK b : b = f[m] /\ b = PushSn(rx, a, y)
        BY <3>1, <3>3, <3>5, <1>8
      <3>8. Has(rx, y) => Got(rx, y) \subseteq Bytes /\ Got(rx, y) # {}
        BY <1>1, GotSent
      <3>9. y = rx.next => ~Full(rx, y)
        BY <1>1
      <3>10. Report(rx, y + 1, b) /\ b # << >>
        BY <3>5, <3>6, <3>7, <3>8, <3>9, <1>1, PushSnOK
      <3> QED
        BY <3>5, <3>7, <3>10, <2>3
    <2> QED
      BY <2>4, <2>5
  <1>10. Inv(n)
    BY <1>4, <1>9
  <1>11. Report(rx, x, f[n]) /\ (f[n] = << >> => x = rx.next)
    <2>1. rx.next + n = x
      BY <1>1, <1>3, <1>4
    <2>2. n = 0 \/ n > 0
      BY <1>4
    <2> QED
      BY <2>1, <2>2, <1>1, <1>10
  <1>12. s.upto = x /\ s.nacks = f[n] /\ s = [ack |-> x % Mod, upto |-> x, nacks |-> f[n]]
    BY <1>7, <1>8
  <1> QED
    BY <1>3, <1>11, <1>12

\* A STATUS PDU made of NACKs of the report, up to SN y.
LEMMA ReportedStatus ==
  ASSUME IInv, NEW y \in rx.next .. rx.next_highest, NEW c \in Seq(NackEntry),
         \A k \in 1 .. Len(c) : ReportNack(rx, rx.next_highest, c[k]) /\ At(rx, c[k]) <= y,
         c # << >> => At(rx, c[1]) = rx.next, c = << >> => y = rx.next,
         NEW s, s = [ack |-> y % Mod, upto |-> y, nacks |-> c]
  PROVE  StatusOK(s)
  <1>1. /\ TxOK(tx) /\ RxOK(rx) /\ EdgeInv /\ TxType(tx) /\ TxWindow(tx)
        /\ rx.next \in Int /\ rx.next_highest \in Int /\ rx.next_highest <= rx.next + Window
        /\ tx.next_ack \in Int /\ Top(tx) \in Int /\ tx.next_ack <= rx.next
        /\ rx.next_highest <= Top(tx) /\ RxWindow(rx)
    BY RxFacts, TxFacts DEF IInv, EdgeInv
  <1>2. s.ack = y % Mod /\ s.upto = y /\ s.nacks = c /\ y \in Int
    BY <1>1
  <1>3. ASSUME NEW k \in 1 .. Len(c)
        PROVE  /\ NackSn(s, c[k]) = At(rx, c[k]) /\ At(rx, c[k]) \in Int
               /\ At(rx, c[k]) >= rx.next /\ y - Window <= At(rx, c[k])
               /\ NackOK(c[k], At(rx, c[k]), y)
    <2>1. PICK n : n = c[k]
      OBVIOUS
    <2>2. n \in NackEntry /\ ReportNack(rx, rx.next_highest, n) /\ At(rx, n) <= y
      BY <2>1
    <2>3. PICK a \in Int : a = At(rx, n)
      BY <2>2, <1>1, AtInt
    <2>12. rx.next <= a /\ a <= y /\ a + n.range <= rx.next_highest
      BY <2>2, <2>3 DEF ReportNack
    <2>4. /\ n.sn = a % Mod
          /\ n.so_start < Size /\ n.so_end <= Size
          /\ n.range = 1 => n.so_start <= n.so_end
          /\ Has(rx, a + n.range - 1) =>
               /\ n.has_so
               /\ \/ \E g \in Got(rx, a + n.range - 1) : n.so_end < g
                  \/ n.range = 1 /\ n.so_start > 0 /\ n.so_end = Size
      BY <2>2, <2>3 DEF ReportNack
    <2>5. n.range \in Nat /\ n.range >= 1 /\ n.so_end \in Nat
      BY <2>2 DEF NackEntry
    <2>6. NackSn(s, n) = a
      <3>1. ((y % Mod) - (a % Mod)) % Mod = (y - a) % Mod
        BY <1>2, FieldBoth
      <3>2. y - a \in Int /\ y - a >= 0 /\ y - a < Mod /\ y - a >= -Mod
        BY <2>12, <1>1, <1>2, Constants
      <3>3. (y - a) % Mod = y - a
        BY <3>2, Near
      <3> QED
        BY <3>1, <3>2, <3>3, <2>4, <1>2 DEF NackSn
    <2>7. ASSUME a + n.range - 1 < y, a + n.range - 1 = tx.segmented
          PROVE  /\ n.has_so
                 /\ \/ n.so_end < Sent(tx, tx.segmented)
                    \/ n.range = 1 /\ n.so_start > 0 /\ n.so_end = Size
      <3>1. PICK x \in Int : x = a + n.range - 1
        BY <2>5
      <3>2. tx.segmented = tx.next /\ Top(tx) = tx.next + 1 /\ tx.next \in Int /\ x = tx.next
        BY <3>1, <2>7, <1>1, TxFacts, Constants
      <3>3. x = rx.next_highest - 1 /\ rx.next_highest # rx.next
        <4>1. x < y /\ y <= rx.next_highest /\ rx.next_highest <= x + 1 /\ rx.next <= x
          <5>1. x < y
            BY <3>1, <2>7
          <5>2. y <= rx.next_highest
            BY <1>1
          <5>3. rx.next_highest <= x + 1
            BY <3>2, <1>1
          <5>4. rx.next <= x
            BY ONLY <3>1, <2>5, <2>12, <1>1, a \in Int
          <5> QED
            BY <5>1, <5>2, <5>3, <5>4
        <4> QED
          BY <4>1, <3>1, <1>1, <1>2
      <3>4. Has(rx, x)
        BY <3>3, <1>1 DEF RxWindow
      <3>5. Got(rx, x) \subseteq 0 .. Sent(tx, x) - 1
        BY <3>1, <3>4, <1>1, GotSent
      <3>6. Sent(tx, x) \in Int
        BY <1>1, SentBounds, Constants
      <3>7. ASSUME NEW g \in Got(rx, x), n.so_end < g PROVE n.so_end < Sent(tx, x)
        BY <3>5, <3>6, <3>7, <2>5
      <3> QED
        BY <3>1, <3>2, <3>4, <3>7, <2>4
    <2>8. n.range <= Window
      BY <2>5, <2>12, <1>1, Constants
    <2>9. a + n.range - 1 < y /\ a + n.range - 1 = tx.segmented =>
            /\ n.has_so
            /\ \/ n.so_end < Sent(tx, tx.segmented)
               \/ n.range = 1 /\ n.so_start > 0 /\ n.so_end = Size
      BY <2>7
    <2>10. NackOK(n, a, y)
      BY <2>2, <2>4, <2>8, <2>9 DEF NackOK
    <2>11. y - Window <= a
      BY <2>12, <1>1, <1>2, Constants
    <2> QED
      BY <2>1, <2>3, <2>6, <2>10, <2>11, <2>12
  <1>4. y <= Top(tx) /\ y > tx.next_ack - Window
    BY <1>1, <1>2, Constants
  <1>5. c = << >> => y <= rx.next
    BY <1>1
  <1>6. c # << >> => 1 \in 1 .. Len(c)
    OBVIOUS
  <1>7. c # << >> => NackSn(s, c[1]) <= rx.next
    BY <1>1, <1>3, <1>6
  <1>8. ASSUME NEW k \in 1 .. Len(c)
        PROVE  /\ y - Window <= NackSn(s, c[k])
               /\ NackSn(s, c[1]) <= NackSn(s, c[k])
               /\ NackOK(c[k], NackSn(s, c[k]), y)
    <2>1. c # << >>
      OBVIOUS
    <2> QED
      BY <2>1, <1>3, <1>6
  <1> QED
    BY <1>2, <1>4, <1>5, <1>7, <1>8 DEF StatusOK

LEMMA TrimmedOK ==
  ASSUME IInv, NEW s, s = refresh_status_report(rx), NEW n \in 0 .. Len(s.nacks),
         NEW u, u = trim(s, n)
  PROVE  StatusOK(u)
  <1>1. /\ s = [ack |-> s.upto % Mod, upto |-> s.upto, nacks |-> s.nacks]
        /\ s.upto \in rx.next .. rx.next_highest
        /\ Report(rx, s.upto, s.nacks) /\ (s.nacks = << >> => s.upto = rx.next)
    BY RefreshedOK
  <1>2. PICK c : c = s.nacks
    OBVIOUS
  <1>3. PICK y \in Int : y = s.upto
    BY <1>1
  <1>4. rx.next \in Int /\ rx.next_highest \in Int /\ rx.next_highest <= rx.next + Window
    BY RxFacts DEF IInv
  <1>5. /\ c \in Seq(NackEntry)
        /\ \A k \in 1 .. Len(c) : ReportNack(rx, y, c[k])
        /\ \A j, k \in 1 .. Len(c) : j <= k => At(rx, c[j]) <= At(rx, c[k])
        /\ c # << >> => At(rx, c[1]) = rx.next
        /\ y \in rx.next .. rx.next_highest /\ s.ack = y % Mod
    BY <1>1, <1>2, <1>3 DEF Report
  <1>6. ASSUME NEW k \in 1 .. Len(c)
        PROVE  /\ ReportNack(rx, rx.next_highest, c[k]) /\ At(rx, c[k]) <= y
               /\ At(rx, c[k]) \in Int /\ At(rx, c[k]) >= rx.next
               /\ c[k].sn = At(rx, c[k]) % Mod
    <2>1. c[k] \in NackEntry /\ ReportNack(rx, y, c[k])
      BY <1>5
    <2>2. PICK a \in Int : a = At(rx, c[k])
      BY <2>1, <1>4, AtInt
    <2>3. c[k].range \in Nat /\ c[k].range >= 1
      BY <2>1 DEF NackEntry
    <2>4. a + c[k].range <= y /\ a >= rx.next /\ c[k].sn = a % Mod
      BY <2>1, <2>2 DEF ReportNack
    <2>5. a + c[k].range <= rx.next_highest /\ a <= y
      BY <2>3, <2>4, <1>4, <1>5
    <2>6. ReportNack(rx, rx.next_highest, c[k])
      BY <2>1, <2>2, <2>5 DEF ReportNack
    <2> QED
      BY <2>2, <2>4, <2>5, <2>6
  <1>7. CASE n >= Len(c)
    <2>1. u = [ack |-> y % Mod, upto |-> y, nacks |-> c]
      BY <1>1, <1>2, <1>3, <1>7 DEF trim
    <2>2. c = << >> => y = rx.next
      BY <1>1, <1>2, <1>3
    <2> QED
      BY <2>1, <2>2, <1>5, <1>6, ReportedStatus
  <1>8. CASE n < Len(c)
    <2> DEFINE Cut(k) == /\ k = 0 \/ c[k].sn # c[k + 1].sn
                         /\ \A l \in k + 1 .. n : c[l].sn = c[l + 1].sn
    <2>1. n \in Nat
      BY <1>2, <1>5
    <2>2. \E k \in 0 .. n : Cut(k)
      <3> DEFINE S == {d \in Nat : d <= n /\ (n - d = 0 \/ c[n - d].sn # c[n - d + 1].sn)}
      <3>1. n \in S
        BY <2>1
      <3>2. PICK d \in S : \A m \in S : d <= m
        BY <3>1, Least
      <3>3. PICK k \in 0 .. n : k = n - d
        BY <3>2, <2>1
      <3>4. k = 0 \/ c[k].sn # c[k + 1].sn
        BY <3>2, <3>3
      <3>5. ASSUME NEW l \in k + 1 .. n PROVE c[l].sn = c[l + 1].sn
        <4>1. PICK m \in Nat : m = n - l /\ m <= n /\ m < d
          BY <3>2, <3>3, <2>1
        <4>2. d \in Nat /\ ~(d <= m)
          BY <4>1, <3>2
        <4>3. m \notin S
          BY <4>2, <3>2
        <4>4. n - m = l /\ l # 0
          BY <4>1, <3>3, <2>1
        <4> QED
          BY <4>1, <4>3, <4>4
      <3> QED
        BY <3>4, <3>5
    <2>3. PICK k : k = CHOOSE j \in 0 .. n : Cut(j)
      OBVIOUS
    <2> HIDE DEF Cut
    <2>15. k \in 0 .. n
      BY <2>2, <2>3
    <2>4. k \in 0 .. n /\ k \in Nat /\ k + 1 \in 1 .. Len(c)
      BY <2>1, <2>15, <1>5, <1>8
    <2>5. PICK a \in Int : a = At(rx, c[k + 1])
      BY <2>4, <1>6
    <2>6. a \in rx.next .. rx.next_highest /\ a <= y /\ c[k + 1].sn = a % Mod
      BY <2>4, <2>5, <1>4, <1>5, <1>6
    <2>7. y - ((s.ack - c[k + 1].sn) % Mod) = a
      <3>1. ((y % Mod) - (a % Mod)) % Mod = (y - a) % Mod
        BY FieldBoth
      <3>2. y - a \in Int /\ y - a >= 0 /\ y - a < Mod /\ y - a >= -Mod
        BY <2>6, <1>4, <1>5, Constants
      <3>3. (y - a) % Mod = y - a
        BY <3>2, Near
      <3> QED
        BY <3>1, <3>2, <3>3, <2>6, <1>5
    <2>8. PICK d : d = SubSeq(c, 1, k)
      OBVIOUS
    <2>9. u = [ack |-> a % Mod, upto |-> a, nacks |-> d]
      <3>1. u = [ack |-> c[k + 1].sn, upto |-> y - ((s.ack - c[k + 1].sn) % Mod), nacks |-> d]
        <4>1. k = CHOOSE j \in 0 .. n :
                    /\ j = 0 \/ s.nacks[j].sn # s.nacks[j + 1].sn
                    /\ \A l \in j + 1 .. n : s.nacks[l].sn = s.nacks[l + 1].sn
          BY ONLY <2>3, <1>2 DEF Cut
        <4>2. ~(n >= Len(s.nacks))
          BY <2>1, <1>2, <1>5, <1>8
        <4>3. u = [ack |-> s.nacks[k + 1].sn, upto |-> s.upto - ((s.ack - s.nacks[k + 1].sn) % Mod),
                   nacks |-> SubSeq(s.nacks, 1, k)]
          BY ONLY <4>1, <4>2, u = trim(s, n) DEF trim
        <4> QED
          BY ONLY <4>3, <2>8, <1>2, <1>3
      <3> QED
        BY <3>1, <2>6, <2>7
    <2>10. d \in Seq(NackEntry) /\ Len(d) = k /\ \A j \in 1 .. k : d[j] = c[j]
      BY <2>4, <2>8, <1>5
    <2>11. \A j \in 1 .. Len(d) : ReportNack(rx, rx.next_highest, d[j]) /\ At(rx, d[j]) <= a
      <3>1. SUFFICES ASSUME NEW j \in 1 .. k
                     PROVE  ReportNack(rx, rx.next_highest, c[j]) /\ At(rx, c[j]) <= a
        BY <2>10
      <3>2. j \in 1 .. Len(c) /\ j <= k + 1
        BY <2>4
      <3> QED
        BY <3>2, <2>4, <2>5, <1>5, <1>6
    <2>12. c # << >> /\ At(rx, c[1]) = rx.next
      BY <2>4, <1>5
    <2>13. d = << >> => a = rx.next
      BY <2>4, <2>5, <2>10, <2>12
    <2>14. d # << >> => At(rx, d[1]) = rx.next
      BY <2>4, <2>10, <2>12
    <2> QED
      BY <2>6, <2>9, <2>10, <2>11, <2>13, <2>14, ReportedStatus
  <1> QED
    BY <1>2, <1>5, <1>7, <1>8

LEMMA StatusPduStep ==
  ASSUME IInv, get_status_pdu
  PROVE  IInv'
  <1>1. /\ rx' = [rx EXCEPT !.do_status = FALSE, !.prohibit = TRUE]
        /\ UNCHANGED <<tx, air, given, waived, delivered, reported, faults>>
    BY DEF get_status_pdu
  <1>2. PICK s : s = refresh_status_report(rx) /\
               \E n \in 0 .. Len(s.nacks) : statuses' = statuses \cup {trim(s, n)}
    BY DEF get_status_pdu
  <1>3. PICK n \in 0 .. Len(s.nacks) : statuses' = statuses \cup {trim(s, n)}
    BY <1>2
  <1>4. StatusOK(trim(s, n))
    BY <1>2, TrimmedOK
  <1>5. RxRecord(rx) /\ RxTrigger(rx) /\ rx.trigger \in Int \cup {None} /\ RxOK(rx)
    BY RxFacts DEF IInv, RxType
  <1>6. RxRecord(rx') /\ SameReceived(rx, rx') /\ rx'.trigger = rx.trigger
    BY ONLY <1>1, <1>5 DEF RxRecord, SameReceived
  <1>7. /\ rx'.next = rx.next /\ rx'.next_highest = rx.next_highest /\ rx'.window = rx.window
        /\ rx'.highest_status = rx.highest_status
    BY <1>6 DEF SameReceived
  <1>8. RxOK(rx)'
    BY <1>1, <1>5, <1>6, <1>7 DEF RxOK, RxType, RxWindow, RxStatus, RxTrigger, RxBytes, Has, Full, Got
  <1>9. StatusInv'
    <2>1. \A o \in statuses' : StatusOK(o)
      BY <1>3, <1>4 DEF IInv, StatusInv
    <2> QED
      BY <2>1, <1>1, <1>7 DEF StatusInv, StatusOK, NackOK
  <1>10. TxOK(tx)' /\ GivenInv' /\ EdgeInv' /\ PollInv' /\ faults' = {}
    BY <1>1, <1>7 DEF IInv, GivenInv, EdgeInv, PollInv
  <1>11. AirInv'
    BY <1>1, <1>7 DEF IInv, AirInv, PduOK
  <1>12. DeliveredInv'
    BY <1>1, <1>7 DEF IInv, DeliveredInv, Full, Has, Got
  <1> QED
    BY <1>8, <1>9, <1>10, <1>11, <1>12 DEF IInv

-----------------------------------------------------------------------------
(* The STATUS PDU at the transmitter.                                      *)

\* Where a STATUS PDU on the air is from TX_Next_Ack.
LEMMA StatusDistance ==
  ASSUME IInv, NEW s, StatusOK(s)
  PROVE  /\ s.upto \in Int
         /\ TxBase(tx, s.ack) = IF s.upto >= tx.next_ack THEN s.upto - tx.next_ack
                                ELSE s.upto - tx.next_ack + Mod
         /\ TxBase(tx, tx.next + 1) = tx.next + 1 - tx.next_ack
         /\ tx.next_ack - Window < s.upto /\ s.upto <= tx.next + 1
         /\ s.upto <= tx.next_ack + Window
  <1>1. /\ tx.next \in Int /\ tx.next_ack \in Int /\ tx.next_ack <= tx.next
        /\ Top(tx) \in Int /\ Top(tx) <= tx.next + 1 /\ tx.next <= Top(tx)
        /\ Top(tx) - tx.next_ack <= Window
    BY TxFacts DEF IInv
  <1>2. /\ s.upto \in Int /\ s.ack = s.upto % Mod /\ s.upto <= Top(tx)
        /\ s.upto > tx.next_ack - Window
    BY DEF StatusOK
  <1>3. s.upto - tx.next_ack >= -Mod /\ s.upto - tx.next_ack < Mod
    BY <1>1, <1>2, Constants
  <1>4. TxBase(tx, s.ack) = IF s.upto >= tx.next_ack THEN s.upto - tx.next_ack
                            ELSE s.upto - tx.next_ack + Mod
    BY <1>1, <1>2, <1>3, TxDistance
  <1>5. tx.next + 1 \in Int /\ tx.next + 1 >= tx.next_ack /\ tx.next + 1 <= tx.next_ack + Window + 1
    BY <1>1, Constants
  <1>6. TxBase(tx, tx.next + 1) = tx.next + 1 - tx.next_ack
    BY <1>1, <1>5, TxAhead
  <1> QED
    BY <1>1, <1>2, <1>4, <1>6, Constants

LEMMA IgnoredStep ==
  ASSUME IInv, NEW s \in statuses, UNCHANGED <<rx, air, given, delivered>>, IgnoreStatus(s)
  PROVE  IInv'
  <1>1. StatusOK(s)
    BY DEF IInv, StatusInv
  <1>2. ~(TxBase(tx, s.ack) \in 1 .. Window /\ StatusFault(tx, s))
    <2>1. SUFFICES ASSUME TxBase(tx, s.ack) \in 1 .. Window,
                          TxBase(tx, s.ack) > TxBase(tx, tx.next + 1)
                   PROVE  FALSE
      BY DEF StatusFault
    <2>2. tx.next \in Int /\ tx.next_ack \in Int
      BY TxFacts DEF IInv
    <2> QED
      BY <2>1, <2>2, <1>1, StatusDistance, Constants
  <1>3. UNCHANGED <<tx, reported, waived, faults>> /\ statuses' \subseteq statuses
    BY <1>2 DEF IgnoreStatus
  <1>4. TxOK(tx)' /\ RxOK(rx)' /\ GivenInv' /\ EdgeInv'
    BY <1>3 DEF IInv, GivenInv, EdgeInv, RxOK, RxType, RxWindow, RxStatus, RxTrigger,
                RxBytes, Has, Full, Got
  <1>5. AirInv'
    BY <1>3 DEF IInv, AirInv, PduOK
  <1>6. StatusInv'
    BY <1>3 DEF IInv, StatusInv, StatusOK, NackOK
  <1>7. DeliveredInv' /\ PollInv' /\ faults' = {}
    BY <1>3 DEF IInv, DeliveredInv, PollInv, Full, Has, Got
  <1> QED
    BY <1>4, <1>5, <1>6, <1>7 DEF IInv

\* The NACKs of a STATUS PDU that is accepted are of SNs from TX_Next_Ack to
\* below its ACK_SN.
LEMMA AcceptedNack ==
  ASSUME IInv, NEW s, StatusOK(s), StatusAccepted(tx, s), NEW k \in 1 .. Len(s.nacks),
         NEW n, n = s.nacks[k]
  PROVE  /\ NackSn(s, n) \in Int /\ NackSn(s, n) >= tx.next_ack
         /\ n.range \in Nat /\ n.range >= 1
         /\ NackSn(s, n) + n.range - 1 < s.upto
         /\ n.sn = NackSn(s, n) % Mod
  <1>1. tx.next \in Int /\ tx.next_ack \in Int
    BY TxFacts DEF IInv
  <1>2. /\ s.upto \in Int /\ s.upto <= tx.next_ack + Window
        /\ TxBase(tx, s.ack) = IF s.upto >= tx.next_ack THEN s.upto - tx.next_ack
                               ELSE s.upto - tx.next_ack + Mod
        /\ tx.next_ack - Window < s.upto
    BY StatusDistance
  <1>3. TxBase(tx, s.ack) \in 1 .. Window /\ valid_nack(tx, s.ack, n)
    BY DEF StatusAccepted
  <1>4. s.upto > tx.next_ack /\ TxBase(tx, s.ack) = s.upto - tx.next_ack
    BY <1>1, <1>2, <1>3, Constants
  <1>5. n \in NackEntry /\ NackOK(n, NackSn(s, n), s.upto)
    BY DEF StatusOK
  <1>6. PICK a \in Int : a = NackSn(s, n) /\ a <= s.upto /\ s.upto - Window <= a
    <2>1. s.ack \in Int
      <3>1. s.ack = s.upto % Mod
        BY DEF StatusOK
      <3> QED
        <4>1. s.upto \in Int
          BY <1>2
        <4>2. s.upto % Mod \in 0 .. Mod - 1
          BY <4>1, DivMod
        <4> QED
          BY <3>1, <4>2, Constants
    <2>2. n.sn \in Int
      BY <1>5 DEF NackEntry
    <2>3. s.ack - n.sn \in Int
      BY <2>1, <2>2
    <2>4. (s.ack - n.sn) % Mod \in 0 .. Mod - 1
      BY <2>3, DivMod
    <2>5. s.upto - Window <= NackSn(s, n)
      BY DEF StatusOK
    <2> QED
      BY <2>4, <2>5, <1>2, Constants DEF NackSn
  <1>7. n.range <= Window /\ n.range \in Nat /\ n.range >= 1
    BY <1>5 DEF NackOK, NackEntry
  <1>8. n.sn = a % Mod
    BY <1>5, <1>6 DEF NackOK
  <1>9. TxBase(tx, n.sn) < s.upto - tx.next_ack
        /\ TxBase(tx, n.sn + n.range - 1) < s.upto - tx.next_ack
    BY <1>3, <1>4 DEF valid_nack
  <1>10. TxBase(tx, n.sn) = IF a >= tx.next_ack THEN a - tx.next_ack
                            ELSE a - tx.next_ack + Mod
    <2>1. a - tx.next_ack >= -Mod /\ a - tx.next_ack < Mod
      BY <1>1, <1>2, <1>4, <1>6, Constants
    <2> QED
      BY <2>1, <1>1, <1>8, TxDistance
  <1>11. a >= tx.next_ack /\ a < s.upto
    BY <1>1, <1>2, <1>4, <1>6, <1>9, <1>10, Constants
  <1>12. a + n.range - 1 < s.upto
    <2>8. PICK e \in Int, R \in Int, U \in Int :
            /\ e = tx.next_ack /\ R = n.range /\ U = s.upto
            /\ R <= Window /\ R >= 1 /\ U <= e + Window /\ a >= e /\ a < U
      BY <1>1, <1>2, <1>7, <1>11
    <2>1. PICK d \in Int : d = R - 1 - e
      BY <2>8
    <2>2. TxBase(tx, n.sn + n.range - 1) = ((a % Mod) + d) % Mod
      <3>1. n.sn \in Int
        BY <1>5 DEF NackEntry
      <3>2. PICK m \in Int : m = n.sn /\ m = a % Mod
        BY <3>1, <1>8
      <3>3. m + R - 1 - e = m + d
        BY <2>1, <2>8
      <3> QED
        BY ONLY <3>2, <3>3, <2>8 DEF TxBase
    <2>3. ((a % Mod) + d) % Mod = (a + d) % Mod
      BY FieldLeft
    <2>4. a + d \in Int /\ a + d >= 0 /\ a + d < Mod /\ a + d >= -Mod
      <3>1. a - e >= 0 /\ a - e <= Window - 1 /\ R - 1 >= 0 /\ R - 1 <= Window - 1
        <4>0. Window \in Int
          BY Constants
        <4>1. a - e >= 0
          BY <2>8
        <4>2. a - e <= Window - 1
          BY <2>8, <4>0
        <4>3. R - 1 >= 0
          BY <2>8
        <4>4. R - 1 <= Window - 1
          BY <2>8, <4>0
        <4> QED
          BY <4>1, <4>2, <4>3, <4>4
      <3>2. a + d = (a - e) + (R - 1)
        BY <2>1
      <3> QED
        BY <3>1, <3>2, Constants
    <2>5. (a + d) % Mod = a + d
      BY <2>4, Near
    <2>6. TxBase(tx, n.sn + n.range - 1) = a + d
      BY <2>2, <2>3, <2>5
    <2>7. a + d < U - e
      BY <2>6, <2>8, <1>9
    <2>9. a + R - 1 < U
      BY <2>1, <2>7
    <2> QED
      BY <2>8, <2>9
  <1> QED
    BY <1>6, <1>7, <1>8, <1>11, <1>12

\* The first SN that a STATUS PDU leaves unacknowledged.
First(s) == IF s.nacks = << >> THEN s.upto ELSE NackSn(s, s.nacks[1])

LEMMA FirstBounds ==
  ASSUME IInv, NEW s, StatusOK(s), StatusAccepted(tx, s)
  PROVE  /\ First(s) \in Int /\ tx.next_ack <= First(s) /\ First(s) <= s.upto
         /\ First(s) <= rx.next /\ s.upto > tx.next_ack
         /\ TxBase(tx, s.ack) = s.upto - tx.next_ack
         /\ TxSn(tx, IF s.nacks = << >> THEN s.ack ELSE s.nacks[1].sn) = First(s)
         /\ s.nacks # << >> => First(s) < s.upto
  <1>1. tx.next \in Int /\ tx.next_ack \in Int
    BY TxFacts DEF IInv
  <1>2. /\ s.upto \in Int /\ s.upto <= tx.next_ack + Window
        /\ TxBase(tx, s.ack) = IF s.upto >= tx.next_ack THEN s.upto - tx.next_ack
                               ELSE s.upto - tx.next_ack + Mod
        /\ tx.next_ack - Window < s.upto
    BY StatusDistance
  <1>3. TxBase(tx, s.ack) \in 1 .. Window
    BY DEF StatusAccepted
  <1>4. s.upto > tx.next_ack /\ TxBase(tx, s.ack) = s.upto - tx.next_ack
    BY <1>1, <1>2, <1>3, Constants
  <1>5. CASE s.nacks = << >>
    <2>1. First(s) = s.upto /\ s.upto <= rx.next
      BY <1>5 DEF First, StatusOK
    <2>2. TxSn(tx, s.ack) = s.upto
      BY <1>1, <1>2, <1>4 DEF TxSn
    <2> QED
      BY <2>1, <2>2, <1>1, <1>2, <1>4, <1>5
  <1>6. CASE s.nacks # << >>
    <2>1. 1 \in 1 .. Len(s.nacks)
      BY <1>6 DEF StatusOK
    <2>2. PICK n : n = s.nacks[1]
      OBVIOUS
    <2>3. PICK a : a = NackSn(s, n)
      OBVIOUS
    <2>4. /\ a \in Int /\ a >= tx.next_ack /\ n.range \in Nat /\ n.range >= 1
          /\ a + n.range - 1 < s.upto /\ n.sn = a % Mod
      BY <2>1, <2>2, <2>3, AcceptedNack
    <2>5. First(s) = a /\ a <= rx.next
      BY <2>2, <2>3, <1>6 DEF First, StatusOK
    <2>6. a < s.upto /\ a <= tx.next_ack + Window + 1
      BY <2>4, <1>1, <1>2, Constants
    <2>7. TxBase(tx, a % Mod) = a - tx.next_ack
      BY <2>4, <2>6, <1>1, TxAhead
    <2>8. TxSn(tx, n.sn) = a
      BY <2>4, <2>7, <1>1 DEF TxSn
    <2> QED
      BY <2>2, <2>4, <2>5, <2>6, <2>8, <1>1, <1>2, <1>4, <1>6
  <1> QED
    BY <1>5, <1>6

\* The SDUs below the first SN left unacknowledged leave the window.
LEMMA AcknowledgedOK ==
  ASSUME IInv, NEW s, StatusOK(s), StatusAccepted(tx, s), NEW a, a = Acknowledged(tx, s)
  PROVE  /\ TxType(a) /\ TxWindow(a) /\ a.next_ack = First(s)
         /\ a.next = tx.next /\ a.segmented = tx.segmented /\ a.queue = tx.queue
         /\ a.retx = tx.retx /\ a.poll_sn = tx.poll_sn
         /\ a.segmented # None => a.window[a.next].next_so = tx.window[tx.next].next_so
         /\ a.poll_timer = (tx.poll_timer /\ ~(TxBase(tx, tx.poll_sn) < s.upto - tx.next_ack))
  <1>1. /\ TxRecord(tx) /\ tx.next \in Int /\ tx.next_ack \in Int /\ tx.next_ack <= tx.next
        /\ Top(tx) \in Int /\ tx.next <= Top(tx) /\ Top(tx) - tx.next_ack <= Window
        /\ tx.segmented \in {None, tx.next} /\ TxType(tx) /\ TxWindow(tx)
        /\ Top(tx) = (IF tx.segmented = None THEN tx.next ELSE tx.next + 1)
        /\ tx.window \in [tx.next_ack .. Top(tx) - 1 -> Entry]
        /\ DOMAIN tx.window = tx.next_ack .. Top(tx) - 1 /\ Start <= tx.next_ack
        /\ rx.next <= tx.next /\ rx.next \in Int
    BY TxFacts, RxFacts DEF IInv, EdgeInv
  <1>2. PICK F \in Int :
          /\ F = First(s) /\ tx.next_ack <= F /\ F <= rx.next
          /\ TxSn(tx, IF s.nacks = << >> THEN s.ack ELSE s.nacks[1].sn) = F
          /\ TxBase(tx, s.ack) = s.upto - tx.next_ack
    BY FirstBounds
  <1>3. F <= tx.next
    BY <1>1, <1>2
  <1> DEFINE Acked(sn) == /\ sn = F \/ ~Has(tx, sn)
                          /\ \A k \in tx.next_ack .. sn - 1 : Has(tx, k)
  <1>4. \A k \in tx.next_ack .. F - 1 : Has(tx, k)
    BY <1>1, <1>3 DEF Has
  <1>5. F = CHOOSE sn \in tx.next_ack .. F : Acked(sn)
    <2>1. F \in tx.next_ack .. F /\ Acked(F)
      BY <1>1, <1>2, <1>4
    <2>2. ASSUME NEW sn \in tx.next_ack .. F, Acked(sn) PROVE sn = F
      BY <2>2, <1>1, <1>4
    <2> HIDE DEF Acked
    <2>3. PICK c : c = CHOOSE sn \in tx.next_ack .. F : Acked(sn)
      OBVIOUS
    <2>4. c \in tx.next_ack .. F /\ Acked(c)
      BY <2>1, <2>3
    <2>5. c = F
      BY <2>2, <2>4
    <2> QED
      BY <2>3, <2>5
  <1>6. PICK w : w = [sn \in DOMAIN tx.window \ (tx.next_ack .. F - 1) |-> tx.window[sn]]
    OBVIOUS
  <1>7. PICK b \in BOOLEAN :
          b = (tx.poll_timer /\ ~(TxBase(tx, tx.poll_sn) < s.upto - tx.next_ack))
    OBVIOUS
  <1>8. a = [tx EXCEPT !.next_ack = F, !.window = w, !.poll_timer = b]
    <2>1. PICK e : e = TxSn(tx, IF s.nacks = << >> THEN s.ack ELSE s.nacks[1].sn)
      OBVIOUS
    <2>2. e = F
      BY <1>2, <2>1
    <2>3. F = CHOOSE sn \in tx.next_ack .. e : /\ sn = e \/ ~Has(tx, sn)
                                               /\ \A k \in tx.next_ack .. sn - 1 : Has(tx, k)
      BY ONLY <2>2, <1>5
    <2>4. a = [tx EXCEPT !.next_ack = F, !.window = w,
                 !.poll_timer = @ /\ ~(TxBase(tx, tx.poll_sn) < TxBase(tx, s.ack))]
      BY ONLY <2>1, <2>3, <1>6, a = Acknowledged(tx, s) DEF Acknowledged
    <2> QED
      BY ONLY <2>4, <1>2, <1>7
  <1>9. /\ TxRecord(a) /\ a.next_ack = F /\ a.window = w /\ a.poll_timer = b
        /\ a.next = tx.next /\ a.segmented = tx.segmented /\ a.queue = tx.queue
        /\ a.retx = tx.retx /\ a.poll_sn = tx.poll_sn
    BY ONLY <1>1, <1>8 DEF TxRecord
  <1>10. Top(a) = Top(tx)
    BY <1>9 DEF Top
  <1>11. w \in [F .. Top(tx) - 1 -> Entry] /\ \A k \in F .. Top(tx) - 1 : w[k] = tx.window[k]
    <2>1. (tx.next_ack .. Top(tx) - 1) \ (tx.next_ack .. F - 1) = F .. Top(tx) - 1
      BY <1>1, <1>2
    <2> QED
      BY <2>1, <1>1, <1>2, <1>6
  <1>12. tx.segmented # None => tx.next \in F .. Top(tx) - 1
    BY <1>1, <1>3
  <1>13. tx.segmented # None => a.window[a.next].next_so = tx.window[tx.next].next_so
    BY <1>9, <1>11, <1>12
  <1>14. TxType(a)
    BY <1>1, <1>9, <1>10, <1>11 DEF TxType
  <1>15. TxWindow(a)
    <2>1. tx.segmented # None => tx.window[tx.next].next_so \in 1 .. Size - 1
      BY <1>1 DEF TxWindow
    <2>2. Start <= F /\ F <= tx.next /\ Top(tx) - F <= Window
      BY <1>1, <1>2, <1>3, Constants
    <2> QED
      BY <2>1, <2>2, <1>9, <1>10, <1>13 DEF TxWindow
  <1> QED
    BY <1>2, <1>7, <1>9, <1>13, <1>14, <1>15

\* The transmitter but for its retransmissions and their counts.
SameButRetx(t, u) ==
  /\ SameSent(t, u) /\ u.queue = t.queue /\ u.poll_timer = t.poll_timer
  /\ u.poll_sn = t.poll_sn /\ DOMAIN u.window = DOMAIN t.window

Lowered(f, x) == [f EXCEPT ![x].retx_count = @ - 1]

LEMMA LoweredCount ==
  ASSUME NEW t, TxType(t), TxWindow(t), NEW sn, NEW u, u = decrement_retx_count(t, sn)
  PROVE  TxType(u) /\ TxWindow(u) /\ SameButRetx(t, u) /\ u.retx = t.retx
  <1>1. CASE ~(Has(t, sn) /\ t.window[sn].retx_count # NotStarted)
    <2>1. u = t
      BY <1>1 DEF decrement_retx_count
    <2> QED
      BY <2>1 DEF SameButRetx, SameSent
  <1>2. CASE Has(t, sn) /\ t.window[sn].retx_count # NotStarted
    <2>1. /\ TxRecord(t) /\ t.window \in [t.next_ack .. Top(t) - 1 -> Entry]
          /\ sn \in t.next_ack .. Top(t) - 1
      BY <1>2, WindowSize DEF TxType, Has
    <2>2. PICK w : w = Lowered(t.window, sn)
      OBVIOUS
    <2>3. u = [t EXCEPT !.window[sn].retx_count = @ - 1]
      BY <1>2 DEF decrement_retx_count
    <2>4. /\ TxRecord(u) /\ u.queue = t.queue /\ u.next = t.next /\ u.next_ack = t.next_ack
          /\ u.window = w /\ u.segmented = t.segmented /\ u.retx = t.retx
          /\ u.poll_timer = t.poll_timer /\ u.poll_sn = t.poll_sn
      BY ONLY <2>1, <2>2, <2>3 DEF TxRecord, Lowered
    <2>5. /\ w \in [t.next_ack .. Top(t) - 1 -> Entry]
          /\ \A k \in t.next_ack .. Top(t) - 1 : w[k].next_so = t.window[k].next_so
      <3> DEFINE D == t.next_ack .. Top(t) - 1
      <3>1. PICK f : f = t.window /\ f \in [D -> Entry]
        BY <2>1
      <3>2. sn \in D
        BY <2>1
      <3> HIDE DEF D
      <3>3. PICK e : e = [f[sn] EXCEPT !.retx_count = f[sn].retx_count - 1]
        OBVIOUS
      <3>4. f[sn] \in Entry
        BY <3>1, <3>2
      <3>5. e \in Entry /\ e.next_so = f[sn].next_so
        BY ONLY <3>3, <3>4 DEF Entry
      <3>6. w = [f EXCEPT ![sn] = e]
        BY ONLY <2>2, <3>1, <3>3 DEF Lowered
      <3>7. w \in [D -> Entry] /\ \A k \in D : w[k].next_so = f[k].next_so
        BY ONLY <3>1, <3>2, <3>5, <3>6
      <3> QED
        BY <3>1, <3>7 DEF D
    <2>6. Top(u) = Top(t)
      BY <2>4 DEF Top
    <2>7. t.segmented # None => t.next \in t.next_ack .. Top(t) - 1
      BY DEF TxType, TxWindow, Top
    <2>8. SameSent(t, u)
      BY <2>4, <2>5, <2>7 DEF SameSent
    <2>9. TxType(u)
      BY <2>4, <2>5, <2>6 DEF TxType
    <2>10. TxWindow(u)
      BY <2>4, <2>5, <2>6, <2>7 DEF TxWindow
    <2>11. DOMAIN u.window = DOMAIN t.window
      BY <2>1, <2>4, <2>5
    <2> QED
      BY <2>4, <2>8, <2>9, <2>10, <2>11 DEF SameButRetx
  <1> QED
    BY <1>1, <1>2

LEMMA TakenBackOK ==
  ASSUME NEW t, TxType(t), TxWindow(t), NEW r, NEW u, u = TakenBack(t, r)
  PROVE  TxType(u) /\ TxWindow(u) /\ SameButRetx(t, u) /\ u.retx = t.retx
  <1>1. PICK v : v = IF t.retx_sn = r.sn THEN t ELSE decrement_retx_count(t, r.sn)
    OBVIOUS
  <1>2. TxType(v) /\ TxWindow(v) /\ SameButRetx(t, v) /\ v.retx = t.retx
    <2>1. CASE t.retx_sn = r.sn
      <3>1. v = t
        BY <1>1, <2>1
      <3> QED
        BY <3>1 DEF SameButRetx, SameSent
    <2>2. CASE t.retx_sn # r.sn
      <3>1. v = decrement_retx_count(t, r.sn)
        BY <1>1, <2>2
      <3> QED
        BY <3>1, LoweredCount
    <2> QED
      BY <2>1, <2>2
  <1>3. u = [v EXCEPT !.retx_sn = r.sn]
    BY <1>1 DEF TakenBack
  <1>4. TxRecord(v)
    BY <1>2 DEF TxType
  <1>5. /\ TxRecord(u) /\ u.queue = v.queue /\ u.next = v.next /\ u.next_ack = v.next_ack
        /\ u.window = v.window /\ u.segmented = v.segmented /\ u.retx = v.retx
        /\ u.poll_timer = v.poll_timer /\ u.poll_sn = v.poll_sn
    BY ONLY <1>3, <1>4 DEF TxRecord
  <1>6. Top(u) = Top(v)
    BY <1>5 DEF Top
  <1>7. TxType(u) /\ TxWindow(u)
    BY <1>2, <1>5, <1>6 DEF TxType, TxWindow
  <1>8. SameButRetx(t, u)
    BY <1>2, <1>5 DEF SameButRetx, SameSent
  <1> QED
    BY <1>2, <1>5, <1>7, <1>8

\* The retx_queue is emptied.
LEMMA ClearedOK ==
  ASSUME NEW t, TxType(t), TxWindow(t), NEW u, u = ClearRetx(t)
  PROVE  TxOK(u) /\ SameButRetx(t, u) /\ u.retx = << >>
  <1>1. PICK q : q = t.retx
    OBVIOUS
  <1>2. q \in Seq(RetxEntry) /\ Len(q) \in Nat
    BY <1>1 DEF TxType
  <1>3. PICK f : /\ f[0] = t
                 /\ \A i \in 1 .. Len(q) : f[i] = TakenBack(f[i - 1], q[i])
                 /\ Loop(TakenBack, t, q) = f[Len(q)]
    BY ONLY <1>2, TakenBackLoop
  <1> DEFINE Inv(i) == TxType(f[i]) /\ TxWindow(f[i]) /\ SameButRetx(t, f[i])
             Bad == {i \in Nat : i <= Len(q) /\ ~Inv(i)}
  <1>4. Bad = {}
    <2>1. SUFFICES ASSUME Bad # {} PROVE FALSE
      OBVIOUS
    <2>2. PICK m \in Bad : \A k \in Bad : m <= k
      BY <2>1, Least
    <2>3. m \in Nat /\ m <= Len(q) /\ ~Inv(m)
      BY <2>2
    <2>4. CASE m = 0
      BY <2>3, <2>4, <1>3 DEF SameButRetx, SameSent
    <2>5. CASE m # 0
      <3>1. m - 1 \in Nat /\ m - 1 <= Len(q) /\ ~(m <= m - 1) /\ m \in 1 .. Len(q)
        BY <2>3, <2>5, <1>2
      <3>2. Inv(m - 1)
        BY <3>1, <2>2
      <3>3. PICK a : a = f[m - 1]
        OBVIOUS
      <3>4. PICK b : b = f[m] /\ b = TakenBack(a, q[m])
        BY <3>1, <3>3, <1>3
      <3>5. TxType(b) /\ TxWindow(b) /\ SameButRetx(a, b)
        BY <3>2, <3>3, <3>4, TakenBackOK
      <3>6. SameButRetx(t, b)
        BY <3>2, <3>3, <3>5 DEF SameButRetx, SameSent
      <3> QED
        BY <3>4, <3>5, <3>6, <2>3
    <2> QED
      BY <2>4, <2>5
  <1>5. Inv(Len(q))
    BY <1>2, <1>4
  <1>6. PICK v : v = f[Len(q)]
    OBVIOUS
  <1>7. u = [v EXCEPT !.retx = << >>, !.retx_sn = None]
    BY <1>1, <1>3, <1>6 DEF ClearRetx
  <1>8. TxType(v) /\ TxWindow(v) /\ SameButRetx(t, v) /\ TxRecord(v)
    BY <1>5, <1>6 DEF TxType
  <1>9. /\ TxRecord(u) /\ u.queue = v.queue /\ u.next = v.next /\ u.next_ack = v.next_ack
        /\ u.window = v.window /\ u.segmented = v.segmented /\ u.retx = << >>
        /\ u.poll_timer = v.poll_timer /\ u.poll_sn = v.poll_sn
    BY ONLY <1>7, <1>8 DEF TxRecord
  <1>10. Top(u) = Top(v)
    BY <1>9 DEF Top
  <1>11. TxType(u) /\ TxWindow(u)
    BY <1>8, <1>9, <1>10 DEF TxType, TxWindow
  <1>12. TxRetx(u)
    BY <1>9, Constants DEF TxRetx
  <1>13. SameButRetx(t, u)
    BY <1>8, <1>9 DEF SameButRetx, SameSent
  <1> QED
    BY <1>9, <1>11, <1>12, <1>13 DEF TxOK

\* The SN and the bytes of it that one NACK asks t for, if it may.
AskedFor(t, u) ==
  /\ u.sn \in t.next_ack .. Top(t) - 1
  /\ u.from \in Nat /\ u.from < Size /\ u.to \in Nat /\ u.to <= Size
  /\ u.from <= u.to
  /\ u.sn = t.segmented => u.to = Size \/ u.to < Sent(t, u.sn)

\* What the loop over the NACKs carries.
CarryOK(t, c) ==
  /\ c = [t |-> c.t, prev |-> c.prev, reported |-> c.reported, faults |-> c.faults]
  /\ TxOK(c.t) /\ SameButRetx(t, c.t) /\ c.faults = {}

LEMMA LastByteOK ==
  ASSUME NEW t, TxOK(t), NEW u, AskedFor(t, u), ~Unsent(t, u), NEW e, e = LastByte(t, u)
  PROVE  e \in Nat /\ u.from <= e /\ e < Size /\ e + 1 <= Sent(t, u.sn)
  <1>1. /\ u.from \in Nat /\ u.from < Size /\ u.to \in Nat /\ u.to <= Size /\ u.from <= u.to
        /\ u.sn \in Int
        /\ u.sn = t.segmented => u.to = Size \/ u.to < Sent(t, u.sn)
    BY TxFacts DEF AskedFor
  <1>2. Sent(t, u.sn) \in 0 .. Size
    <2>1. TxType(t) /\ TxWindow(t)
      BY TxFacts
    <2> QED
      BY <2>1, <1>1, SentBounds
  <1>3. CASE UnderSegmentation(t, u)
    <2>1. u.sn = t.segmented /\ e = t.window[u.sn].next_so - 1
      BY <1>3 DEF UnderSegmentation, LastByte
    <2>2. Sent(t, u.sn) = t.window[u.sn].next_so
      BY <2>1 DEF Sent
    <2>3. ~(u.from >= t.window[u.sn].next_so)
      BY <1>3 DEF Unsent
    <2>4. PICK m \in Int : m = t.window[u.sn].next_so /\ m <= Size
      BY <2>2, <1>2, Constants
    <2> QED
      BY <2>1, <2>2, <2>3, <2>4, <1>1, Constants
  <1>4. CASE ~UnderSegmentation(t, u) /\ u.to = Size
    <2>1. u.sn # t.segmented /\ e = Size - 1
      BY <1>4 DEF UnderSegmentation, LastByte, EndOfSdu
    <2>2. Sent(t, u.sn) = Size
      BY <2>1 DEF Sent
    <2> QED
      BY <2>1, <2>2, <1>1, Constants
  <1>5. CASE ~UnderSegmentation(t, u) /\ u.to # Size
    <2>1. e = u.to
      BY <1>5 DEF LastByte, EndOfSdu
    <2>2. u.sn # t.segmented => Sent(t, u.sn) = Size
      BY DEF Sent
    <2>3. u.to < Size
      BY <1>1, <1>5, Constants
    <2>4. u.to < Sent(t, u.sn)
      BY <2>2, <2>3, <1>1, <1>5
    <2> QED
      BY <2>1, <2>3, <2>4, <1>1, <1>2, Constants
  <1> QED
    BY <1>3, <1>4, <1>5

\* The state after a retransmission of sent bytes of SN sn is queued.
Pushed(t, r, sn, count) ==
  LET t1 == [t EXCEPT !.retx = Append(@, r)]
  IN IF count THEN increment_retx_count(t1, sn) ELSE t1

LEMMA PushedRetx ==
  ASSUME NEW t, TxOK(t), NEW r \in RetxEntry, RetxOK(t, r), Len(t.retx) < Window,
         NEW sn, sn = r.sn, NEW count, NEW u, u = Pushed(t, r, sn, count)
  PROVE  TxOK(u) /\ SameButRetx(t, u) /\ u.retx # << >>
  <1>1. PICK v : v = [t EXCEPT !.retx = Append(t.retx, r)]
    OBVIOUS
  <1>2. /\ TxOK(v) /\ SameSent(t, v) /\ v.queue = t.queue /\ v.retx = Append(t.retx, r)
        /\ v.poll_timer = t.poll_timer /\ v.poll_sn = t.poll_sn
        /\ v.window = t.window /\ Top(v) = Top(t)
    BY <1>1, QueuedRetx
  <1>3. v.retx # << >> /\ SameButRetx(t, v)
    <2>1. PICK q : q = t.retx /\ q \in Seq(RetxEntry)
      BY TxFacts
    <2>2. Append(q, r) # << >>
      BY ONLY <2>1, r \in RetxEntry
    <2>3. v.retx # << >>
      BY <2>1, <2>2, <1>2
    <2>4. DOMAIN v.window = DOMAIN t.window
      BY <1>2
    <2> QED
      BY <2>3, <2>4, <1>2 DEF SameButRetx
  <1>4. u = v \/ u = increment_retx_count(v, sn)
    BY <1>1 DEF Pushed
  <1>5. CASE u = v
    BY <1>2, <1>3, <1>5
  <1>6. CASE u = increment_retx_count(v, sn)
    <2>1. sn \in v.next_ack .. Top(v) - 1
      BY <1>2 DEF RetxOK, SameSent
    <2>2. /\ TxOK(u) /\ SameSent(v, u) /\ u.queue = v.queue /\ u.retx = v.retx
          /\ u.poll_timer = v.poll_timer /\ u.poll_sn = v.poll_sn
          /\ DOMAIN u.window = DOMAIN v.window
      BY <2>1, <1>2, <1>6, CountedRetx
    <2> QED
      BY <2>2, <1>2, <1>3 DEF SameButRetx, SameSent
  <1> QED
    BY <1>4, <1>5, <1>6

\* The state that handle_nack carries on after a retransmission was queued.
CarriedOn(c, t2, sn, more) ==
  [c EXCEPT !.t = t2, !.prev = sn, !.reported = @ \/ more]

LEMMA HandledNack ==
  ASSUME NEW t, NEW c, CarryOK(t, c), NEW u, AskedFor(c.t, u), NEW d, d = handle_nack(c, u)
  PROVE  /\ CarryOK(t, d)
         /\ c.t.retx # << >> => d.t.retx # << >>
         /\ c.t.segmented = None => d.t.retx # << >>
  <1>1. PICK v : v = c.t
    OBVIOUS
  <1>2. TxOK(v) /\ SameButRetx(t, v) /\ c.faults = {} /\ AskedFor(v, u)
        /\ c = [t |-> c.t, prev |-> c.prev, reported |-> c.reported, faults |-> c.faults]
    BY <1>1 DEF CarryOK
  <1>3. /\ u.sn \in v.next_ack .. Top(v) - 1 /\ u.from \in Nat
        /\ Top(v) = (IF v.segmented = None THEN v.next ELSE v.next + 1)
        /\ v.next \in Int /\ v.next_ack \in Int /\ Top(v) - v.next_ack <= Window
        /\ v.retx \in Seq(RetxEntry) /\ TxRetx(v) /\ Top(v) \in Int /\ Top(v) <= v.next + 1
        /\ v.next_ack <= v.next /\ v.next <= Top(v)
    BY <1>2, TxFacts DEF AskedFor
  <1>4. Has(v, u.sn) /\ u.sn \in Int
    BY <1>2, <1>3, TxFacts DEF Has
  <1>5. PICK e : e = LastByte(v, u)
    OBVIOUS
  <1>6. PICK r : r = [sn |-> u.sn, so |-> u.from, len |-> e - u.from + 1]
    OBVIOUS
  <1>7. PICK count : count = (u.sn # c.prev)
    OBVIOUS
  <1>8. PICK t2 : t2 = Pushed(v, r, u.sn, count)
    OBVIOUS
  <1>9. PICK more : more = (count /\ t2.window[u.sn].retx_count = MaxRetx)
    OBVIOUS
  <1>10. ~Unsent(v, u) => e \in Nat /\ u.from <= e /\ e < Size /\ e + 1 <= Sent(v, u.sn)
    BY <1>2, <1>5, LastByteOK
  <1>11. ~Unsent(v, u) => ~(u.from > e) /\ ~(u.from >= Size) /\ ~(e >= Size)
    BY <1>3, <1>10, Constants
  <1>12. \/ d = c /\ TxBase(v, u.sn) > TxBase(v, v.next)
         \/ d = c /\ Unsent(v, u)
         \/ d = c /\ Len(v.retx) = Window
         \/ d = CarriedOn(c, t2, u.sn, more) /\ ~Unsent(v, u) /\ Len(v.retx) # Window
    <2>1. CASE TxBase(v, u.sn) > TxBase(v, v.next) \/ Unsent(v, u)
      BY ONLY <2>1, <1>1, <1>4, d = handle_nack(c, u) DEF handle_nack
    <2>2. CASE ~(TxBase(v, u.sn) > TxBase(v, v.next)) /\ ~Unsent(v, u)
      <3>1. c = [c EXCEPT !.faults = @]
        BY ONLY <1>2
      <3>2. d = IF Len(v.retx) = Window THEN [c EXCEPT !.faults = @]
                ELSE CarriedOn([c EXCEPT !.faults = @], t2, u.sn, more)
        BY ONLY <2>2, <1>1, <1>4, <1>5, <1>6, <1>7, <1>8, <1>9, <1>11, d = handle_nack(c, u)
           DEF handle_nack, Pushed, CarriedOn
      <3> QED
        BY ONLY <2>2, <3>1, <3>2
    <2> QED
      BY ONLY <2>1, <2>2
  <1>13. CASE d = c
    <2>1. v.segmented = None => v.retx # << >>
      <3>1. SUFFICES ASSUME v.segmented = None, v.retx = << >> PROVE FALSE
        OBVIOUS
      <3>2. ~Unsent(v, u)
        BY <3>1, <1>4, Constants DEF Unsent, UnderSegmentation
      <3>3. Len(v.retx) # Window
        BY <3>1, Constants
      <3>4. ~(TxBase(v, u.sn) > TxBase(v, v.next))
        <4>1. u.sn >= v.next_ack /\ u.sn < v.next /\ v.next <= v.next_ack + Window
          <5>1. Top(v) = v.next
            BY <3>1, <1>3
          <5>2. u.sn >= v.next_ack /\ u.sn <= Top(v) - 1
            BY <1>3
          <5> QED
            BY <5>1, <5>2, <1>3, <1>4, Constants
        <4>2. TxBase(v, u.sn) = u.sn - v.next_ack
          BY <4>1, <1>3, <1>4, TxAhead, Constants
        <4>3. TxBase(v, v.next) = v.next - v.next_ack
          BY <4>1, <1>3, TxAhead, Constants
        <4> QED
          BY <4>1, <4>2, <4>3, <1>3, <1>4
      <3>5. d = CarriedOn(c, t2, u.sn, more)
        BY <3>2, <3>3, <3>4, <1>12
      <3>6. d.t = t2 /\ d.t = v
        BY ONLY <3>5, <1>1, <1>2, <1>13 DEF CarriedOn
      <3>7. r \in RetxEntry /\ r.sn = u.sn /\ RetxOK(v, r)
        BY <3>2, <1>3, <1>4, <1>6, <1>10 DEF RetxEntry, RetxOK
      <3>8. Len(v.retx) < Window
        BY <3>1, Constants
      <3>9. t2.retx # << >>
        BY <3>7, <3>8, <1>2, <1>8, PushedRetx
      <3> QED
        BY <3>1, <3>6, <3>9
    <2> QED
      BY <2>1, <1>1, <1>13
  <1>14. CASE d = CarriedOn(c, t2, u.sn, more) /\ ~Unsent(v, u) /\ Len(v.retx) # Window
    <2>1. r \in RetxEntry /\ r.sn = u.sn /\ RetxOK(v, r)
      <3>1. e \in Nat /\ u.from <= e /\ e + 1 <= Sent(v, u.sn)
        BY <1>10, <1>14
      <3>2. e - u.from + 1 \in Nat \ {0} /\ u.from + (e - u.from + 1) = e + 1
        BY ONLY <3>1, <1>3
      <3>3. r.sn = u.sn /\ r.so = u.from /\ r.len = e - u.from + 1
        BY ONLY <1>6
      <3>4. r \in RetxEntry
        BY ONLY <1>3, <1>4, <1>6, <3>2 DEF RetxEntry
      <3>5. r.so + r.len <= Sent(v, r.sn)
        BY ONLY <3>1, <3>2, <3>3
      <3> QED
        BY <3>3, <3>4, <3>5, <1>3 DEF RetxOK
    <2>2. Len(v.retx) < Window
      BY <1>3, <1>14, Constants DEF TxRetx
    <2>3. TxOK(t2) /\ SameButRetx(v, t2) /\ t2.retx # << >>
      BY <2>1, <2>2, <1>2, <1>8, PushedRetx
    <2>4. PICK rep : rep = (c.reported \/ more)
      OBVIOUS
    <2>5. d = [t |-> t2, prev |-> u.sn, reported |-> rep, faults |-> c.faults]
      BY ONLY <2>4, <1>2, <1>14 DEF CarriedOn
    <2>6. d.t = t2 /\ d.faults = {}
          /\ d = [t |-> d.t, prev |-> d.prev, reported |-> d.reported, faults |-> d.faults]
      BY ONLY <2>5, <1>2
    <2>7. SameButRetx(t, t2)
      BY <2>3, <1>2 DEF SameButRetx, SameSent
    <2> QED
      BY <2>3, <2>6, <2>7 DEF CarryOK
  <1> QED
    BY <1>12, <1>13, <1>14

\* The SNs and bytes that an accepted STATUS PDU asks for are in the window v
\* that its acknowledgements leave.
LEMMA UnitsAsked ==
  ASSUME IInv, NEW s, StatusOK(s), StatusAccepted(tx, s), NEW k \in 1 .. Len(s.nacks),
         NEW n, n = s.nacks[k], NEW v, TxOK(v), v.next_ack = First(s), v.next = tx.next,
         v.segmented = tx.segmented,
         tx.segmented # None => v.window[tx.next].next_so = tx.window[tx.next].next_so,
         NEW q, q = UnitNacks(v, n)
  PROVE  /\ Len(q) = n.range /\ Len(q) \in Nat /\ Len(q) >= 1
         /\ \A i \in 1 .. Len(q) : AskedFor(v, q[i])
  <1>1. PICK a \in Int, R \in Int, U \in Int :
          /\ a = NackSn(s, n) /\ R = n.range /\ U = s.upto
          /\ R >= 1 /\ a + R - 1 < U
    <2>1. s.upto \in Int
      BY DEF StatusOK
    <2> QED
      BY <2>1, AcceptedNack
  <1>2. PICK F \in Int : F = First(s) /\ F <= a /\ tx.next_ack <= F
    <2>1. 1 \in 1 .. Len(s.nacks) /\ s.nacks # << >>
      BY DEF StatusOK
    <2>2. First(s) = NackSn(s, s.nacks[1])
      BY <2>1 DEF First
    <2>3. NackSn(s, s.nacks[1]) <= NackSn(s, n)
      BY DEF StatusOK
    <2> QED
      BY <2>2, <2>3, <1>1, FirstBounds
  <1>3. PICK T \in Int, x \in Int, y \in Int :
          /\ T = Top(v) /\ x = tx.next /\ y = tx.next_ack /\ U <= T /\ T <= x + 1 /\ U <= y + Window
    <2>1. Top(v) = Top(tx)
      BY DEF Top
    <2>2. tx.next \in Int /\ tx.next_ack \in Int /\ Top(tx) \in Int /\ Top(tx) <= tx.next + 1
      BY TxFacts DEF IInv
    <2>3. s.upto <= Top(tx)
      BY DEF StatusOK
    <2>4. s.upto <= tx.next_ack + Window
      BY StatusDistance
    <2> QED
      BY <2>1, <2>2, <2>3, <2>4, <1>1
  <1>4. TxSn(v, n.sn) = a
    <2>1. v.next_ack \in Int /\ v.next_ack = F
      BY <1>2
    <2>2. a >= F /\ a <= F + Window + 1
      <3>1. a < U
        BY ONLY <1>1
      <3>2. U <= F + Window
        BY ONLY <1>1, <1>2, <1>3, Constants
      <3> QED
        BY ONLY <3>1, <3>2, <1>2, <1>1, Constants
    <2>3. TxBase(v, a % Mod) = a - F
      BY <2>1, <2>2, TxAhead
    <2>4. F + (a - F) = a
      OBVIOUS
    <2>5. n.sn = a % Mod
      BY <1>1, AcceptedNack
    <2> QED
      BY ONLY <2>1, <2>3, <2>4, <2>5 DEF TxSn
  <1>5. /\ n.has_so => n.so_start < Size /\ n.so_end <= Size
        /\ n.has_so /\ R = 1 => n.so_start <= n.so_end
        /\ n.so_start \in Nat /\ n.so_end \in Nat /\ n.has_so \in BOOLEAN
        /\ a + R - 1 = tx.segmented =>
             /\ n.has_so
             /\ \/ n.so_end < Sent(tx, tx.segmented)
                \/ R = 1 /\ n.so_start > 0 /\ n.so_end = Size
    <2>1. n \in NackEntry /\ NackOK(n, NackSn(s, n), s.upto)
      BY DEF StatusOK
    <2> QED
      BY <2>1, <1>1 DEF NackOK, NackEntry
  <1>6. q = [i \in 1 .. R |-> q[i]] /\ Len(q) = R
    <2>1. PICK g : g = q /\ g = [i \in 1 .. R |-> g[i]]
      BY <1>1 DEF UnitNacks
    <2>2. R \in Nat
      BY <1>1
    <2>3. Len(g) = R
      BY ONLY <2>1, <2>2
    <2> QED
      BY <2>1, <2>3
  <1>7. ASSUME NEW i \in 1 .. R PROVE AskedFor(v, q[i])
    <2>1. PICK from : from = IF i = 1 /\ n.has_so THEN n.so_start ELSE 0
      OBVIOUS
    <2>2. PICK to : to = IF i = R /\ n.has_so THEN n.so_end ELSE Size
      OBVIOUS
    <2>3. PICK last : last = IF from = 0 /\ to = Size THEN Size - 1 ELSE to
      OBVIOUS
    <2>4. q[i] = [sn |-> a + i - 1, from |-> from, to |-> last]
      BY <2>1, <2>2, <2>3, <1>1, <1>4 DEF UnitNacks, EndOfSdu
    <2>5. PICK u : u = q[i] /\ u.sn = a + i - 1 /\ u.from = from /\ u.to = last
      BY <2>4
    <2>6. a + i - 1 \in F .. T - 1
      <3>1. i >= 1 /\ i <= R /\ i \in Int
        BY <1>1
      <3>2. a + i - 1 <= a + R - 1
        BY ONLY <1>1, <3>1
      <3>3. a + i - 1 < U
        BY ONLY <1>1, <3>1, <3>2
      <3>4. a + i - 1 <= T - 1
        BY ONLY <1>1, <1>3, <3>1, <3>3
      <3>5. a + i - 1 >= F
        BY ONLY <1>1, <1>2, <3>1
      <3> QED
        BY <3>1, <3>4, <3>5, <1>3
    <2>7. from \in Nat /\ from < Size /\ to \in Nat /\ to <= Size
      <3>1. from \in Nat /\ from < Size
        BY ONLY <2>1, <1>5, Constants
      <3>2. to \in Nat /\ to <= Size
        BY ONLY <2>2, <1>5, Constants
      <3> QED
        BY <3>1, <3>2
    <2>8. from <= to
      <3>1. CASE i = R /\ n.has_so /\ R = 1
        BY <3>1, <2>1, <2>2, <1>5
      <3>2. CASE i = R /\ n.has_so /\ R # 1
        BY <3>2, <2>1, <2>2, <1>5, <1>1
      <3>3. CASE ~(i = R /\ n.has_so)
        BY <3>3, <2>2, <2>7, Constants
      <3> QED
        BY <3>1, <3>2, <3>3
    <2>9. last \in Nat /\ last <= Size /\ from <= last
      BY <2>3, <2>7, <2>8, Constants
    <2>10. ASSUME a + i - 1 = v.segmented
           PROVE  last = Size \/ last < Sent(v, a + i - 1)
      <3>1. v.segmented = x /\ tx.segmented = x
        <4>1. v.segmented # None
          BY <2>10, Constants
        <4>2. v.segmented \in {None, v.next}
          BY TxFacts
        <4> QED
          BY <4>1, <4>2, <1>3
      <3>2. i = R
        <4>1. a + i - 1 = x
          BY <3>1, <2>10
        <4>2. i \in Int /\ i <= R
          BY <1>1
        <4>3. a + R - 1 <= x
          BY ONLY <1>1, <1>3
        <4> QED
          BY ONLY <4>1, <4>2, <4>3, <1>1, <1>3
      <3>3. /\ n.has_so
            /\ \/ n.so_end < Sent(tx, x)
               \/ R = 1 /\ n.so_start > 0 /\ n.so_end = Size
        BY <3>1, <3>2, <2>10, <1>5
      <3>4. Sent(v, x) = Sent(tx, x)
        BY <3>1, <1>3, Constants DEF Sent
      <3>5. Sent(tx, x) \in 0 .. Size
        BY SentBounds, TxFacts DEF IInv
      <3>6. to = n.so_end
        BY <3>2, <3>3, <2>2
      <3>7. CASE n.so_end < Sent(tx, x)
        <4>1. to # Size
          BY <3>5, <3>6, <3>7, <2>7, Constants
        <4> QED
          BY <4>1, <3>1, <3>4, <3>6, <3>7, <2>3, <2>10
      <3>8. CASE R = 1 /\ n.so_start > 0 /\ n.so_end = Size
        <4>1. from # 0
          BY <3>2, <3>3, <3>8, <2>1, <1>5
        <4> QED
          BY <4>1, <3>6, <3>8, <2>3
      <3> QED
        BY <3>3, <3>7, <3>8
    <2>11. AskedFor(v, u)
      BY <2>5, <2>6, <2>7, <2>9, <2>10, <1>2, <1>3 DEF AskedFor
    <2> QED
      BY <2>5, <2>11
  <1>8. Len(q) \in Nat /\ Len(q) >= 1 /\ Len(q) = n.range
    BY ONLY <1>1, <1>6
  <1> QED
    BY ONLY <1>6, <1>7, <1>8

\* The transmitter t after the acknowledgements of s.
AckedBy(s, t) ==
  /\ t.next_ack = First(s) /\ t.next = tx.next /\ t.segmented = tx.segmented
  /\ tx.segmented # None => t.window[tx.next].next_so = tx.window[tx.next].next_so

LEMMA AskedSame ==
  ASSUME NEW v, TxOK(v), NEW t, SameSent(t, v), NEW w, SameSent(t, w), NEW u, AskedFor(v, u)
  PROVE  AskedFor(w, u)
  <1>1. w.next = v.next /\ w.next_ack = v.next_ack /\ w.segmented = v.segmented
    BY DEF SameSent
  <1>2. Top(w) = Top(v)
    BY <1>1 DEF Top
  <1>3. v.segmented # None => v.segmented = v.next
    BY TxFacts
  <1>4. v.segmented # None => w.window[v.next].next_so = v.window[v.next].next_so
    BY DEF SameSent
  <1>5. u.sn = v.segmented => Sent(w, u.sn) = Sent(v, u.sn)
    <2>1. u.sn \in Int
      BY TxFacts DEF AskedFor
    <2> QED
      BY <2>1, <1>1, <1>3, <1>4, Constants DEF Sent
  <1> QED
    BY <1>1, <1>2, <1>5 DEF AskedFor

\* One NACK, for all its SNs.
LEMMA HandledRange ==
  ASSUME IInv, NEW s, StatusOK(s), StatusAccepted(tx, s), NEW k \in 1 .. Len(s.nacks),
         NEW n, n = s.nacks[k], NEW t, AckedBy(s, t),
         NEW c, CarryOK(t, c), NEW d, d = NackHandled(c, n)
  PROVE  /\ CarryOK(t, d)
         /\ c.t.retx # << >> => d.t.retx # << >>
         /\ c.t.segmented = None => d.t.retx # << >>
  <1>1. PICK v : v = c.t /\ TxOK(v) /\ SameSent(t, v)
    BY DEF CarryOK, SameButRetx
  <1>2. /\ v.next_ack = First(s) /\ v.next = tx.next /\ v.segmented = tx.segmented
        /\ tx.segmented # None => v.window[tx.next].next_so = tx.window[tx.next].next_so
    BY <1>1 DEF AckedBy, SameSent
  <1>3. PICK q : q = UnitNacks(v, n)
    OBVIOUS
  <1>4. Len(q) \in Nat /\ Len(q) >= 1 /\ \A i \in 1 .. Len(q) : AskedFor(v, q[i])
    BY <1>1, <1>2, <1>3, UnitsAsked
  <1>5. PICK f : /\ f[0] = c
                 /\ \A i \in 1 .. Len(q) : f[i] = handle_nack(f[i - 1], q[i])
                 /\ Loop(handle_nack, c, q) = f[Len(q)]
    <2>1. Len(q) \in Nat
      BY <1>4
    <2> QED
      BY ONLY <2>1, HandleNackLoop
  <1>6. d = f[Len(q)]
    BY <1>1, <1>3, <1>5 DEF NackHandled
  <1> DEFINE Inv(i) == /\ CarryOK(t, f[i])
                       /\ c.t.retx # << >> => f[i].t.retx # << >>
                       /\ i # 0 /\ v.segmented = None => f[i].t.retx # << >>
             Bad == {i \in Nat : i <= Len(q) /\ ~Inv(i)}
  <1>7. Bad = {}
    <2>1. SUFFICES ASSUME Bad # {} PROVE FALSE
      OBVIOUS
    <2>2. PICK m \in Bad : \A j \in Bad : m <= j
      BY <2>1, Least
    <2>3. m \in Nat /\ m <= Len(q) /\ ~Inv(m)
      BY <2>2
    <2>4. CASE m = 0
      BY <2>3, <2>4, <1>5
    <2>5. CASE m # 0
      <3>1. m - 1 \in Nat /\ m - 1 <= Len(q) /\ ~(m <= m - 1) /\ m \in 1 .. Len(q)
        BY <2>3, <2>5, <1>4
      <3>2. Inv(m - 1)
        BY <3>1, <2>2
      <3>3. PICK a : a = f[m - 1] /\ CarryOK(t, a) /\ (c.t.retx # << >> => a.t.retx # << >>)
        BY <3>2
      <3>4. PICK b : b = f[m] /\ b = handle_nack(a, q[m])
        BY <3>1, <3>3, <1>5
      <3>5. TxOK(a.t) /\ SameSent(t, a.t)
        BY <3>3 DEF CarryOK, SameButRetx
      <3>6. AskedFor(v, q[m])
        BY <3>1, <1>4
      <3>7. AskedFor(a.t, q[m])
        BY <3>5, <3>6, <1>1, AskedSame
      <3>8. /\ CarryOK(t, b)
            /\ a.t.retx # << >> => b.t.retx # << >>
            /\ a.t.segmented = None => b.t.retx # << >>
        BY <3>3, <3>4, <3>7, HandledNack
      <3>9. a.t.segmented = v.segmented
        BY <3>5, <1>1 DEF SameSent
      <3>10. Inv(m)
        BY <3>3, <3>4, <3>8, <3>9
      <3> QED
        BY <3>10, <2>3
    <2> QED
      BY <2>4, <2>5
  <1>8. Inv(Len(q)) /\ Len(q) # 0
    BY <1>4, <1>7
  <1> QED
    BY <1>1, <1>6, <1>8

\* All NACKs of s.
LEMMA RebuiltOK ==
  ASSUME IInv, NEW s, StatusOK(s), StatusAccepted(tx, s), NEW t, TxOK(t), AckedBy(s, t),
         NEW c, c = Rebuilt(t, s)
  PROVE  /\ CarryOK(t, c)
         /\ s.nacks # << >> /\ t.segmented = None => c.t.retx # << >>
  <1>1. PICK q : q = s.nacks /\ q \in Seq(NackEntry) /\ Len(q) \in Nat
    BY DEF StatusOK
  <1>2. PICK base : base = [t |-> t, prev |-> None, reported |-> reported, faults |-> faults]
    OBVIOUS
  <1>3. CarryOK(t, base)
    <2>1. faults = {}
      BY DEF IInv
    <2>2. /\ base.t = t /\ base.faults = {}
          /\ base = [t |-> base.t, prev |-> base.prev, reported |-> base.reported,
                     faults |-> base.faults]
      BY ONLY <2>1, <1>2
    <2> QED
      BY <2>2 DEF CarryOK, SameButRetx, SameSent
  <1>4. PICK f : /\ f[0] = base
                 /\ \A i \in 1 .. Len(q) : f[i] = NackHandled(f[i - 1], q[i])
                 /\ Loop(NackHandled, base, q) = f[Len(q)]
    <2>1. Len(q) \in Nat
      BY <1>1
    <2> QED
      BY ONLY <2>1, NackHandledLoop
  <1>5. c = f[Len(q)]
    BY ONLY <1>1, <1>2, <1>4, c = Rebuilt(t, s) DEF Rebuilt
  <1> DEFINE Inv(i) == /\ CarryOK(t, f[i])
                       /\ i # 0 /\ t.segmented = None => f[i].t.retx # << >>
             Bad == {i \in Nat : i <= Len(q) /\ ~Inv(i)}
  <1>6. Bad = {}
    <2>1. SUFFICES ASSUME Bad # {} PROVE FALSE
      OBVIOUS
    <2>2. PICK m \in Bad : \A j \in Bad : m <= j
      BY <2>1, Least
    <2>3. m \in Nat /\ m <= Len(q) /\ ~Inv(m)
      BY <2>2
    <2>4. CASE m = 0
      BY <2>3, <2>4, <1>3, <1>4
    <2>5. CASE m # 0
      <3>1. m - 1 \in Nat /\ m - 1 <= Len(q) /\ ~(m <= m - 1) /\ m \in 1 .. Len(q)
        BY <2>3, <2>5, <1>1
      <3>2. Inv(m - 1)
        BY <3>1, <2>2
      <3>3. PICK a : a = f[m - 1] /\ CarryOK(t, a)
        BY <3>2
      <3>4. PICK n : n = s.nacks[m]
        OBVIOUS
      <3>5. PICK b : b = f[m] /\ b = NackHandled(a, n)
        BY <3>1, <3>3, <3>4, <1>1, <1>4
      <3>6. CarryOK(t, b) /\ (a.t.segmented = None => b.t.retx # << >>)
        BY <3>1, <3>3, <3>4, <3>5, <1>1, HandledRange
      <3>7. a.t.segmented = t.segmented
        BY <3>3 DEF CarryOK, SameButRetx, SameSent
      <3>8. Inv(m)
        BY <3>5, <3>6, <3>7
      <3> QED
        BY <3>8, <2>3
    <2> QED
      BY <2>4, <2>5
  <1>7. Inv(Len(q))
    BY <1>1, <1>6
  <1>8. s.nacks # << >> => Len(q) # 0
    BY <1>1
  <1> QED
    BY <1>5, <1>7, <1>8

\* The transmitter u that an accepted STATUS PDU leaves.
Answered(s, u) ==
  /\ AckedBy(s, u) /\ TxOK(u) /\ u.queue = tx.queue /\ u.poll_sn = tx.poll_sn
  /\ u.poll_timer = (tx.poll_timer /\ ~(TxBase(tx, tx.poll_sn) < s.upto - tx.next_ack))
  /\ s.nacks # << >> /\ u.segmented = None => u.retx # << >>

LEMMA AnsweredOK ==
  ASSUME IInv, NEW s, StatusOK(s), StatusAccepted(tx, s), NEW a, a = Acknowledged(tx, s),
         NEW t, t = ClearRetx(a), NEW c, c = Rebuilt(t, s)
  PROVE  Answered(s, c.t) /\ c.faults = {}
  <1>1. /\ TxType(a) /\ TxWindow(a) /\ a.next_ack = First(s)
        /\ a.next = tx.next /\ a.segmented = tx.segmented /\ a.queue = tx.queue
        /\ a.poll_sn = tx.poll_sn
        /\ a.segmented # None => a.window[a.next].next_so = tx.window[tx.next].next_so
        /\ a.poll_timer = (tx.poll_timer /\ ~(TxBase(tx, tx.poll_sn) < s.upto - tx.next_ack))
    BY AcknowledgedOK
  <1>2. TxOK(t) /\ SameButRetx(a, t)
    BY <1>1, ClearedOK
  <1>3. AckedBy(s, t) /\ t.queue = tx.queue /\ t.poll_sn = tx.poll_sn /\ t.poll_timer = a.poll_timer
    BY <1>1, <1>2 DEF AckedBy, SameButRetx, SameSent
  <1>4. CarryOK(t, c) /\ (s.nacks # << >> /\ t.segmented = None => c.t.retx # << >>)
    BY <1>2, <1>3, RebuiltOK
  <1>5. PICK u : u = c.t /\ TxOK(u) /\ SameButRetx(t, u) /\ c.faults = {}
    BY <1>4 DEF CarryOK
  <1>6. AckedBy(s, u) /\ u.queue = tx.queue /\ u.poll_sn = tx.poll_sn
        /\ u.poll_timer = a.poll_timer /\ u.segmented = t.segmented
    BY <1>3, <1>5 DEF AckedBy, SameButRetx, SameSent
  <1>7. Answered(s, u)
    BY <1>1, <1>4, <1>5, <1>6 DEF Answered
  <1> QED
    BY <1>5, <1>7

LEMMA AnsweredGrown ==
  ASSUME IInv, NEW s, NEW u, Answered(s, u)
  PROVE  Top(u) = Top(tx) /\ Grown(tx, u)
  <1>1. /\ u.next = tx.next /\ u.segmented = tx.segmented
        /\ tx.segmented # None => u.window[tx.next].next_so = tx.window[tx.next].next_so
    BY DEF Answered, AckedBy
  <1>2. Top(u) = Top(tx)
    BY <1>1 DEF Top
  <1>3. /\ TxType(tx) /\ TxWindow(tx) /\ tx.next \in Int /\ Top(tx) \in Int
        /\ tx.segmented \in {None, tx.next}
    BY TxFacts DEF IInv
  <1>4. ASSUME NEW sn \in Int PROVE Sent(u, sn) = Sent(tx, sn) /\ Sent(tx, sn) \in Int
    <2>1. Sent(tx, sn) \in 0 .. Size
      BY <1>3, SentBounds
    <2>2. Sent(u, sn) = Sent(tx, sn)
      BY <1>1, <1>3, Constants DEF Sent
    <2> QED
      BY <2>1, <2>2, Constants
  <1>5. Grown(tx, u)
    BY <1>1, <1>2, <1>3, <1>4 DEF Grown
  <1> QED
    BY <1>2, <1>5

\* The poll of the last SN is not answered by a STATUS PDU that leaves SDUs.
LEMMA AnsweredPoll ==
  ASSUME IInv, NEW s, StatusOK(s), StatusAccepted(tx, s), NEW u, Answered(s, u),
         MaxWindow = 0, PollLost(u), tx.retx = << >>
  PROVE  waived # {}
  <1>1. /\ TxType(tx) /\ TxWindow(tx)
        /\ tx.next \in Int /\ tx.next_ack \in Int /\ tx.next_ack <= tx.next
        /\ Top(tx) \in Int /\ tx.next <= Top(tx) /\ Top(tx) - tx.next_ack <= Window
        /\ DOMAIN tx.window = tx.next_ack .. Top(tx) - 1
        /\ Top(tx) = (IF tx.segmented = None THEN tx.next ELSE tx.next + 1)
        /\ tx.poll_timer \in BOOLEAN
    BY TxFacts DEF IInv
  <1>2. /\ TxOK(u) /\ u.next_ack = First(s) /\ u.next = tx.next /\ u.segmented = tx.segmented
        /\ u.queue = tx.queue
        /\ u.poll_timer = (tx.poll_timer /\ ~(TxBase(tx, tx.poll_sn) < s.upto - tx.next_ack))
        /\ s.nacks # << >> /\ u.segmented = None => u.retx # << >>
    BY DEF Answered, AckedBy
  <1>3. /\ DOMAIN u.window # {} /\ ~u.poll_timer /\ u.retx = << >> /\ u.segmented = None
        /\ u.queue = 0 \/ is_tx_window_full(u)
    BY DEF PollLost
  <1>4. Top(u) = tx.next /\ Top(tx) = tx.next
    BY <1>1, <1>2, <1>3 DEF Top
  <1>5. PICK F \in Int : F = s.upto /\ F = First(s) /\ tx.next_ack < F
    <2>1. s.nacks = << >>
      BY <1>2, <1>3
    <2> QED
      BY <2>1, FirstBounds DEF First
  <1>6. DOMAIN u.window = F .. tx.next - 1 /\ Cardinality(DOMAIN u.window) = tx.next - F
    <2>1. TxType(u) /\ TxWindow(u)
      BY <1>2, TxFacts
    <2> QED
      BY <2>1, <1>2, <1>4, <1>5, WindowSize
  <1>7. F < tx.next
    BY <1>1, <1>3, <1>5, <1>6
  <1>8. u.queue = 0
    <2>1. Cardinality(DOMAIN u.window) # Window
      BY <1>1, <1>4, <1>5, <1>6, Constants
    <2> QED
      BY <2>1, <1>3 DEF is_tx_window_full
  <1>9. tx.segmented = None /\ tx.next_ack < tx.next /\ tx.queue = 0
    BY <1>1, <1>2, <1>3, <1>5, <1>7, <1>8
  <1>10. SUFFICES ASSUME waived = {} PROVE FALSE
    OBVIOUS
  <1>11. tx.poll_sn = tx.next - 1
    BY <1>9, <1>10 DEF IInv, PollInv
  <1>12. TxBase(tx, tx.poll_sn) = tx.next - 1 - tx.next_ack
    <2>1. PICK x \in Int : x = tx.next - 1 /\ x >= tx.next_ack /\ x <= tx.next_ack + Window + 1
      BY <1>1, <1>4, <1>9, Constants
    <2> QED
      BY <2>1, <1>1, <1>11, TxAhead
  <1>13. ~(TxBase(tx, tx.poll_sn) < s.upto - tx.next_ack)
    BY <1>1, <1>5, <1>7, <1>12
  <1>14. ~tx.poll_timer
    BY <1>2, <1>3, <1>13
  <1>15. DOMAIN tx.window # {}
    BY <1>1, <1>4, <1>9
  <1>16. PollLost(tx)
    BY <1>9, <1>14, <1>15 DEF PollLost
  <1> QED
    BY <1>10, <1>16 DEF IInv, PollInv

LEMMA AcceptedStep ==
  ASSUME IInv, NEW s \in statuses, UNCHANGED <<rx, air, given, delivered>>,
         StatusAccepted(tx, s), AcceptStatus(s)
  PROVE  IInv'
  <1>1. StatusOK(s)
    BY DEF IInv, StatusInv
  <1>2. PICK a, t, c :
          /\ a = Acknowledged(tx, s) /\ t = ClearRetx(a) /\ c = Rebuilt(t, s)
          /\ tx' = c.t /\ faults' = c.faults
          /\ statuses' = {o \in statuses \ {s} : InLifetime(c.t.next_ack, o.upto)}
          /\ waived' = waived \cup (IF PollLost(c.t) /\ tx.retx # << >> THEN {"poll"} ELSE {})
    BY DEF AcceptStatus
  <1>3. Answered(s, tx') /\ faults' = {}
    BY <1>1, <1>2, AnsweredOK
  <1>4. Top(tx') = Top(tx) /\ Grown(tx, tx')
    BY <1>3, AnsweredGrown
  <1>5. /\ TxOK(tx)' /\ TxOK(tx) /\ RxOK(rx) /\ EdgeInv
        /\ tx'.next_ack = First(s) /\ tx'.next = tx.next /\ tx'.segmented = tx.segmented
        /\ tx'.queue = tx.queue /\ tx'.poll_sn = tx.poll_sn
    BY <1>3 DEF Answered, AckedBy, IInv
  <1>6. RxOK(rx)'
    BY <1>4, <1>5, GrownBytes
  <1>7. GivenInv'
    BY <1>4, <1>5 DEF IInv, GivenInv
  <1>8. EdgeInv'
    <2>1. First(s) <= rx.next
      BY <1>1, FirstBounds
    <2> QED
      BY <2>1, <1>4, <1>5 DEF EdgeInv
  <1>9. rx.next \in Int /\ rx'.next = rx.next
    BY <1>5, RxFacts
  <1>10. AirInv'
    <2>1. ASSUME NEW p \in air PROVE PduOK(p)'
      <3>1. PduOK(p)
        BY DEF IInv, AirInv
      <3>2. p.of >= rx'.next - Window
        BY <3>1, <1>9 DEF PduOK
      <3> QED
        BY <3>1, <3>2, <1>4, <1>5, <1>9, GrownPdu
    <2> QED
      BY <2>1 DEF AirInv
  <1>11. StatusInv'
    <2>1. ASSUME NEW o \in statuses' PROVE StatusOK(o)'
      <3>1. StatusOK(o) /\ InLifetime(tx'.next_ack, o.upto)
        BY <1>2 DEF IInv, StatusInv
      <3>2. o.upto > tx'.next_ack - Window
        <4>1. o.upto \in Int /\ tx'.next_ack \in Int
          BY <3>1, <1>5, TxFacts DEF StatusOK
        <4>2. Mod - Window = Window
          BY Constants
        <4> QED
          BY <3>1, <4>2 DEF InLifetime
      <3>3. rx.next <= rx'.next /\ rx'.next \in Int
        BY <1>9
      <3> QED
        BY <3>1, <3>2, <3>3, <1>4, <1>5, <1>9, GrownStatus
    <2> QED
      BY <2>1 DEF StatusInv
  <1>12. DeliveredInv'
    BY DEF IInv, DeliveredInv, Full, Has, Got
  <1>13. PollInv'
    <2>1. SUFFICES ASSUME MaxWindow = 0
                   PROVE  /\ tx'.segmented = None /\ tx'.next_ack < tx'.next /\ tx'.queue = 0 =>
                               tx'.poll_sn = tx'.next - 1 \/ waived' # {}
                          /\ PollLost(tx') => waived' # {}
      BY DEF PollInv
    <2>2. waived \subseteq waived' /\ (PollLost(tx') /\ tx.retx # << >> => waived' # {})
      BY <1>2
    <2>3. ASSUME tx'.segmented = None, tx'.next_ack < tx'.next, tx'.queue = 0
          PROVE  tx'.poll_sn = tx'.next - 1 \/ waived' # {}
      <3>1. tx.next_ack < tx.next
        <4>1. First(s) \in Int /\ tx.next_ack <= First(s)
          BY <1>1, FirstBounds
        <4>2. tx.next \in Int /\ tx.next_ack \in Int
          BY <1>5, TxFacts
        <4> QED
          BY <4>1, <4>2, <2>3, <1>5
      <3>2. tx.poll_sn = tx.next - 1 \/ waived # {}
        BY <3>1, <2>1, <2>3, <1>5 DEF IInv, PollInv
      <3> QED
        BY <3>2, <2>2, <1>5
    <2>4. ASSUME PollLost(tx') PROVE waived' # {}
      <3>1. CASE tx.retx # << >>
        BY <3>1, <2>2, <2>4
      <3>2. CASE tx.retx = << >>
        <4>1. waived # {}
          BY <3>2, <2>1, <2>4, <1>1, <1>3, AnsweredPoll
        <4> QED
          BY <4>1, <2>2
      <3> QED
        BY <3>1, <3>2
    <2> QED
      BY <2>3, <2>4
  <1> QED
    BY <1>3, <1>5, <1>6, <1>7, <1>8, <1>10, <1>11, <1>12, <1>13 DEF IInv

LEMMA HandleStatusStep ==
  ASSUME IInv, handle_status_pdu
  PROVE  IInv'
  <1>1. UNCHANGED <<rx, air, given, delivered>>
    BY DEF handle_status_pdu
  <1>2. PICK s \in statuses : IF StatusAccepted(tx, s) THEN AcceptStatus(s) ELSE IgnoreStatus(s)
    BY DEF handle_status_pdu
  <1>3. CASE StatusAccepted(tx, s)
    BY <1>1, <1>2, <1>3, AcceptedStep
  <1>4. CASE ~StatusAccepted(tx, s)
    BY <1>1, <1>2, <1>4, IgnoredStep
  <1> QED
    BY <1>3, <1>4

-----------------------------------------------------------------------------
(* The theorems.                                                           *)

LEMMA InitInv ==
  ASSUME Init
  PROVE  IInv
  <1>1. /\ tx.queue = 0 /\ tx.next = Start /\ tx.next_ack = Start /\ tx.window = << >>
        /\ tx.segmented = None /\ tx.retx = << >> /\ tx.poll_sn = Start - 1
        /\ tx.poll_timer = FALSE /\ TxRecord(tx)
    BY DEF Init, TxRecord
  <1>2. /\ rx.next = Start /\ rx.next_highest = Start /\ rx.highest_status = Start
        /\ rx.trigger = None /\ rx.window = << >> /\ RxRecord(rx)
    BY DEF Init, RxRecord
  <1>3. PICK e : e = << >> /\ DOMAIN e = {} /\ e \in [Start .. Start - 1 -> Entry]
                 /\ e \in Seq(RetxEntry) /\ Len(e) = 0 /\ e = [x \in DOMAIN e |-> e[x]]
    <2>1. Start .. Start - 1 = {}
      BY Constants
    <2>2. PICK e : e = << >>
      OBVIOUS
    <2>3. DOMAIN e = {} /\ Len(e) = 0 /\ e \in Seq(RetxEntry)
      BY <2>2
    <2>4. e = [x \in DOMAIN e |-> e[x]]
      BY <2>2
    <2>5. e \in [Start .. Start - 1 -> Entry]
      BY ONLY <2>1, <2>3, <2>4
    <2> QED
      BY <2>2, <2>3, <2>4, <2>5
  <1>4. TxOK(tx)
    <2>1. Top(tx) = Start
      BY <1>1 DEF Top
    <2> QED
      <3>1. TxType(tx)
        <4>1. 0 \in 0 .. QueueSize /\ Start \in Int /\ Start - 1 \in Int
          BY Constants
        <4> QED
          BY <4>1, <2>1, <1>1, <1>3 DEF TxType
      <3>2. TxWindow(tx)
        BY <2>1, <1>1, Constants DEF TxWindow
      <3>3. TxRetx(tx)
        BY <1>1, <1>3, Constants DEF TxRetx
      <3> QED
        BY <3>1, <3>2, <3>3 DEF TxOK
  <1>5. RxOK(rx)
    BY <1>2, <1>3, Constants DEF RxOK, RxType, RxWindow, RxStatus, RxTrigger, RxBytes, Full, Has
  <1>6. GivenInv /\ EdgeInv
    BY <1>1, <1>2, Constants DEF Init, GivenInv, EdgeInv, Top
  <1>7. AirInv /\ StatusInv /\ faults = {}
    BY DEF Init, AirInv, StatusInv
  <1>8. DeliveredInv
    <2>1. delivered = [sn \in Sns |-> 0]
      BY DEF Init
    <2>2. ASSUME NEW sn \in Sns PROVE ~(sn < rx.next) /\ ~Full(rx, sn)
      BY <1>2, <1>3, Constants DEF Sns, Full, Has
    <2> QED
      BY <2>1, <2>2 DEF DeliveredInv
  <1>9. PollInv
    BY <1>1, <1>3, Constants DEF PollInv, PollLost
  <1> QED
    BY <1>4, <1>5, <1>6, <1>7, <1>8, <1>9 DEF IInv

LEMMA StutterStep ==
  ASSUME IInv, UNCHANGED vars
  PROVE  IInv'
  <1>1. UNCHANGED <<tx, rx, given, waived, delivered, reported, faults, air, statuses>>
    BY DEF vars
  <1>2. TxOK(tx)' /\ RxOK(rx)' /\ GivenInv' /\ EdgeInv'
    BY <1>1 DEF IInv, GivenInv, EdgeInv, RxOK, RxType, RxWindow, RxStatus, RxTrigger,
                RxBytes, Has, Full, Got
  <1>3. AirInv' /\ StatusInv'
    BY <1>1 DEF IInv, AirInv, PduOK, StatusInv, StatusOK, NackOK
  <1>4. DeliveredInv' /\ PollInv' /\ faults' = {}
    BY <1>1 DEF IInv, DeliveredInv, PollInv, Full, Has, Got
  <1> QED
    BY <1>2, <1>3, <1>4 DEF IInv

\* Every operation of the two entities, and the air, preserve the invariant.
LEMMA NextInv ==
  ASSUME IInv, [Next]_vars
  PROVE  IInv'
  <1>1. CASE handle_sdu \/ discard_sdu
    BY <1>1, SduStep
  <1>2. CASE pull_pdu
    BY <1>2, PullPduStep
  <1>3. CASE on_expired_poll_retransmit_timer
    BY <1>3, PollExpiryStep
  <1>4. CASE handle_data_pdu
    BY <1>4, DataStep
  <1>5. CASE on_expired_reassembly_timer
    BY <1>5, ReassemblyExpiryStep
  <1>6. CASE on_expired_status_prohibit_timer
    BY <1>6, ProhibitStep
  <1>7. CASE get_status_pdu
    BY <1>7, StatusPduStep
  <1>8. CASE handle_status_pdu
    BY <1>8, HandleStatusStep
  <1>9. CASE Lose
    BY <1>9, LoseStep
  <1>10. CASE UNCHANGED vars
    BY <1>10, StutterStep
  <1> QED
    BY <1>1, <1>2, <1>3, <1>4, <1>5, <1>6, <1>7, <1>8, <1>9, <1>10 DEF Next

\* The windows of both entities, the retransmissions, the PDUs and STATUS PDUs
\* on the air, what was delivered and what was polled for are in every state as
\* IInv describes them, whatever is lost or reordered.
THEOREM RlcInvariant == Spec => []IInv
  <1>1. Init => IInv
    BY InitInv
  <1>2. IInv /\ [Next]_vars => IInv'
    BY NextInv
  <1> QED
    BY <1>1, <1>2, PTL DEF Spec

\* No SDU is passed up twice, and none is assembled from bytes of different
\* SDUs (handle_data_pdu), whatever is lost, reordered or sent again.
THEOREM DeliveredOnceAlways == Spec => []DeliveredOnce
  <1>1. IInv => DeliveredOnce
    <2>1. SUFFICES ASSUME IInv PROVE DeliveredOnce
      OBVIOUS
    <2>2. \A sn \in Sns : delivered[sn] <= 1
      BY <2>1 DEF IInv, DeliveredInv
    <2>3. \A sn \in DOMAIN rx.window : \A e \in rx.window[sn] : e[2] = sn
      <3>1. RxBytes(rx)
        BY <2>1, RxFacts DEF IInv
      <3> QED
        BY <3>1 DEF RxBytes
    <2> QED
      BY <2>2, <2>3 DEF DeliveredOnce
  <1> QED
    BY <1>1, RlcInvariant, PTL

\* What handle_status_pdu takes out of the transmit window as acknowledged was
\* passed up by the receiver, although SNs wrap and STATUS PDUs are trimmed,
\* lost and overtake each other.
THEOREM AcknowledgedWasDeliveredAlways == Spec => []AcknowledgedWasDelivered
  <1>1. IInv => AcknowledgedWasDelivered
    <2>1. SUFFICES ASSUME IInv, NEW sn \in Start .. tx.next_ack - 1
                   PROVE  delivered[sn] = 1
      BY DEF AcknowledgedWasDelivered
    <2>2. /\ tx.next_ack \in Int /\ Top(tx) \in Int /\ tx.next_ack <= tx.next
          /\ tx.next \in Int /\ tx.next <= Top(tx) /\ tx.queue \in Int /\ tx.queue >= 0
      BY <2>1, TxFacts, Constants DEF IInv
    <2>3. tx.next_ack <= rx.next /\ rx.next \in Int
      BY <2>1, RxFacts DEF IInv, EdgeInv
    <2>4. Top(tx) - Start + tx.queue <= given /\ given \in 0 .. MaxSdus
      BY <2>1 DEF IInv, GivenInv
    <2>5. sn \in Int /\ sn >= Start /\ sn < tx.next_ack
      BY <2>2, Constants
    <2>6. sn < rx.next
      BY <2>2, <2>3, <2>5
    <2>7. sn \in Sns
      BY <2>2, <2>4, <2>5, Constants DEF Sns
    <2> QED
      BY <2>1, <2>6, <2>7 DEF IInv, DeliveredInv
  <1> QED
    BY <1>1, RlcInvariant, PTL

\* The retx_queue names only bytes that were sent before, of SDUs that are
\* still in the transmit window: build_retx_pdu finds them there.
THEOREM RetxOnlyOfSentBytesAlways == Spec => []RetxOnlyOfSentBytes
  <1>1. IInv => RetxOnlyOfSentBytes
    <2>1. SUFFICES ASSUME IInv PROVE RetxOnlyOfSentBytes
      OBVIOUS
    <2>2. TxRetx(tx) /\ DOMAIN tx.window = tx.next_ack .. Top(tx) - 1
      BY <2>1, TxFacts DEF IInv
    <2> QED
      BY <2>2 DEF RetxOnlyOfSentBytes, TxRetx, RetxOK, Has, Sent
  <1> QED
    BY <1>1, RlcInvariant, PTL

\* No assertion about the windows fails, and no STATUS PDU of a correct peer is
\* taken for a protocol failure (handle_status_pdu, handle_nack).
THEOREM NoFaultAlways == Spec => []NoFault
  <1>1. IInv => NoFault
    <2>1. SUFFICES ASSUME IInv PROVE NoFault
      OBVIOUS
    <2>2. faults = {} /\ TxOK(tx) /\ RxOK(rx)
      BY <2>1 DEF IInv
    <2>3. /\ TxType(tx) /\ TxWindow(tx) /\ TxRetx(tx) /\ tx.next \in Int /\ tx.next_ack \in Int
          /\ tx.next_ack <= tx.next /\ tx.queue \in 0 .. QueueSize
          /\ tx.segmented \in {None, tx.next} /\ Top(tx) \in Int /\ tx.next <= Top(tx)
          /\ Top(tx) - tx.next_ack <= Window
          /\ Top(tx) = (IF tx.segmented = None THEN tx.next ELSE tx.next + 1)
          /\ DOMAIN tx.window = tx.next_ack .. Top(tx) - 1
      BY <2>2, TxFacts
    <2>4. tx.next - tx.next_ack \in 0 .. Window
      BY <2>3, Constants
    <2>5. DOMAIN tx.window = tx.next_ack .. (IF tx.segmented = None THEN tx.next - 1 ELSE tx.next)
      <3>1. Top(tx) - 1 = IF tx.segmented = None THEN tx.next - 1 ELSE tx.next
        BY <2>3
      <3> QED
        BY <3>1, <2>3
    <2>6. Cardinality(DOMAIN tx.window) <= Window
      BY <2>3, WindowSize
    <2>7. Len(tx.retx) <= Window
      BY <2>3 DEF TxRetx
    <2>8. /\ rx.highest_status \in rx.next .. rx.next_highest
          /\ rx.next_highest <= rx.next + Window
          /\ DOMAIN rx.window \subseteq rx.next .. rx.next_highest - 1
      BY <2>2, RxFacts
    <2> QED
      BY <2>2, <2>3, <2>4, <2>5, <2>6, <2>7, <2>8 DEF NoFault, TypeOK
  <1> QED
    BY <1>1, RlcInvariant, PTL

\* A transmitter that waits for an answer has asked for it: t-PollRetransmit
\* runs or there is something to send that get_polling_bit will let carry the
\* poll, unless a discard or a STATUS PDU took that away.  For cfg.max_window =
\* 0, the configuration without a limit below the window of the SN field: with
\* a limit the poll of a stalled window is missed.
THEOREM AnswerIsAwaitedAlways ==
  ASSUME MaxWindow = 0
  PROVE  Spec => []AnswerIsAwaited
  <1>1. IInv => AnswerIsAwaited
    BY DEF IInv, PollInv, AnswerIsAwaited
  <1> QED
    BY <1>1, RlcInvariant, PTL
=============================================================================
