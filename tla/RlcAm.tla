-------------------------------- MODULE RlcAm --------------------------------
(***************************************************************************)
(* One direction of an RLC acknowledged-mode bearer: the transmitting      *)
(* entity (rlc_tx_am_entity.cpp), the receiving entity of its peer         *)
(* (rlc_rx_am_entity.cpp) with the STATUS PDU that the peer's transmitting *)
(* side pulls (rlc_am_pdu.cpp), and the air between them, which loses and  *)
(* reorders PDUs in both directions.                                       *)
(*                                                                         *)
(* SNs are kept unwrapped; PDUs carry them modulo Mod and an entity finds  *)
(* an SN again from its distance to the edge of its window, as tx_mod_base *)
(* and rx_mod_base do.  Init is the state after Start SDUs were delivered  *)
(* and acknowledged, so that few SDUs cross the wrap.  An SDU is Size      *)
(* bytes; a grant is the number of payload bytes it has room for.          *)
(***************************************************************************)
EXTENDS Integers, Sequences, FiniteSets

CONSTANTS
  Start,      \* SDUs delivered and acknowledged before
  MaxSdus,    \* bound: SDUs of a behaviour
  Size,       \* bytes of an SDU
  Mod,        \* cardinality of the SN field
  Window,     \* am_window_size, and the capacity of retx_queue
  MaxWindow,  \* cfg.max_window, 0 for none
  QueueSize,  \* cfg.queue_size
  MaxRetx,    \* cfg.max_retx_thresh
  PollPdu,    \* cfg.poll_pdu, 0 for infinity
  PollByte,   \* cfg.poll_byte, 0 for infinity
  SnsPerStatus, \* max_nof_sn_per_status_report
  NackRange,  \* SNs of one NACK, 255
  InAir,      \* bound: PDUs on their way, either direction
  None

ASSUME RlcAssumption ==
  /\ {Size, Window, QueueSize, MaxSdus, SnsPerStatus, NackRange} \subseteq Nat \ {0}
  /\ {Start, MaxWindow, MaxRetx, PollPdu, PollByte} \subseteq Nat
  /\ InAir \in Nat \ {0}
  /\ Mod = 2 * Window /\ MaxWindow < Window /\ SnsPerStatus <= Window
  /\ Window > 1
  /\ None \notin Int

Bytes == 0 .. Size - 1
Sns == Start .. Start + MaxSdus - 1
NotStarted == -1       \* RETX_COUNT_NOT_STARTED
EndOfSdu == Size       \* rlc_am_status_nack::so_end_of_sdu

VARIABLES
  tx,        \* the transmitting entity
  rx,        \* the receiving entity of the peer
  air,       \* data PDUs on their way
  statuses,  \* STATUS PDUs on their way
  given,     \* SDUs the upper layer gave to the transmitter
  waived,    \* observed: "discard" after an SDU left the queue without
             \* transmission, "poll" after a STATUS PDU took back the
             \* retransmission that was to carry a poll
  delivered, \* how often each SDU was passed up by the receiver
  reported,  \* on_max_retx was called
  faults     \* observed: assertions and protocol failures

vars == <<tx, rx, air, statuses, given, waived, delivered, reported, faults>>

Init ==
  /\ tx = [queue |-> 0, next |-> Start, next_ack |-> Start, window |-> << >>,
           segmented |-> None, retx |-> << >>, retx_sn |-> None,
           poll_sn |-> Start - 1, pdus |-> 0, bytes |-> 0,
           poll_timer |-> FALSE, max_retx_reached |-> FALSE]
  /\ rx = [next |-> Start, next_highest |-> Start, highest_status |-> Start,
           trigger |-> None, window |-> << >>,
           do_status |-> FALSE, prohibit |-> FALSE]
  /\ air = {} /\ statuses = {}
  /\ given = 0 /\ waived = {}
  /\ delivered = [sn \in Sns |-> 0]
  /\ reported = FALSE /\ faults = {}

(***************************************************************************)
(* The transmitter.                                                        *)
(***************************************************************************)
TxBase(t, sn) == (sn - t.next_ack) % Mod
TxSn(t, sn) == t.next_ack + TxBase(t, sn)
Has(e, sn) == sn \in DOMAIN e.window
With(f, x, y) == [z \in DOMAIN f \cup {x} |-> IF z = x THEN y ELSE f[z]]

(* A loop: op applied to the elements of seq, first to last, from base on. *)
(* (FoldLeft of the community modules, as a recursion on the index.)       *)
Loop(op(_, _), base, seq) ==
  LET after[i \in 0 .. Len(seq)] ==
        IF i = 0 THEN base ELSE op(after[i - 1], seq[i])
  IN after[Len(seq)]

is_tx_window_full(t) ==
  \/ Cardinality(DOMAIN t.window) = Window
  \/ MaxWindow # 0 /\ TxBase(t, t.next) > MaxWindow

NothingToSend(t) == t.queue = 0 /\ t.retx = << >> /\ t.segmented = None

handle_sdu ==
  /\ given < MaxSdus
  /\ given' = given + 1
  /\ IF tx.queue < QueueSize
       THEN tx' = [tx EXCEPT !.queue = @ + 1] /\ UNCHANGED waived
       ELSE waived' = waived \cup {"discard"} /\ UNCHANGED tx
  /\ UNCHANGED <<rx, air, statuses, delivered, reported, faults>>

(* A discard finds its SDU only while it is queued.                        *)
discard_sdu ==
  /\ tx.queue > 0
  /\ tx' = [tx EXCEPT !.queue = @ - 1]
  /\ waived' = waived \cup {"discard"}
  /\ UNCHANGED <<rx, air, statuses, given, delivered, reported, faults>>

(* The new-data counters of get_polling_bit; a counter that nothing is     *)
(* compared with is left at 0.                                             *)
CountNew(t, bytes) ==
  [t EXCEPT !.pdus = IF PollPdu = 0 THEN 0 ELSE @ + 1,
            !.bytes = IF PollByte = 0 THEN 0 ELSE @ + bytes]

PollRequired_NoStall(t, isRetx) ==
  \/ ~isRetx /\ PollPdu > 0 /\ t.pdus >= PollPdu
  \/ ~isRetx /\ PollByte > 0 /\ t.bytes >= PollByte
  \/ NothingToSend(t)

PollRequired(t, isRetx) ==
  \/ ~isRetx /\ PollPdu > 0 /\ t.pdus >= PollPdu
  \/ ~isRetx /\ PollByte > 0 /\ t.bytes >= PollByte
  \/ NothingToSend(t)
  \/ is_tx_window_full(t)

(* t after get_polling_bit for a PDU of SN sn.                             *)
get_polling_bit(t, sn, isRetx) ==
  IF PollRequired(t, isRetx)
    THEN [t EXCEPT !.pdus = 0, !.bytes = 0, !.poll_timer = TRUE,
                   !.poll_sn = IF isRetx THEN @ ELSE sn]
    ELSE t

(* The PDU of bytes so .. so + n - 1 of SN sn; `of` is the SDU it is part  *)
(* of, which the receiver does not see.                                    *)
Pdu(sn, so, n, poll) ==
  [sn |-> sn % Mod, bytes |-> so .. so + n - 1, poll |-> poll, of |-> sn]

Transmit(pdu) ==
  /\ Cardinality(air) + Cardinality(statuses) < InAir
  /\ air' = air \cup {pdu}

(* build_new_pdu: a whole SDU counts 0 bytes towards pollByte, because its *)
(* buffer was moved into the window before its length is taken.            *)
NewSdu(t, n) ==
  [t EXCEPT !.queue = @ - 1,
            !.segmented = IF n = Size THEN @ ELSE t.next,
            !.window = With(@, t.next, [next_so |-> 0, retx_count |-> NotStarted])]

build_new_pdu(n) ==
  /\ tx.queue > 0
  /\ ~is_tx_window_full(tx)
  /\ \E t \in {CountNew(NewSdu(tx, n), IF n = Size THEN 0 ELSE n)} :
     /\ tx' = [get_polling_bit(t, tx.next, FALSE) EXCEPT
                 !.next = IF n = Size THEN @ + 1 ELSE @,
                 !.window[tx.next].next_so = IF n = Size THEN 0 ELSE n]
     /\ Transmit(Pdu(tx.next, 0, n, PollRequired(t, FALSE)))

build_continued_sdu_segment(n) ==
  LET sn == tx.segmented
      so == tx.window[sn].next_so
      last == so + n = Size
  IN \E t \in {CountNew([tx EXCEPT !.segmented = IF last THEN None ELSE @], n)} :
       /\ so + n <= Size
       /\ tx' = [get_polling_bit(t, tx.next, FALSE) EXCEPT
                   !.window[sn].next_so = so + n,
                   !.next = IF last THEN @ + 1 ELSE @]
       /\ Transmit(Pdu(sn, so, n, PollRequired(t, FALSE)))

(* The queue changes before the polling bit is computed.                   *)
Dequeued(n) ==
  LET r == Head(tx.retx)
  IN [tx EXCEPT
       !.retx_sn = r.sn,
       !.max_retx_reached = n = r.len /\ tx.window[r.sn].retx_count = MaxRetx,
       !.retx = IF n = r.len THEN Tail(@)
                ELSE <<[r EXCEPT !.so = @ + n, !.len = @ - n]>> \o Tail(@)]

build_retx_pdu(n) ==
  LET r == Head(tx.retx)
  IN /\ n <= r.len
     /\ \E t \in {Dequeued(n)} :
          /\ tx' = get_polling_bit(t, r.sn, TRUE)
          /\ Transmit(Pdu(r.sn, r.so, n, PollRequired(t, TRUE)))

(* No payload fits the grant: the retransmission counts as started.        *)
RetxDoesNotFit ==
  /\ tx' = [tx EXCEPT !.retx_sn = Head(tx.retx).sn]
  /\ UNCHANGED air

(* Retransmissions first, then the rest of a segmented SDU, then a new     *)
(* one.  The entity never drops a retransmission or a segmented SDU for    *)
(* not being in the window, as RetxOnlyOfSentBytes shows.                  *)
pull_pdu ==
  /\ UNCHANGED <<rx, statuses, given, waived, delivered, reported, faults>>
  /\ ~tx.max_retx_reached
  /\ \/ tx.retx # << >> /\ RetxDoesNotFit
     \/ \E n \in 1 .. Size :
          \/ tx.retx # << >> /\ build_retx_pdu(n)
          \/ tx.retx = << >> /\ tx.segmented # None /\ build_continued_sdu_segment(n)
          \/ tx.retx = << >> /\ tx.segmented = None /\ build_new_pdu(n)

(***************************************************************************)
(* STATUS PDUs at the transmitter.                                         *)
(***************************************************************************)
valid_nack(t, ack, nack) ==
  /\ TxBase(t, nack.sn) < TxBase(t, ack)
  /\ TxBase(t, nack.sn + nack.range - 1) < TxBase(t, ack)
  /\ TxBase(t, nack.sn) < Window
  /\ TxBase(t, nack.sn + nack.range - 1) < Window

StatusFault(t, s) == TxBase(t, s.ack) > TxBase(t, t.next + 1)

StatusAccepted(t, s) ==
  /\ TxBase(t, s.ack) \in 1 .. Window          \* valid_ack_sn
  /\ ~StatusFault(t, s)
  /\ \A i \in 1 .. Len(s.nacks) : valid_nack(t, s.ack, s.nacks[i])

(* The SDUs below the first NACK are acknowledged and leave the window.    *)
Acknowledged(t, s) ==
  LET stop == TxSn(t, IF s.nacks = << >> THEN s.ack ELSE s.nacks[1].sn)
      ack == CHOOSE sn \in t.next_ack .. stop :
               /\ sn = stop \/ ~Has(t, sn)
               /\ \A k \in t.next_ack .. sn - 1 : Has(t, k)
  IN [t EXCEPT !.next_ack = ack,
               !.window = [sn \in DOMAIN @ \ (t.next_ack .. ack - 1) |-> @[sn]],
               !.poll_timer = @ /\ ~(TxBase(t, t.poll_sn) < TxBase(t, s.ack))]

(* The retx_queue is emptied; the retx_count of an SN whose retransmission *)
(* had not started is taken back, once.                                    *)
decrement_retx_count(t, sn) ==
  IF Has(t, sn) /\ t.window[sn].retx_count # NotStarted
    THEN [t EXCEPT !.window[sn].retx_count = @ - 1] ELSE t

TakenBack(u, r) ==
  [(IF u.retx_sn = r.sn THEN u ELSE decrement_retx_count(u, r.sn))
     EXCEPT !.retx_sn = r.sn]

ClearRetx(t) ==
  [Loop(TakenBack, t, t.retx) EXCEPT !.retx = << >>, !.retx_sn = None]

increment_retx_count(t, sn) == [t EXCEPT !.window[sn].retx_count = @ + 1]

(* The SNs of a NACK, each with the part of the SDU that is named.         *)
UnitNacks(t, nack) ==
  [i \in 1 .. nack.range |->
     LET from == IF i = 1 /\ nack.has_so THEN nack.so_start ELSE 0
         to == IF i = nack.range /\ nack.has_so THEN nack.so_end ELSE EndOfSdu
     IN [sn |-> TxSn(t, nack.sn) + i - 1, from |-> from,
         to |-> IF from = 0 /\ to = EndOfSdu THEN Size - 1 ELSE to]]

UnderSegmentation_Never(t, u) == FALSE

(* A NACK up to the end of an SDU that is still being segmented names      *)
(* bytes that were not sent; it counts only as far as they were.           *)
UnderSegmentation(t, u) == u.to = EndOfSdu /\ u.sn = t.segmented

LastByte(t, u) ==
  IF UnderSegmentation(t, u) THEN t.window[u.sn].next_so - 1
  ELSE IF u.to = EndOfSdu THEN Size - 1 ELSE u.to

Unsent_Past(t, u) == UnderSegmentation(t, u) /\ u.from > t.window[u.sn].next_so

Unsent(t, u) == UnderSegmentation(t, u) /\ u.from >= t.window[u.sn].next_so

(* c carries the transmitter, the last SN counted, reported and faults     *)
(* through the NACKs.  Offsets outside the SDU are a protocol failure, and *)
(* corrected.                                                              *)
handle_nack(c, u) ==
  LET t == c.t
      end == LastByte(t, u)
      bad == u.from > end \/ end >= Size
      from == IF u.from > end \/ u.from >= Size THEN 0 ELSE u.from
      to == IF end >= Size THEN Size - 1 ELSE end
      d == [c EXCEPT !.faults = IF bad THEN @ \cup {"protocol"} ELSE @]
      r == [sn |-> u.sn, so |-> from, len |-> to - from + 1]
      t1 == [t EXCEPT !.retx = Append(@, r)]
      count == u.sn # c.prev
      t2 == IF count THEN increment_retx_count(t1, u.sn) ELSE t1
  IN IF TxBase(t, u.sn) > TxBase(t, t.next) THEN c
     ELSE IF ~Has(t, u.sn) THEN [c EXCEPT !.faults = @ \cup {"tx_window"}]
     ELSE IF Unsent(t, u) THEN c
     ELSE IF Len(t.retx) = Window THEN d
     ELSE [d EXCEPT !.t = t2, !.prev = u.sn,
             !.reported = @ \/ (count /\ t2.window[u.sn].retx_count = MaxRetx)]

(* Bound: retransmissions counted beyond the threshold, which has been     *)
(* reported by then.                                                       *)
RetxBound(t) == \A sn \in DOMAIN t.window : t.window[sn].retx_count <= MaxRetx

(* A PDU is on the air for less than half an SN space: what would be taken *)
(* for a newer SN is gone by then.                                         *)
InLifetime(edge, sn) == sn > edge - (Mod - Window)

(* SDUs wait for an acknowledgement that nothing will ask for.             *)
PollLost(t) ==
  /\ DOMAIN t.window # {}
  /\ ~t.poll_timer /\ t.retx = << >> /\ t.segmented = None
  /\ t.queue = 0 \/ is_tx_window_full(t)

(* The NACKs of s, one after the other.                                    *)
NackHandled(c, nack) == Loop(handle_nack, c, UnitNacks(c.t, nack))

Rebuilt(t, s) ==
  Loop(NackHandled,
       [t |-> t, prev |-> None, reported |-> reported, faults |-> faults],
       s.nacks)

AcceptStatus(s) ==
  \E a \in {Acknowledged(tx, s)} : \E t \in {ClearRetx(a)} :
  \E c \in {Rebuilt(t, s)} :
    /\ RetxBound(c.t)
    /\ tx' = c.t /\ reported' = c.reported /\ faults' = c.faults
    /\ statuses' = {o \in statuses \ {s} : InLifetime(c.t.next_ack, o.upto)}
    /\ waived' = waived \cup (IF PollLost(c.t) /\ tx.retx # << >> THEN {"poll"} ELSE {})

IgnoreStatus(s) ==
  /\ statuses' = statuses \ {s}
  /\ faults' = faults \cup
       (IF TxBase(tx, s.ack) \in 1 .. Window /\ StatusFault(tx, s)
          THEN {"protocol"} ELSE {})
  /\ UNCHANGED <<tx, reported, waived>>

handle_status_pdu ==
  /\ UNCHANGED <<rx, air, given, delivered>>
  /\ \E s \in statuses :
       IF StatusAccepted(tx, s) THEN AcceptStatus(s) ELSE IgnoreStatus(s)

on_expired_poll_retransmit_timer ==
  LET stop == [tx EXCEPT !.poll_timer = FALSE]
      r == [sn |-> tx.next_ack, so |-> 0, len |-> Size]
      push == increment_retx_count([stop EXCEPT !.retx = Append(@, r)], tx.next_ack)
      retx == /\ NothingToSend(tx) \/ is_tx_window_full(tx)
              /\ Has(tx, tx.next_ack)
              /\ Len(tx.retx) < Window
  IN /\ UNCHANGED <<rx, air, statuses, given, waived, delivered, faults>>
     /\ tx.poll_timer
     /\ tx' = IF retx THEN push ELSE stop
     /\ RetxBound(tx')
     /\ reported' = (reported \/ (retx /\ push.window[tx.next_ack].retx_count = MaxRetx))

(***************************************************************************)
(* The receiver.  Its window holds, for an SN it has something of, the     *)
(* bytes it has, each with the SDU it was sent for; trigger, which is read *)
(* only while t-Reassembly runs, is None while it does not.                *)
(***************************************************************************)
RxBase(r, sn) == (sn - r.next) % Mod
Got(r, sn) == {e[1] : e \in r.window[sn]}
Full(r, sn) == Has(r, sn) /\ Got(r, sn) = Bytes            \* fully_received
HasGap(r, sn) == \E b \in Got(r, sn), m \in Bytes \ Got(r, sn) : m < b

(* store_segment keeps the bytes it has and adds the others; a full SDU    *)
(* replaces the segments.                                                  *)
Stored(r, sn, p) ==
  LET had == IF Has(r, sn) /\ p.bytes # Bytes THEN r.window[sn] ELSE {}
      new == {<<b, p.of>> : b \in p.bytes \ {e[1] : e \in had}}
  IN [r EXCEPT !.window = With(@, sn, had \cup new),
               !.next_highest = IF RxBase(r, sn) >= RxBase(r, @) THEN sn + 1 ELSE @]

(* The first SN from sn on that is not complete, or RX_Next_Highest.       *)
FirstIncomplete(r, sn) ==
  CHOOSE k \in sn .. sn + Mod :
    /\ ~(RxBase(r, k) < RxBase(r, r.next_highest)) \/ ~Full(r, k)
    /\ \A l \in sn .. k - 1 : RxBase(r, l) < RxBase(r, r.next_highest) /\ Full(r, l)

(* SN sn is complete: RX_Highest_Status and RX_Next move on.               *)
Completed(r, sn) ==
  LET r1 == IF sn = r.highest_status
              THEN [r EXCEPT !.highest_status = FirstIncomplete(r, sn + 1)] ELSE r
      next == FirstIncomplete(r1, r.next)
  IN IF sn = r.next
       THEN [r1 EXCEPT !.next = next,
                       !.window = [k \in {l \in DOMAIN @ : l >= next} |-> @[k]]]
       ELSE r1

(* The timer is also stopped, and started again, when the trigger is       *)
(* RX_Next + AM_Window_Size.                                               *)
ReassemblyStops(r) ==
  \/ r.trigger = None
  \/ RxBase(r, r.trigger) = 0
  \/ RxBase(r, r.trigger) = 1 /\ Has(r, r.next) /\ ~HasGap(r, r.next)
  \/ RxBase(r, r.trigger) >= Window

(* Something is missing between SN sn and RX_Next_Highest.                 *)
Missing(r, sn) ==
  \/ RxBase(r, r.next_highest) > RxBase(r, sn + 1)
  \/ /\ RxBase(r, r.next_highest) = RxBase(r, sn + 1)
     /\ Has(r, sn) /\ HasGap(r, sn)

StartReassembly(r) == [r EXCEPT !.trigger = r.next_highest]

Reassembly(r) ==
  IF ~ReassemblyStops(r) THEN r
  ELSE IF Missing(r, r.next) THEN StartReassembly(r)
  ELSE [r EXCEPT !.trigger = None]

(* A poll is honoured even when the PDU is outside the window or known.    *)
ReceiveNew(p, sn) ==
  \E r1 \in {Stored([rx EXCEPT !.do_status = @ \/ p.poll], sn, p)} :
  \E r2 \in {IF Full(r1, sn) THEN Completed(r1, sn) ELSE r1} :
    LET up == IF Full(r1, sn) /\ Got(r1, sn) = Bytes
                THEN {e[2] : e \in r1.window[sn]} ELSE {}
    IN /\ rx' = Reassembly(r2)
       /\ delivered' = [k \in Sns |-> delivered[k] + IF k \in up THEN 1 ELSE 0]
       /\ air' = {o \in air \ {p} : InLifetime(r2.next, o.of + 1)}
       /\ faults' = faults \cup
            (IF r2.trigger # None /\ RxBase(r2, r2.trigger) = 1 /\ ~Has(r2, r2.next)
               THEN {"rx_window"} ELSE {})

ReceiveKnown(p) ==
  /\ rx' = [rx EXCEPT !.do_status = @ \/ p.poll]
  /\ air' = air \ {p}
  /\ UNCHANGED <<delivered, faults>>

Expected_AnySn(r, sn) == RxBase(r, sn) < Window

(* In the window and not complete.                                         *)
Expected(r, sn) == RxBase(r, sn) < Window /\ ~Full(r, sn)

handle_data_pdu ==
  /\ UNCHANGED <<tx, statuses, given, waived, reported>>
  /\ \E p \in air :
       LET sn == rx.next + RxBase(rx, p.sn)
       IN IF Expected(rx, sn) THEN ReceiveNew(p, sn) ELSE ReceiveKnown(p)

on_expired_reassembly_timer ==
  LET valid(sn) == RxBase(rx, sn) \in 1 .. Window
      r == [rx EXCEPT !.highest_status = FirstIncomplete(rx, rx.trigger),
                      !.do_status = TRUE, !.trigger = None]
  IN /\ UNCHANGED <<tx, air, statuses, given, waived, delivered, reported>>
     /\ rx.trigger # None
     /\ rx' = IF ~valid(rx.trigger) THEN [rx EXCEPT !.trigger = None]
              ELSE IF Missing(r, r.highest_status) THEN StartReassembly(r) ELSE r
     /\ faults' = faults \cup (IF valid(rx.trigger) /\ ~valid(r.highest_status)
                                 THEN {"ack_window"} ELSE {})

on_expired_status_prohibit_timer ==
  /\ rx.prohibit
  /\ rx' = [rx EXCEPT !.prohibit = FALSE]
  /\ UNCHANGED <<tx, air, statuses, given, waived, delivered, reported, faults>>

(***************************************************************************)
(* The STATUS PDU: the NACKs of refresh_status_report, merged by push_nack *)
(* and cut by trim to what the grant has room for.                         *)
(***************************************************************************)
Nack(sn, hasSo, from, to) ==
  [sn |-> sn % Mod, range |-> 1, has_so |-> hasSo, so_start |-> from, so_end |-> to]

(* The part of SN sn that is missing from byte b on.                       *)
Lost(r, sn) == Bytes \ Got(r, sn)

LostFrom(r, sn, b) ==
  LET stop == CHOOSE e \in Lost(r, sn) : /\ e >= b /\ b .. e \subseteq Lost(r, sn)
                                         /\ e + 1 \notin Lost(r, sn)
  IN Nack(sn, TRUE, b, IF stop = Size - 1 THEN EndOfSdu ELSE stop)

(* The missing parts of SN sn in increasing order.                         *)
NacksOf(r, sn) ==
  LET add(parts, b) == IF b \in Lost(r, sn) /\ b - 1 \notin Lost(r, sn)
                         THEN Append(parts, LostFrom(r, sn, b)) ELSE parts
  IN IF Full(r, sn) THEN << >>
     ELSE IF ~Has(r, sn) THEN <<Nack(sn, FALSE, 0, EndOfSdu)>>
     ELSE Loop(add, << >>, [i \in 1 .. Size |-> i - 1])

can_be_merged(left, right) ==
  /\ right.sn = (left.sn + left.range) % Mod
  /\ left.has_so => left.so_end = EndOfSdu
  /\ right.has_so => right.so_start = 0
  /\ left.range + right.range <= NackRange

push_nack(nacks, nack) ==
  LET prev == nacks[Len(nacks)]
      merged == [prev EXCEPT !.range = @ + 1,
                             !.has_so = @ \/ nack.has_so,
                             !.so_end = IF nack.has_so THEN nack.so_end ELSE EndOfSdu]
  IN IF nacks # << >> /\ can_be_merged(prev, nack)
       THEN [nacks EXCEPT ![Len(nacks)] = merged]
       ELSE Append(nacks, nack)

refresh_status_report(r) ==
  LET stop == IF RxBase(r, r.highest_status) > SnsPerStatus
                THEN r.next + SnsPerStatus ELSE r.highest_status
      push(nacks, sn) == Loop(push_nack, nacks, NacksOf(r, sn))
  IN [ack |-> stop % Mod, upto |-> stop,
      nacks |-> Loop(push, << >>, [i \in 1 .. stop - r.next |-> r.next + i - 1])]

trim_KeepAck(s, n) ==
  IF n >= Len(s.nacks) THEN s ELSE [s EXCEPT !.nacks = SubSeq(@, 1, n)]

(* trim to at most n NACKs: the last ones go, and those before them with   *)
(* the same first SN.                                                      *)
trim(s, n) ==
  LET cut == CHOOSE k \in 0 .. n :
               /\ k = 0 \/ s.nacks[k].sn # s.nacks[k + 1].sn
               /\ \A l \in k + 1 .. n : s.nacks[l].sn = s.nacks[l + 1].sn
      first == s.nacks[cut + 1].sn
  IN IF n >= Len(s.nacks) THEN s
     ELSE [ack |-> first, upto |-> s.upto - ((s.ack - first) % Mod),
           nacks |-> SubSeq(s.nacks, 1, cut)]

(* The peer's pull_pdu serves a required status report before any data.    *)
(* The receiver stored it after its last PDU; one that is older than that, *)
(* because the receiver runs meanwhile, is like one overtaken on the air.  *)
get_status_pdu ==
  /\ rx.do_status /\ ~rx.prohibit           \* status_report_required
  /\ Cardinality(air) + Cardinality(statuses) < InAir
  /\ rx' = [rx EXCEPT !.do_status = FALSE, !.prohibit = TRUE]
  /\ UNCHANGED <<tx, air, given, waived, delivered, reported, faults>>
  /\ \E s \in {refresh_status_report(rx)} : \E n \in 0 .. Len(s.nacks) :
       statuses' = statuses \cup {trim(s, n)}

(* The air loses PDUs; reordering is in the choice of the next one.        *)
Lose ==
  /\ \/ \E p \in air : air' = air \ {p} /\ UNCHANGED statuses
     \/ \E s \in statuses : statuses' = statuses \ {s} /\ UNCHANGED air
  /\ UNCHANGED <<tx, rx, given, waived, delivered, reported, faults>>

Next ==
  \/ handle_sdu \/ discard_sdu
  \/ pull_pdu \/ on_expired_poll_retransmit_timer
  \/ handle_data_pdu \/ on_expired_reassembly_timer
  \/ on_expired_status_prohibit_timer \/ get_status_pdu
  \/ handle_status_pdu \/ Lose

Spec == Init /\ [][Next]_vars

-----------------------------------------------------------------------------
(* The entities' state is of its type: the transmit window is the SNs from *)
(* TX_Next_Ack to TX_Next, with the SDU under segmentation at its end, and *)
(* RX_Next, RX_Highest_Status and RX_Next_Highest are in this order and    *)
(* within a window of each other.                                          *)
TypeOK ==
  /\ tx.queue \in 0 .. QueueSize
  /\ tx.next - tx.next_ack \in 0 .. Window
  /\ tx.segmented \in {None, tx.next}
  /\ DOMAIN tx.window =
       tx.next_ack .. (IF tx.segmented = None THEN tx.next - 1 ELSE tx.next)
  /\ Cardinality(DOMAIN tx.window) <= Window
  /\ Len(tx.retx) <= Window
  /\ rx.highest_status \in rx.next .. rx.next_highest
  /\ rx.next_highest <= rx.next + Window
  /\ DOMAIN rx.window \subseteq rx.next .. rx.next_highest - 1

(* Each SDU is passed up at most once, and never made of bytes of          *)
(* different SDUs, whatever is lost, reordered or sent again.              *)
DeliveredOnce ==
  /\ \A sn \in Sns : delivered[sn] <= 1
  /\ \A sn \in DOMAIN rx.window : \A e \in rx.window[sn] : e[2] = sn

(* What the transmitter takes as acknowledged (and reports with            *)
(* on_delivered_sdu) was passed up by the receiver.                        *)
AcknowledgedWasDelivered ==
  \A sn \in Start .. tx.next_ack - 1 : delivered[sn] = 1

(* A retransmission never overtakes the original: the retx_queue names     *)
(* only bytes of unacknowledged SDUs that were sent before.                *)
RetxOnlyOfSentBytes ==
  \A i \in 1 .. Len(tx.retx) :
    LET r == tx.retx[i]
    IN /\ Has(tx, r.sn)
       /\ r.so + r.len <= IF r.sn = tx.segmented THEN tx.window[r.sn].next_so ELSE Size

(* The windows are as TypeOK says, no assertion of them fails and no       *)
(* STATUS PDU of a correct peer is taken for a protocol failure.           *)
NoFault == TypeOK /\ faults = {}

(* A transmitter with unacknowledged SDUs has t-PollRetransmit running or  *)
(* something to send, which will carry the poll: it never waits for an     *)
(* answer that it did not ask for.  A discard may take away the SDU whose  *)
(* PDU was to carry the poll, and a STATUS PDU the retransmission that was *)
(* to; those are set apart in waived.                                      *)
AnswerIsAwaited == PollLost(tx) => reported \/ waived # {}
=============================================================================
