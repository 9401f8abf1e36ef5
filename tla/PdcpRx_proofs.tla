---------------------------- MODULE PdcpRx_proofs ----------------------------
(***************************************************************************)
(* Proofs about the receiving PDCP entity (PdcpRx), for every window size, *)
(* SN length, number of keys and number of PDUs on their way.              *)
(***************************************************************************)
EXTENDS PdcpRx, FiniteSetTheorems, WellFoundedInduction, TLAPS

-----------------------------------------------------------------------------
(* The inductive invariant, part by part.                                  *)

Tasks == crypto \cup {x.task : x \in Range(ul)}
Waiting == air \cup Range(buffer)
InFlight == Waiting \cup {t.pdu : t \in Tasks}

TaskType == [count : Int, pdu : Pdus]
UlTask == [task : TaskType, passed : BOOLEAN]

StType == [next : 0 .. Start + MaxSdus, deliv : 0 .. Start + MaxSdus,
           reord : 0 .. Start + MaxSdus, timer : BOOLEAN,
           window : SUBSET [count : Counts, sdu : Pdus]]

\* The types of the variables, tighter than TypeOK where a proof needs it.
TypeInv ==
  /\ cfg \in [rlc : {"am", "um"}, t_reordering : {"ms0", "running", "infinity"}]
  /\ st \in StType
  /\ up \in [key : 0 .. MaxKey, count : Int]
  /\ key \in 0 .. MaxKey
  /\ crypto \in SUBSET TaskType /\ IsFiniteSet(crypto)
  /\ ul \in Seq(UlTask)
  /\ tok \in [tokens : Int, event : BOOLEAN]
  /\ ctl \in [proc : {"idle", "rekey", "release"}, buffering : BOOLEAN,
              stopped : BOOLEAN, alive : BOOLEAN]
  /\ buffer \in Seq(Pdus) /\ Len(buffer) <= BufferSize
  /\ ue \in [key : 0 .. MaxKey, next : Nat, top : Nat]
  /\ air \in SUBSET Pdus

\* The tokens count the tasks; the event of a procedure is set only when
\* every task has returned its token, and no task starts after it.
TokenInv ==
  /\ tok.tokens = Cardinality(crypto) + Len(ul) - (IF ctl.proc = "idle" THEN 0 ELSE 1)
  /\ tok.event => tok.tokens = -1
  /\ ctl.proc = "rekey" => ctl.buffering
  /\ ctl.proc = "release" <=> ctl.stopped
  /\ ctl.proc # "release" => ctl.alive

\* The keys of the two sides.
KeyInv ==
  /\ ue.key \in key - 1 .. key + 1
  /\ ctl.proc = "rekey" => key < MaxKey /\ ue.key >= key

\* The COUNTs of the UE and those of the receiver.
UeInv ==
  /\ ue.next <= ue.top /\ ue.top - ue.next < Window
  /\ cfg.rlc = "um" => ue.top = ue.next
  /\ cfg.rlc = "am" \/ ue.key = key => st.next <= ue.top
  /\ cfg.rlc = "um" /\ ue.key < key => st.next = 0

\* A PDU between the UE and the window is not more than a window ahead of
\* what was delivered.
AheadInv ==
  \A q \in InFlight :
    /\ q.key <= ue.key
    /\ cfg.rlc = "am" \/ q.key = ue.key => q.count < ue.top
    /\ cfg.rlc = "am" \/ q.key = key => q.count < st.deliv + Window
    /\ cfg.rlc = "um" /\ q.key > key => q.count < Window

\* A PDU without COUNT is not more than a window behind anything it could
\* be overtaken by.
BehindInv ==
  \A p \in Waiting :
    /\ p.key = ue.key => ue.top <= p.count + Window
    /\ p.key = key => /\ st.next <= p.count + Window
                      /\ \A q \in InFlight : q.key = key => q.count < p.count + Window

\* A task that passed the integrity check has the right key and COUNT.
PassedInv ==
  \A x \in Range(ul) : x.passed => x.task.pdu = [key |-> key, count |-> x.task.count]

\* Each SDU of the window of s has a COUNT of its own, in lo .. s.next - 1 and
\* less than a window ahead of RX_DELIV, and the last one is the one RX_NEXT
\* was set for.
WindowFrom(s, lo) ==
  /\ s.deliv <= s.next
  /\ IsFiniteSet(s.window)
  /\ \A w \in s.window : /\ lo <= w.count /\ w.count < s.next
                         /\ w.count < s.deliv + Window
                         /\ w.sdu.count = w.count
                         /\ cfg.rlc = "um" => w.sdu.key = key
  /\ \A v, w \in s.window : v.count = w.count => v = w
  /\ s.deliv < s.next => Has(s, s.next - 1)

Open(s) == s \in StType /\ WindowFrom(s, s.deliv)
Closed(s) == s \in StType /\ WindowFrom(s, s.deliv + 1)

WindowInv == WindowFrom(st, st.deliv + 1)

TimerInv ==
  /\ st.timer => st.deliv < st.reord /\ st.reord <= st.next
  /\ cfg.t_reordering = "running" /\ ~ctl.stopped => (st.timer <=> st.deliv < st.next)

UpInv ==
  /\ cfg.rlc = "am" => up.count < st.deliv
  /\ cfg.rlc = "um" => up.key <= key /\ (up.key = key => up.count < st.deliv)

IInv ==
  /\ TypeInv /\ TokenInv /\ KeyInv /\ UeInv /\ AheadInv /\ BehindInv
  /\ PassedInv /\ CountExact /\ WindowInv /\ TimerInv /\ UpInv /\ ordered = TRUE

-----------------------------------------------------------------------------
(* Arithmetic of COUNT, HFN and SN.                                        *)

\* A set of natural numbers has a least element.
LEMMA Least ==
  ASSUME NEW S \in SUBSET Nat, S # {}
  PROVE  \E n \in S : \A m \in S : n <= m
  <1> DEFINE R == {ss \in Nat \X Nat : ss[1] < ss[2]}
  <1>1. IsWellFoundedOn(R, Nat)
    BY NatLessThanWellFounded DEF OpToRel
  <1> HIDE DEF R
  <1>2. PICK n \in S : \A m \in S : ~(<<m, n>> \in R)
    BY <1>1, WFMin, Zenon
  <1>3. \A m \in S : ~(m < n)
    BY <1>2 DEF R
  <1> QED
    BY <1>3

LEMMA DivMod ==
  ASSUME NEW c \in Nat
  PROVE  /\ HFN(c) \in Nat /\ SN(c) \in 0 .. Mod - 1
         /\ c = HFN(c) * Mod + SN(c)
  BY PdcpAssumption DEF HFN, SN

\* RcvdCount finds the COUNT of every PDU that is less than a window ahead of
\* RX_DELIV and at most a window behind it.
LEMMA RcvdCountExact ==
  ASSUME NEW d \in Nat, NEW c \in Nat, c < CountMod,
         c < d + Window, d <= c + Window
  PROVE  RcvdCount(d, SN(c)) = c
  <1> DEFINE q == HFN(d)
             r == SN(d)
             h == HFN(c)
             n == SN(c)
  <1>1. /\ q \in Nat /\ r \in 0 .. Mod - 1 /\ d = q * Mod + r
        /\ h \in Nat /\ n \in 0 .. Mod - 1 /\ c = h * Mod + n
    BY DivMod
  <1>2. Window \in Nat \ {0} /\ Mod = 2 * Window /\ Mod \in Nat
    BY PdcpAssumption
  <1> HIDE DEF q, r, h, n
  <1>3. (h - q) * Mod = c - d + r - n
    BY <1>1, <1>2
  <1>4. h - q \in {-1, 0, 1}
    <2>1. -2 * Mod < (h - q) * Mod /\ (h - q) * Mod < 2 * Mod
      BY <1>1, <1>2, <1>3
    <2>2. h - q < 2
      BY <2>1, <1>1, <1>2
    <2>3. h - q > -2
      BY <2>1, <1>1, <1>2
    <2> QED
      BY <2>2, <2>3, <1>1
  <1>5. (IF n < r - Window THEN q + 1 ELSE IF n >= r + Window THEN q - 1 ELSE q) = h
    <2>1. CASE h - q = 0
      BY <2>1, <1>1, <1>2, <1>3
    <2>2. CASE h - q = 1
      BY <2>2, <1>1, <1>2, <1>3
    <2>3. CASE h - q = -1
      BY <2>3, <1>1, <1>2, <1>3
    <2> QED
      BY <1>4, <2>1, <2>2, <2>3
  <1>6. (h * Mod + n) % CountMod = c
    <2>1. CountMod \in Nat
      BY PdcpAssumption
    <2>2. c % CountMod = c
      BY <2>1
    <2> QED
      BY <1>1, <2>2
  <1>7. (CASE n < r - Window -> q + 1 [] n >= r + Window -> q - 1 [] OTHER -> q) = h
    BY <1>1, <1>2, <1>5
  <1>8. RcvdCount(d, n) = (h * Mod + n) % CountMod
    BY <1>7 DEF RcvdCount, COUNT, q, r
  <1> QED
    BY <1>6, <1>8 DEF n

\* Two COUNTs less than a window apart have different places in rx_window.
LEMMA PlacesDiffer ==
  ASSUME NEW a \in Nat, NEW b \in Nat, a < b, b < a + Window
  PROVE  a % Window # b % Window
  <1>1. Window \in Nat \ {0}
    BY PdcpAssumption
  <1>2. /\ a = (a \div Window) * Window + (a % Window)
        /\ b = (b \div Window) * Window + (b % Window)
        /\ a \div Window \in Nat /\ b \div Window \in Nat
    BY <1>1
  <1>3. SUFFICES ASSUME a % Window = b % Window PROVE FALSE
    OBVIOUS
  <1>4. PICK k \in Int : k = (b \div Window) - (a \div Window)
    BY <1>2
  <1>5. b - a = k * Window
    BY <1>1, <1>2, <1>3, <1>4
  <1> QED
    <2>1. k * Window > 0 /\ k * Window < Window
      BY <1>1, <1>5
    <2>2. CASE k <= 0
      BY <2>1, <2>2, <1>1
    <2>3. CASE k >= 1
      BY <2>1, <2>3, <1>1
    <2> QED
      BY <2>2, <2>3

-----------------------------------------------------------------------------
(* The delivery loops.                                                     *)

Rank(W, w) == Cardinality({v \in W : v.count < w.count})

\* W is a finite set of SDUs with COUNTs of their own.
Distinct(W) ==
  /\ IsFiniteSet(W)
  /\ \A w \in W : w.count \in Nat
  /\ \A v, w \in W : v.count = w.count => v = w

LEMMA RankMonotone ==
  ASSUME NEW W, Distinct(W), NEW v \in W, NEW w \in W
  PROVE  /\ Rank(W, w) \in 0 .. Cardinality(W) - 1
         /\ v.count < w.count => Rank(W, v) < Rank(W, w)
  <1> DEFINE B(x) == {u \in W : u.count < x.count}
  <1>1. IsFiniteSet(W) /\ Cardinality(W) \in Nat
    BY FS_CardinalityType DEF Distinct
  <1>2. IsFiniteSet(W \ {w}) /\ Cardinality(W \ {w}) = Cardinality(W) - 1
    BY <1>1, FS_RemoveElement
  <1>3. B(w) \in SUBSET (W \ {w})
    BY DEF Distinct
  <1>4. IsFiniteSet(B(w)) /\ Cardinality(B(w)) <= Cardinality(W) - 1 /\ Cardinality(B(w)) \in Nat
    BY <1>2, <1>3, FS_Subset, FS_CardinalityType
  <1>5. ASSUME v.count < w.count
        PROVE  Cardinality(B(v)) < Cardinality(B(w))
    <2>1. v \in B(w) /\ v \notin B(v)
      BY <1>5 DEF Distinct
    <2>2. B(v) \in SUBSET (B(w) \ {v})
      BY <1>5, <2>1 DEF Distinct
    <2>3. IsFiniteSet(B(w) \ {v}) /\ Cardinality(B(w) \ {v}) = Cardinality(B(w)) - 1
      BY <1>4, <2>1, FS_RemoveElement
    <2>4. IsFiniteSet(B(v)) /\ Cardinality(B(v)) <= Cardinality(B(w) \ {v}) /\ Cardinality(B(v)) \in Nat
      BY <2>2, <2>3, FS_Subset, FS_CardinalityType
    <2> QED
      BY <2>3, <2>4, <1>4
  <1> QED
    BY <1>1, <1>4, <1>5 DEF Rank

\* Every rank is taken: the CHOOSE of Ascending has something to choose.
LEMMA RankExists ==
  ASSUME NEW W, Distinct(W), NEW i \in 1 .. Cardinality(W)
  PROVE  \E w \in W : Rank(W, w) = i - 1
  <1> DEFINE N == Cardinality(W)
             f == [w \in W |-> Rank(W, w)]
  <1>1. IsFiniteSet(W) /\ N \in Nat
    BY FS_CardinalityType DEF Distinct
  <1>2. IsFiniteSet(0 .. N - 1) /\ Cardinality(0 .. N - 1) = N
    <2> HIDE DEF N
    <2>1. 0 \in Int /\ N - 1 \in Int
      BY <1>1
    <2>2. /\ IsFiniteSet(0 .. N - 1)
          /\ Cardinality(0 .. N - 1) = IF 0 > N - 1 THEN 0 ELSE N - 1 - 0 + 1
      BY <2>1, FS_Interval
    <2> QED
      BY <1>1, <2>2
  <1>3. f \in [W -> 0 .. N - 1]
    <2>1. \A w \in W : Rank(W, w) \in 0 .. N - 1
      BY RankMonotone
    <2> HIDE DEF N
    <2> QED
      BY <2>1
  <1>4. \A v, w \in W : f[v] = f[w] => v = w
    <2> SUFFICES ASSUME NEW v \in W, NEW w \in W, f[v] = f[w] PROVE v = w
      OBVIOUS
    <2>1. Rank(W, v) = Rank(W, w)
      OBVIOUS
    <2>2. /\ v.count \in Nat /\ w.count \in Nat
          /\ Rank(W, v) \in 0 .. Cardinality(W) - 1
          /\ ~(v.count < w.count) /\ ~(w.count < v.count)
      BY <2>1, RankMonotone DEF Distinct
    <2>3. v.count = w.count
      BY <2>2
    <2> QED
      BY <2>3 DEF Distinct
  <1>5. f \in Injection(W, 0 .. N - 1)
    BY <1>3, <1>4 DEF Injection, IsInjective
  <1>6. f \in Surjection(W, 0 .. N - 1)
    BY <1>2, <1>5, FS_Injection
  <1>7. PICK w \in W : f[w] = i - 1
    <2>1. i - 1 \in 0 .. N - 1
      BY <1>1
    <2> HIDE DEF f
    <2> QED
      BY <1>6, <2>1 DEF Surjection
  <1> QED
    BY <1>7

\* Ascending(W) passes the SDUs of W up in the order of their COUNTs, the one
\* with the greatest COUNT last.
LEMMA AscendingOrder ==
  ASSUME NEW W, Distinct(W)
  PROVE  LET A == Ascending(W)
             N == Cardinality(W)
         IN  /\ N \in Nat
             /\ A = [i \in 1 .. N |-> A[i]]
             /\ \A i \in 1 .. N : \E w \in W : A[i] = w.sdu
             /\ \A i \in 2 .. N : \E v, w \in W : /\ v.count < w.count
                                                  /\ A[i - 1] = v.sdu /\ A[i] = w.sdu
             /\ N > 0 => \E w \in W : A[N] = w.sdu /\ \A v \in W : v.count <= w.count
             /\ W = {} <=> N = 0
  <1> DEFINE A == Ascending(W)
             N == Cardinality(W)
             at(i) == CHOOSE w \in W : Cardinality({v \in W : v.count < w.count}) = i - 1
  <1>1. N \in Nat
    BY FS_CardinalityType DEF Distinct
  <1>2. ASSUME NEW i \in 1 .. N
        PROVE  at(i) \in W /\ Rank(W, at(i)) = i - 1 /\ A[i] = at(i).sdu
    <2>1. \E w \in W : Cardinality({v \in W : v.count < w.count}) = i - 1
      BY RankExists DEF Rank
    <2>2. at(i) \in W /\ Cardinality({v \in W : v.count < at(i).count}) = i - 1
      BY <2>1, Zenon
    <2>3. A[i] = at(i).sdu
      BY DEF Ascending
    <2> QED
      BY <2>2, <2>3 DEF Rank
  <1>3. A = [i \in 1 .. N |-> A[i]]
    BY DEF Ascending
  <1>4. ASSUME NEW i \in 2 .. N
        PROVE  \E v, w \in W : v.count < w.count /\ A[i - 1] = v.sdu /\ A[i] = w.sdu
    <2>1. i - 1 \in 1 .. N /\ i \in 1 .. N
      BY <1>1
    <2>2. PICK v \in W : Rank(W, v) = i - 1 - 1 /\ A[i - 1] = v.sdu
      BY <1>2, <2>1
    <2>3. PICK w \in W : Rank(W, w) = i - 1 /\ A[i] = w.sdu
      BY <1>2, <2>1
    <2>4. v.count \in Nat /\ w.count \in Nat /\ ~(w.count < v.count) /\ v # w
      BY <2>2, <2>3, RankMonotone, <1>1 DEF Distinct
    <2>5. v.count < w.count
      BY <2>4 DEF Distinct
    <2> QED
      BY <2>2, <2>3, <2>5
  <1>5. ASSUME N > 0
        PROVE  \E w \in W : A[N] = w.sdu /\ \A v \in W : v.count <= w.count
    <2>1. N \in 1 .. N
      BY <1>1, <1>5
    <2>2. PICK w \in W : Rank(W, w) = N - 1 /\ A[N] = w.sdu
      BY <1>2, <2>1
    <2>3. ASSUME NEW v \in W PROVE v.count <= w.count
      BY <2>2, RankMonotone, <1>1 DEF Distinct
    <2> QED
      BY <2>2, <2>3
  <1>6. W = {} <=> N = 0
    BY FS_EmptySet DEF Distinct
  <1> HIDE DEF A, N
  <1> QED
    BY <1>1, <1>2, <1>3, <1>4, <1>5, <1>6 DEF A, N

\* t is s after the SDUs below t.deliv were passed up.
Delivers(s, t) ==
  /\ t \in StType
  /\ t.next = s.next /\ s.deliv <= t.deliv /\ t.deliv <= t.next
  /\ t.window = {w \in s.window : w.count >= t.deliv}

TimerOk(s) ==
  /\ s.timer => s.deliv < s.reord /\ s.reord <= s.next
  /\ cfg.t_reordering = "running" => (s.timer <=> s.deliv < s.next)

LEMMA StFields ==
  ASSUME NEW s \in StType
  PROVE  /\ s.next \in Nat /\ s.deliv \in Nat /\ s.reord \in Nat /\ s.timer \in BOOLEAN
         /\ \A w \in s.window : w.count \in Nat /\ w.count \in Counts /\ w.sdu \in Pdus
         /\ s.next <= Start + MaxSdus /\ Start + MaxSdus \in Nat /\ Window \in Nat \ {0}
  BY PdcpAssumption DEF StType, Counts

LEMMA ClosedIsOpen ==
  ASSUME NEW s, Closed(s)
  PROVE  Open(s)
  BY StFields DEF Open, Closed, WindowFrom

LEMMA DeliverBelowOpen ==
  ASSUME NEW s, Open(s), NEW n \in s.deliv .. s.next
  PROVE  /\ Delivers(s, DeliverBelow(s, n)) /\ Open(DeliverBelow(s, n))
         /\ DeliverBelow(s, n).deliv = n /\ DeliverBelow(s, n).reord = s.reord
  <1> DEFINE t == DeliverBelow(s, n)
  <1>1. s \in StType /\ n \in Nat
    BY StFields DEF Open
  <1>2. /\ t.next = s.next /\ t.deliv = n /\ t.reord = s.reord /\ t.timer = s.timer
        /\ t.window = {w \in s.window : w.count >= n}
    BY <1>1 DEF DeliverBelow, StType
  <1>3. t \in StType
    <2>1. n \in 0 .. Start + MaxSdus
      BY <1>1, StFields
    <2> QED
      BY <1>1, <2>1 DEF DeliverBelow, StType
  <1>4. t.window \in SUBSET s.window
    BY <1>2
  <1>5. IsFiniteSet(t.window)
    BY <1>4, FS_Subset DEF Open, WindowFrom
  <1>6. t.deliv < t.next => Has(t, t.next - 1)
    BY <1>1, <1>2, StFields DEF Open, WindowFrom, Has
  <1> HIDE DEF t
  <1>7. WindowFrom(t, t.deliv)
    BY <1>1, <1>2, <1>4, <1>5, <1>6, StFields DEF Open, WindowFrom
  <1>8. Delivers(s, t)
    BY <1>1, <1>2, <1>3 DEF Delivers
  <1> QED
    BY <1>2, <1>3, <1>7, <1>8 DEF t, Open

LEMMA DeliverAll ==
  ASSUME NEW s, Open(s)
  PROVE  LET t == deliver_all_consecutive_counts(s)
         IN  Delivers(s, t) /\ Closed(t) /\ t.reord = s.reord
  <1> DEFINE Stop(n) == n = s.next \/ ~Has(s, n)
             S == {n \in s.deliv .. s.next : Stop(n)}
             P(n) == Stop(n) /\ \A m \in s.deliv .. n - 1 : Has(s, m)
             c == CHOOSE n \in s.deliv .. s.next : P(n)
             t == DeliverBelow(s, c)
  <1>1. s \in StType /\ s.next \in Nat /\ s.deliv \in Nat /\ s.deliv <= s.next
    BY StFields DEF Open, WindowFrom
  <1>2. S \in SUBSET Nat /\ S # {}
    BY <1>1
  <1>3. PICK n \in S : \A m \in S : n <= m
    BY <1>2, Least
  <1>4. n \in s.deliv .. s.next /\ P(n)
    BY <1>1, <1>3
  <1>5. c \in s.deliv .. s.next /\ P(c)
    <2> HIDE DEF P
    <2> QED
      BY <1>4, Zenon
  <1>6. deliver_all_consecutive_counts(s) = t
    BY DEF deliver_all_consecutive_counts
  <1>7. Delivers(s, t) /\ Open(t) /\ t.deliv = c /\ t.reord = s.reord
    <2> HIDE DEF c
    <2> QED
      BY <1>5, DeliverBelowOpen
  <1> HIDE DEF c, t
  <1>8. ~Has(s, c)
    BY <1>1, <1>5, StFields DEF Open, WindowFrom, Has
  <1>9. \A w \in t.window : w.count # t.deliv
    BY <1>7, <1>8 DEF Delivers, Has
  <1>10. Closed(t)
    BY <1>7, <1>9, StFields DEF Open, Closed, WindowFrom
  <1> QED
    BY <1>6, <1>7, <1>10

LEMMA DeliversTransitive ==
  ASSUME NEW r, NEW s, NEW t, r \in StType, Delivers(r, s), Delivers(s, t)
  PROVE  Delivers(r, t)
  <1>1. r \in StType /\ s \in StType /\ t \in StType
    BY DEF Delivers
  <1>2. t.window = {w \in r.window : w.count >= t.deliv}
    BY <1>1, StFields DEF Delivers
  <1> QED
    BY <1>1, <1>2, StFields DEF Delivers

\* Only reord and timer change.
TimerOn(s, r) == [s EXCEPT !.reord = r, !.timer = TRUE]
TimerOff(s, r) == [s EXCEPT !.reord = r, !.timer = FALSE]

LEMMA SameWindow ==
  ASSUME NEW s, Closed(s), NEW t \in StType,
         t.next = s.next, t.deliv = s.deliv, t.window = s.window
  PROVE  Delivers(s, t) /\ Closed(t)
  <1>1. Closed(t)
    BY DEF Closed, WindowFrom, Has
  <1>2. t.window = {w \in s.window : w.count >= t.deliv}
    BY StFields DEF Closed, WindowFrom
  <1> QED
    BY <1>1, <1>2, StFields DEF Delivers, Closed, WindowFrom

LEMMA ChangeTimer ==
  ASSUME NEW s, Closed(s), NEW r \in 0 .. Start + MaxSdus
  PROVE  /\ Delivers(s, TimerOn(s, r)) /\ Closed(TimerOn(s, r))
         /\ TimerOn(s, r).reord = r /\ TimerOn(s, r).timer = TRUE
         /\ TimerOn(s, r).deliv = s.deliv /\ TimerOn(s, r).next = s.next
         /\ Delivers(s, TimerOff(s, r)) /\ Closed(TimerOff(s, r))
         /\ TimerOff(s, r).reord = r /\ TimerOff(s, r).timer = FALSE
         /\ TimerOff(s, r).deliv = s.deliv /\ TimerOff(s, r).next = s.next
  <1> DEFINE on == TimerOn(s, r)
             off == TimerOff(s, r)
  <1>1. /\ on \in StType /\ on.next = s.next /\ on.deliv = s.deliv /\ on.window = s.window
        /\ on.reord = r /\ on.timer = TRUE
    BY DEF Closed, StType, TimerOn
  <1>2. /\ off \in StType /\ off.next = s.next /\ off.deliv = s.deliv /\ off.window = s.window
        /\ off.reord = r /\ off.timer = FALSE
    BY DEF Closed, StType, TimerOff
  <1> HIDE DEF on, off
  <1>3. Delivers(s, on) /\ Closed(on)
    BY <1>1, SameWindow
  <1>4. Delivers(s, off) /\ Closed(off)
    BY <1>2, SameWindow
  <1> QED
    BY <1>1, <1>2, <1>3, <1>4 DEF on, off

LEMMA ExpireCloses ==
  ASSUME NEW s, Open(s), s.deliv <= s.reord, s.reord <= s.next,
         cfg.t_reordering \in {"ms0", "running", "infinity"}
  PROVE  LET t == handle_t_reordering_expire(s)
         IN  Delivers(s, t) /\ Closed(t) /\ TimerOk(t)
  <1> DEFINE e == DeliverBelow(s, s.reord)
             d == deliver_all_consecutive_counts(e)
             more == d.deliv < d.next /\ cfg.t_reordering # "ms0"
             t == handle_t_reordering_expire(s)
  <1>1. s \in StType /\ s.reord \in s.deliv .. s.next
    BY StFields DEF Open
  <1>2. Delivers(s, e) /\ Open(e)
    BY <1>1, DeliverBelowOpen
  <1> HIDE DEF e
  <1>3. Delivers(e, d) /\ Closed(d)
    BY <1>2, DeliverAll
  <1> HIDE DEF d
  <1>4. Delivers(s, d) /\ d \in StType
    BY <1>1, <1>2, <1>3, DeliversTransitive DEF Closed
  <1>5. /\ more => t = TimerOn(d, d.next)
        /\ ~more => t = TimerOff(d, d.reord)
    BY <1>4 DEF handle_t_reordering_expire, e, d, StType, TimerOn, TimerOff
  <1>6. d.next \in 0 .. Start + MaxSdus /\ d.reord \in 0 .. Start + MaxSdus
    BY <1>4 DEF StType
  <1> HIDE DEF t
  <1>7. d.deliv <= d.next /\ d.next \in Nat /\ d.deliv \in Nat
    BY <1>4, StFields DEF Delivers
  <1>8. Delivers(d, t) /\ Closed(t) /\ TimerOk(t)
    <2>1. CASE more
      <3>1. /\ Delivers(d, t) /\ Closed(t)
            /\ t.reord = d.next /\ t.timer = TRUE /\ t.deliv = d.deliv /\ t.next = d.next
        <4>1. t = TimerOn(d, d.next)
          BY <1>5, <2>1
        <4> QED
          BY <1>3, <1>6, <4>1, ChangeTimer, Zenon
      <3> QED
        BY <1>7, <2>1, <3>1 DEF TimerOk
    <2>2. CASE ~more
      <3>1. /\ Delivers(d, t) /\ Closed(t)
            /\ t.timer = FALSE /\ t.deliv = d.deliv /\ t.next = d.next
        <4>1. t = TimerOff(d, d.reord)
          BY <1>5, <2>2
        <4> QED
          BY <1>3, <1>6, <4>1, ChangeTimer, Zenon
      <3> QED
        BY <1>7, <2>2, <3>1 DEF TimerOk
    <2> QED
      BY <2>1, <2>2
  <1>9. Delivers(s, t)
    BY <1>1, <1>4, <1>8, DeliversTransitive
  <1> QED
    BY <1>8, <1>9 DEF t

LEMMA HandleTimersCloses ==
  ASSUME NEW s, Closed(s), s.timer => s.reord <= s.next,
         cfg.t_reordering \in {"ms0", "running", "infinity"}
  PROVE  LET t == HandleTimers(s)
         IN  Delivers(s, t) /\ Closed(t) /\ TimerOk(t)
  <1>1. /\ s \in StType /\ s.next \in Nat /\ s.deliv \in Nat /\ s.reord \in Nat
        /\ s.timer \in BOOLEAN /\ s.deliv <= s.next
    BY StFields DEF Closed, WindowFrom
  <1>2. s.reord \in 0 .. Start + MaxSdus /\ s.next \in 0 .. Start + MaxSdus
    BY <1>1 DEF StType
  <1> DEFINE on == s.timer /\ s.deliv < s.reord
             k == StopTimer(s)
             r == TimerOn(s, s.next)
             t == HandleTimers(s)
  <1>3. /\ on => k = TimerOn(s, s.reord)
        /\ ~on => k = TimerOff(s, s.reord)
    BY <1>1 DEF StopTimer, StType, TimerOn, TimerOff
  <1> HIDE DEF k
  <1>4. /\ Delivers(s, k) /\ Closed(k) /\ k.deliv = s.deliv /\ k.next = s.next
        /\ k.reord = s.reord /\ k \in StType
        /\ on => k.timer = TRUE
        /\ ~on => k.timer = FALSE
    <2>1. CASE on
      <3>1. k = TimerOn(s, s.reord)
        BY <1>3, <2>1
      <3>2. /\ Delivers(s, k) /\ Closed(k) /\ k.deliv = s.deliv /\ k.next = s.next
            /\ k.reord = s.reord /\ k.timer = TRUE
        BY <1>2, <3>1, ChangeTimer, Zenon
      <3> QED
        BY <2>1, <3>2 DEF Closed
    <2>2. CASE ~on
      <3>1. k = TimerOff(s, s.reord)
        BY <1>3, <2>2
      <3>2. /\ Delivers(s, k) /\ Closed(k) /\ k.deliv = s.deliv /\ k.next = s.next
            /\ k.reord = s.reord /\ k.timer = FALSE
        BY <1>2, <3>1, ChangeTimer, Zenon
      <3> QED
        BY <2>2, <3>2 DEF Closed
    <2> QED
      BY <2>1, <2>2
  <1>5. /\ Delivers(s, r) /\ Closed(r) /\ r.deliv = s.deliv /\ r.next = s.next
        /\ r.reord = s.next /\ r.timer = TRUE
    BY <1>2, ChangeTimer
  <1>6. CASE cfg.t_reordering = "infinity"
    <2>1. HandleTimers(s) = k
      BY <1>6 DEF HandleTimers, k
    <2>2. TimerOk(k)
      BY <1>1, <1>4, <1>6 DEF TimerOk
    <2> QED
      BY <1>4, <2>1, <2>2
  <1>7. CASE cfg.t_reordering = "ms0"
    <2> DEFINE z == [k EXCEPT !.reord = s.next]
    <2>1. t = handle_t_reordering_expire(z)
      BY <1>7 DEF HandleTimers, k
    <2>2. z = TimerOn(k, s.next) \/ z = TimerOff(k, s.next)
      BY <1>4 DEF TimerOn, TimerOff, StType
    <2> HIDE DEF z
    <2>3. Delivers(k, z) /\ Closed(z) /\ z.deliv = s.deliv /\ z.next = s.next /\ z.reord = s.next
      <3>1. CASE z = TimerOn(k, s.next)
        BY <1>2, <1>4, <3>1, ChangeTimer, Zenon
      <3>2. CASE z = TimerOff(k, s.next)
        BY <1>2, <1>4, <3>2, ChangeTimer, Zenon
      <3> QED
        BY <2>2, <3>1, <3>2
    <2>4. Delivers(s, z)
      BY <1>1, <1>4, <2>3, DeliversTransitive
    <2>5. Open(z)
      BY <2>3, ClosedIsOpen
    <2>6. Delivers(z, t) /\ Closed(t) /\ TimerOk(t)
      BY <1>1, <2>1, <2>3, <2>5, ExpireCloses
    <2> QED
      BY <1>1, <2>4, <2>6, DeliversTransitive
  <1>8. CASE cfg.t_reordering = "running"
    <2>1. t = IF ~k.timer /\ s.deliv < s.next THEN r ELSE k
      BY <1>8 DEF HandleTimers, TimerOn, TimerOff, k
    <2> HIDE DEF r, t
    <2>2. CASE ~k.timer /\ s.deliv < s.next
      <3>1. t = r
        BY <2>1, <2>2
      <3>2. TimerOk(r)
        BY <1>1, <1>5, <2>2 DEF TimerOk
      <3> QED
        BY <1>5, <3>1, <3>2 DEF t
    <2>3. CASE ~(~k.timer /\ s.deliv < s.next)
      <3>1. t = k
        BY <2>1, <2>3
      <3>2. TimerOk(k)
        <4>1. CASE on
          BY <1>1, <1>4, <4>1 DEF TimerOk
        <4>2. CASE ~on
          <5>1. k.timer = FALSE
            BY <1>4, <4>2
          <5>2. ~(s.deliv < s.next)
            BY <2>3, <5>1
          <5> QED
            BY <1>1, <1>4, <5>1, <5>2 DEF TimerOk
        <4> QED
          BY <4>1, <4>2
      <3> QED
        BY <1>4, <3>1, <3>2 DEF t
    <2> QED
      BY <2>2, <2>3
  <1> QED
    BY <1>6, <1>7, <1>8

\* The SDU that apply_reordering accepts for COUNT count.
Acceptable(count, sdu) ==
  /\ count \in Counts /\ sdu \in Pdus /\ sdu.count = count
  /\ cfg.rlc = "um" => sdu.key = key
  /\ count < st.deliv + Window
  /\ ~IsDropped(st, count)

\* rx_window gives an SDU a place of its own.
LEMMA StoredOpen ==
  ASSUME NEW count, NEW sdu, Acceptable(count, sdu), Closed(st)
  PROVE  LET a == Stored(st, count, sdu)
         IN  /\ Open(a) /\ (count # a.deliv => Closed(a))
             /\ a.window = st.window \cup {[count |-> count, sdu |-> sdu]}
             /\ a.deliv = st.deliv /\ a.reord = st.reord /\ a.timer = st.timer
             /\ st.next <= a.next /\ a.next = (IF count >= st.next THEN count + 1 ELSE st.next)
  <1> DEFINE a == Stored(st, count, sdu)
             x == [count |-> count, sdu |-> sdu]
  <1>1. /\ st \in StType /\ st.next \in Nat /\ st.deliv \in Nat /\ count \in Nat
        /\ st.deliv <= count /\ ~Has(st, count) /\ count < st.deliv + Window
        /\ count + 1 \in 0 .. Start + MaxSdus
    <2>1. st \in StType /\ count \in Counts
      BY DEF Closed, Acceptable
    <2>2. st.next \in Nat /\ st.deliv \in Nat /\ Start + MaxSdus \in Nat
      BY <2>1, StFields
    <2>3. count \in Nat /\ count + 1 \in 0 .. Start + MaxSdus
      BY <2>1, PdcpAssumption DEF Counts
    <2> QED
      BY <2>1, <2>2, <2>3 DEF Acceptable, IsDropped
  <1>2. \A w \in st.window : w.count % Window # count % Window
    <2> SUFFICES ASSUME NEW w \in st.window PROVE w.count % Window # count % Window
      OBVIOUS
    <2>1. /\ w.count \in Nat /\ w.count # count /\ w.count > st.deliv
          /\ w.count < st.deliv + Window /\ Window \in Nat
      BY <1>1, StFields DEF Has, Closed, WindowFrom
    <2>2. CASE w.count < count
      BY <1>1, <2>1, <2>2, PlacesDiffer
    <2>3. CASE count < w.count
      BY <1>1, <2>1, <2>3, PlacesDiffer
    <2> QED
      BY <1>1, <2>1, <2>2, <2>3
  <1>3. Put(st, count, sdu) = st.window \cup {x}
    BY <1>2 DEF Put
  <1>4. /\ a.window = st.window \cup {x} /\ a.deliv = st.deliv /\ a.reord = st.reord
        /\ a.timer = st.timer /\ a.next = (IF count >= st.next THEN count + 1 ELSE st.next)
    BY <1>1, <1>3 DEF Stored, StType
  <1>5. x \in [count : Counts, sdu : Pdus] /\ x.count = count /\ x.sdu = sdu
    BY DEF Acceptable
  <1>6. a \in StType
    <2>1. st.window \cup {x} \in SUBSET [count : Counts, sdu : Pdus]
      BY <1>1, <1>5 DEF StType
    <2> HIDE DEF x
    <2>2. (IF count >= st.next THEN count + 1 ELSE st.next) \in 0 .. Start + MaxSdus
      BY <1>1 DEF StType
    <2> QED
      BY <1>1, <1>3, <2>1, <2>2 DEF Stored, StType
  <1>7. IsFiniteSet(a.window)
    <2> HIDE DEF a, x
    <2>1. IsFiniteSet(st.window)
      BY DEF Closed, WindowFrom
    <2> QED
      BY <1>4, <2>1, FS_AddElement
  <1> HIDE DEF a, x
  <1>8. /\ st.next <= a.next /\ count < a.next /\ a.next \in Nat
        /\ \A w \in a.window : w \in st.window \/ w = x
        /\ x \in a.window
    BY <1>1, <1>4
  <1>9. \A w \in a.window :
           /\ w.count \in Nat
           /\ st.deliv <= w.count /\ w.count < a.next
           /\ w.count < a.deliv + Window
           /\ w.sdu.count = w.count
           /\ cfg.rlc = "um" => w.sdu.key = key
           /\ (count # a.deliv => st.deliv + 1 <= w.count)
    <2> SUFFICES ASSUME NEW w \in a.window
                 PROVE  /\ w.count \in Nat
                        /\ st.deliv <= w.count /\ w.count < a.next
                        /\ w.count < a.deliv + Window
                        /\ w.sdu.count = w.count
                        /\ cfg.rlc = "um" => w.sdu.key = key
                        /\ (count # a.deliv => st.deliv + 1 <= w.count)
      OBVIOUS
    <2>1. CASE w \in st.window
      BY <1>1, <1>4, <1>8, <2>1, StFields DEF Closed, WindowFrom
    <2>2. CASE w = x
      BY <1>1, <1>4, <1>5, <1>8, <2>2 DEF Acceptable
    <2> QED
      BY <1>8, <2>1, <2>2
  <1>10. \A v, w \in a.window : v.count = w.count => v = w
    BY <1>1, <1>4, <1>5, <1>8 DEF Closed, WindowFrom, Has
  <1>11. Has(a, a.next - 1)
    <2>1. CASE count >= st.next
      <3>1. a.next - 1 = count
        BY <1>1, <1>4, <2>1
      <3> QED
        BY <1>5, <1>8, <3>1 DEF Has
    <2>2. CASE ~(count >= st.next)
      <3>1. st.deliv < st.next /\ a.next = st.next
        BY <1>1, <1>4, <2>2
      <3>2. PICK w \in st.window : w.count = st.next - 1
        BY <3>1 DEF Closed, WindowFrom, Has
      <3> QED
        BY <1>4, <3>1, <3>2 DEF Has
    <2> QED
      BY <2>1, <2>2
  <1>12. a.deliv <= a.next
    BY <1>1, <1>4, <1>8
  <1> QED
    BY <1>4, <1>6, <1>7, <1>8, <1>9, <1>10, <1>11, <1>12 DEF a, x, Open, Closed, WindowFrom

LEMMA ReorderedCloses ==
  ASSUME NEW count, NEW sdu, Acceptable(count, sdu), Closed(st),
         st.timer => st.reord <= st.next,
         cfg.t_reordering \in {"ms0", "running", "infinity"}
  PROVE  LET t == Reordered(st, count, sdu)
         IN  Delivers(Stored(st, count, sdu), t) /\ Closed(t) /\ TimerOk(t)
  <1> DEFINE a == Stored(st, count, sdu)
             b == IF count = a.deliv THEN deliver_all_consecutive_counts(a) ELSE a
  <1>1. /\ Open(a) /\ (count # a.deliv => Closed(a)) /\ a.reord = st.reord
        /\ a.timer = st.timer /\ st.next <= a.next
    BY StoredOpen
  <1>2. Reordered(st, count, sdu) = HandleTimers(b)
    BY DEF Reordered
  <1> HIDE DEF a
  <1>3. Delivers(a, b) /\ Closed(b) /\ b.reord = a.reord
    <2>1. CASE count = a.deliv
      BY <1>1, <2>1, DeliverAll
    <2>2. CASE count # a.deliv
      BY <1>1, <2>2, SameWindow DEF Open
    <2> QED
      BY <2>1, <2>2
  <1>4. b.timer => b.reord <= b.next
    <2>1. b.timer = a.timer
      BY DEF deliver_all_consecutive_counts, DeliverBelow, Open, StType
    <2> QED
      BY <1>1, <1>3, <2>1, StFields DEF Closed, Delivers
  <1> HIDE DEF b
  <1>5. Delivers(b, HandleTimers(b)) /\ Closed(HandleTimers(b)) /\ TimerOk(HandleTimers(b))
    BY <1>3, <1>4, HandleTimersCloses
  <1>6. Delivers(a, HandleTimers(b))
    BY <1>1, <1>3, <1>5, DeliversTransitive DEF Open
  <1> QED
    BY <1>2, <1>5, <1>6 DEF a

\* up, before anything is passed up from s, is before all of it.
UpBefore(s) ==
  /\ up \in [key : 0 .. MaxKey, count : Int] /\ key \in 0 .. MaxKey
  /\ cfg.rlc \in {"am", "um"}
  /\ cfg.rlc = "am" => up.count < s.deliv
  /\ cfg.rlc = "um" => up.key <= key /\ (up.key = key => up.count < s.deliv)

\* The SDUs that leave a window are passed up in order, the greatest last.
LEMMA PassedUpInOrder ==
  ASSUME NEW s, Open(s), NEW t, PassedUp(s, t), UpBefore(s), ordered = TRUE
  PROVE  /\ ordered' = TRUE
         /\ \/ s.window \ t.window = {} /\ up' = up
            \/ \E w \in s.window \ t.window :
                 up' = w.sdu /\ \A v \in s.window \ t.window : v.count <= w.count
  <1> DEFINE W == s.window \ t.window
             N == Cardinality(W)
             A == Ascending(W)
             sdus == <<up>> \o A
  <1>1. /\ s \in StType /\ W \in SUBSET s.window /\ s.deliv \in Nat /\ MaxKey \in Nat
        /\ IsFiniteSet(s.window)
    BY StFields, PdcpAssumption DEF Open, WindowFrom
  <1>2. Distinct(W)
    <2>1. IsFiniteSet(W)
      BY <1>1, FS_Subset
    <2> QED
      BY <1>1, <2>1, StFields DEF Distinct, Open, WindowFrom
  <1>3. \A w \in W : /\ w.sdu \in Pdus /\ w.sdu.count = w.count /\ w.count >= s.deliv
                     /\ w.count \in Nat
                     /\ cfg.rlc = "um" => w.sdu.key = key
    BY <1>1, StFields DEF Open, WindowFrom
  <1> HIDE DEF W
  <1>4. /\ N \in Nat
        /\ A = [i \in 1 .. N |-> A[i]]
        /\ \A i \in 1 .. N : \E w \in W : A[i] = w.sdu
        /\ \A i \in 2 .. N : \E v, w \in W : /\ v.count < w.count
                                             /\ A[i - 1] = v.sdu /\ A[i] = w.sdu
        /\ N > 0 => \E w \in W : A[N] = w.sdu /\ \A v \in W : v.count <= w.count
        /\ W = {} <=> N = 0
    BY <1>2, AscendingOrder
  <1> HIDE DEF A, N
  <1>12. N \in Nat
    BY <1>4
  <1>5. A \in Seq(Pdus) /\ Len(A) = N
    <2>1. \A i \in 1 .. N : A[i] \in Pdus
      BY <1>3, <1>4
    <2>2. A \in [1 .. N -> Pdus]
      BY <1>4, <2>1
    <2> QED
      BY <1>4, <2>2
  <1>6. /\ Len(sdus) = N + 1 /\ sdus[1] = up
        /\ \A i \in 2 .. N + 1 : sdus[i] = A[i - 1]
    BY <1>4, <1>5
  <1>7. up' = sdus[N + 1] /\ ordered' = (ordered /\ \A i \in 2 .. N + 1 : After(sdus[i], sdus[i - 1]))
    <2>1. /\ up' = sdus[Len(sdus)]
          /\ ordered' = (ordered /\ \A i \in 2 .. Len(sdus) : After(sdus[i], sdus[i - 1]))
      BY DEF PassedUp, A, W
    <2> QED
      BY <1>6, <2>1
  <1> HIDE DEF sdus
  <1>8. ASSUME NEW i \in 2 .. N + 1
        PROVE  After(sdus[i], sdus[i - 1])
    <2>1. CASE i = 2
      <3>1. PICK w \in W : A[1] = w.sdu
        <4>1. 1 \in 1 .. N
          BY <1>12, <2>1
        <4> QED
          BY <1>4, <4>1
      <3>2. sdus[i] = w.sdu /\ sdus[i - 1] = up
        BY <1>6, <2>1, <3>1
      <3>3. w.sdu \in Pdus /\ w.sdu.count >= s.deliv /\ (cfg.rlc = "um" => w.sdu.key = key)
        BY <1>3
      <3> QED
        BY <1>1, <3>2, <3>3 DEF After, UpBefore, Pdus, Counts
    <2>2. CASE i # 2
      <3>1. i - 1 \in 2 .. N /\ i - 1 \in 2 .. N + 1
        BY <1>4, <2>2
      <3>2. PICK v \in W, w \in W : v.count < w.count /\ A[i - 1 - 1] = v.sdu /\ A[i - 1] = w.sdu
        BY <1>4, <3>1
      <3>3. sdus[i] = w.sdu /\ sdus[i - 1] = v.sdu
        BY <1>6, <3>1, <3>2
      <3> QED
        BY <1>3, <3>2, <3>3 DEF After
    <2> QED
      BY <2>1, <2>2
  <1>9. ordered' = TRUE
    BY <1>7, <1>8
  <1>10. CASE N = 0
    <2>1. sdus[N + 1] = up
      BY <1>6, <1>10
    <2> QED
      BY <1>4, <1>7, <1>9, <1>10, <2>1 DEF W
  <1>11. CASE N > 0
    <2>1. PICK w \in W : A[N] = w.sdu /\ \A v \in W : v.count <= w.count
      BY <1>4, <1>11
    <2>2. sdus[N + 1] = A[N]
      <3>1. \A i \in 2 .. N + 1 : i = N + 1 => i - 1 = N
        BY <1>12
      <3>2. PICK i \in 2 .. N + 1 : i = N + 1
        BY <1>12, <1>11
      <3>3. sdus[i] = A[i - 1]
        BY <1>6
      <3>4. i - 1 = N
        BY <3>1, <3>2
      <3> QED
        BY <3>2, <3>3, <3>4, Zenon
    <2> QED
      BY <1>7, <1>9, <2>1, <2>2 DEF W
  <1>13. N = 0 \/ N > 0
    BY <1>12
  <1> QED
    BY <1>10, <1>11, <1>13, Zenon

\* A delivery keeps up behind RX_DELIV, and what left the window is not after
\* the SDU that was passed up last.
LEMMA DeliveryKeepsOrder ==
  ASSUME NEW s, Open(s), NEW t, Delivers(s, t), PassedUp(s, t), UpBefore(s), ordered = TRUE
  PROVE  /\ ordered' = TRUE
         /\ up' \in [key : 0 .. MaxKey, count : Int]
         /\ cfg.rlc = "am" => up'.count < t.deliv
         /\ cfg.rlc = "um" => up'.key <= key /\ (up'.key = key => up'.count < t.deliv)
         /\ \A w \in s.window : w \in t.window \/ ~After(w.sdu, up')
  <1> DEFINE W == s.window \ t.window
  <1>1. /\ s \in StType /\ t \in StType /\ s.deliv \in Nat /\ t.deliv \in Nat
        /\ s.deliv <= t.deliv /\ key \in Int
    BY StFields DEF Open, Delivers, UpBefore
  <1>2. ordered' = TRUE /\ (\/ W = {} /\ up' = up
                            \/ \E w \in W : up' = w.sdu /\ \A v \in W : v.count <= w.count)
    BY PassedUpInOrder
  <1>3. \A w \in W : /\ w.sdu \in Pdus /\ w.sdu.count = w.count /\ w.count < t.deliv
                     /\ w.count \in Nat
                     /\ cfg.rlc = "um" => w.sdu.key = key
    BY <1>1, StFields DEF Open, WindowFrom, Delivers
  <1>4. CASE W = {} /\ up' = up
    BY <1>1, <1>2, <1>4 DEF UpBefore
  <1>5. ASSUME NEW w \in W, up' = w.sdu, \A v \in W : v.count <= w.count
        PROVE  /\ up' \in [key : 0 .. MaxKey, count : Int]
               /\ cfg.rlc = "am" => up'.count < t.deliv
               /\ cfg.rlc = "um" => up'.key <= key /\ (up'.key = key => up'.count < t.deliv)
               /\ \A v \in s.window : v \in t.window \/ ~After(v.sdu, up')
    <2>1. w.sdu \in Pdus /\ w.sdu.count < t.deliv /\ (cfg.rlc = "um" => w.sdu.key = key)
      BY <1>3
    <2>2. up' \in [key : 0 .. MaxKey, count : Int]
      BY <1>5, <2>1 DEF Pdus, Counts
    <2>3. ASSUME NEW v \in W PROVE ~After(v.sdu, up')
      BY <1>3, <1>5 DEF After
    <2> QED
      BY <1>1, <1>5, <2>1, <2>2, <2>3
  <1> QED
    BY <1>2, <1>4, <1>5

-----------------------------------------------------------------------------
(* Tasks and PDUs on their way.                                            *)

LEMMA RangeAppend ==
  ASSUME NEW S, NEW q \in Seq(S), NEW e \in S
  PROVE  /\ Append(q, e) \in Seq(S) /\ Len(Append(q, e)) = Len(q) + 1
         /\ Range(Append(q, e)) = Range(q) \cup {e}
  <1>1. /\ Append(q, e) \in Seq(S) /\ Len(Append(q, e)) = Len(q) + 1
        /\ \A i \in 1 .. Len(q) : Append(q, e)[i] = q[i]
        /\ Append(q, e)[Len(q) + 1] = e
    OBVIOUS
  <1>2. /\ DOMAIN q = 1 .. Len(q) /\ DOMAIN Append(q, e) = 1 .. Len(q) + 1
        /\ 1 .. Len(q) + 1 = (1 .. Len(q)) \cup {Len(q) + 1}
    BY <1>1
  <1> QED
    BY <1>1, <1>2 DEF Range

LEMMA RangeTail ==
  ASSUME NEW S, NEW q \in Seq(S), q # << >>
  PROVE  /\ Tail(q) \in Seq(S) /\ Len(Tail(q)) = Len(q) - 1
         /\ Range(Tail(q)) \subseteq Range(q) /\ Head(q) \in Range(q)
  <1>1. /\ Tail(q) \in Seq(S) /\ Len(Tail(q)) = Len(q) - 1
        /\ \A i \in 1 .. Len(q) - 1 : Tail(q)[i] = q[i + 1] /\ i + 1 \in 1 .. Len(q)
    OBVIOUS
  <1>2. DOMAIN q = 1 .. Len(q) /\ DOMAIN Tail(q) = 1 .. Len(q) - 1
    BY <1>1
  <1>3. Head(q) = q[1] /\ 1 \in 1 .. Len(q)
    OBVIOUS
  <1>4. ASSUME NEW x \in Range(Tail(q)) PROVE x \in Range(q)
    <2>1. PICK i \in 1 .. Len(q) - 1 : x = Tail(q)[i]
      BY <1>2 DEF Range
    <2> QED
      BY <1>1, <1>2, <2>1 DEF Range
  <1> QED
    BY <1>1, <1>2, <1>3, <1>4 DEF Range

LEMMA RangeFinite ==
  ASSUME NEW S, NEW q \in Seq(S)
  PROVE  IsFiniteSet(Range(q)) /\ Range(q) \in SUBSET S
  <1>1. IsFiniteSet(1 .. Len(q))
    BY FS_Interval
  <1>2. q \in Surjection(1 .. Len(q), Range(q))
    BY DEF Surjection, Range
  <1>3. IsFiniteSet(Range(q))
    BY <1>1, <1>2, FS_Surjection
  <1> QED
    BY <1>3 DEF Range

LEMMA TaskTyped ==
  ASSUME NEW deliv \in Nat, NEW p \in Pdus
  PROVE  Task(deliv, p) \in TaskType /\ Task(deliv, p).pdu = p
         /\ Task(deliv, p).count = RcvdCount(deliv, SN(p.count))
  <1>1. p.count \in Nat /\ Mod \in Nat \ {0} /\ CountMod \in Nat \ {0}
    BY PdcpAssumption DEF Pdus, Counts
  <1>2. SN(p.count) \in Int /\ HFN(deliv) \in Int
    BY <1>1 DEF SN, HFN
  <1>3. \A h \in Int : COUNT(h, SN(p.count)) \in Int
    BY <1>1, <1>2 DEF COUNT
  <1>4. PICK h \in Int : RcvdCount(deliv, SN(p.count)) = COUNT(h, SN(p.count))
    <2>1. HFN(deliv) + 1 \in Int /\ HFN(deliv) - 1 \in Int
      BY <1>2
    <2> QED
      BY <1>2, <2>1 DEF RcvdCount
  <1> QED
    BY <1>3, <1>4 DEF Task, TaskType

\* The PDUs that handle_data_pdus hands to the crypto executor.
LEMMA DataPdus ==
  ASSUME NEW P \in SUBSET Pdus, IsFiniteSet(P), NEW deliv \in Nat,
         crypto \in SUBSET TaskType, IsFiniteSet(crypto), handle_data_pdus(P, deliv)
  PROVE  /\ crypto' \in SUBSET TaskType /\ IsFiniteSet(crypto')
         /\ crypto \subseteq crypto'
         /\ \A t \in crypto' : t \in crypto \/ \E p \in P : t = Task(deliv, p)
         /\ Cardinality(crypto' \ crypto) = Cardinality(crypto') - Cardinality(crypto)
         /\ Cardinality(crypto') \in Nat /\ Cardinality(crypto) \in Nat
  <1> DEFINE I == {Task(deliv, p) : p \in P}
             f == [p \in P |-> Task(deliv, p)]
  <1>1. PICK T \in SUBSET I : crypto' = crypto \cup T
    BY DEF handle_data_pdus
  <1>2. f \in Surjection(P, I)
    BY DEF Surjection
  <1>3. IsFiniteSet(I)
    <2> HIDE DEF f, I
    <2> QED
      BY <1>2, FS_Surjection
  <1>4. IsFiniteSet(T)
    <2> HIDE DEF I
    <2> QED
      BY <1>1, <1>3, FS_Subset
  <1>5. IsFiniteSet(crypto')
    BY <1>1, <1>4, FS_Union
  <1>6. I \in SUBSET TaskType
    BY TaskTyped
  <1>7. crypto' \cap crypto = crypto
    BY <1>1
  <1>8. Cardinality(crypto' \ crypto) = Cardinality(crypto') - Cardinality(crypto)
    BY <1>5, <1>7, FS_Difference
  <1>9. Cardinality(crypto') \in Nat /\ Cardinality(crypto) \in Nat
    BY <1>5, FS_CardinalityType
  <1> QED
    BY <1>1, <1>5, <1>6, <1>8, <1>9

LEMMA InFlightTyped ==
  ASSUME TypeInv
  PROVE  /\ \A q \in InFlight : q \in Pdus /\ q.count \in Nat /\ q.key \in Nat
         /\ \A t \in Tasks : t \in TaskType /\ t.count \in Int /\ t.pdu \in InFlight
         /\ \A p \in Waiting : p \in InFlight
  <1>1. \A t \in Tasks : t \in TaskType
    <2>1. \A x \in Range(ul) : x \in UlTask
      BY RangeFinite DEF TypeInv
    <2> QED
      BY <2>1 DEF Tasks, TypeInv, UlTask
  <1>2. Range(buffer) \in SUBSET Pdus
    BY RangeFinite DEF TypeInv
  <1>3. \A q \in InFlight : q \in Pdus
    BY <1>1, <1>2 DEF InFlight, Waiting, TypeInv, TaskType
  <1> QED
    BY <1>1, <1>3, PdcpAssumption DEF InFlight, TaskType, Pdus, Counts

\* What is between the UE and the window when nothing is added to it.
LEMMA LessInFlight ==
  ASSUME AheadInv, BehindInv, TypeInv, UNCHANGED <<cfg, key, ue>>,
         Waiting' \subseteq Waiting, InFlight' \subseteq InFlight,
         st'.deliv \in Nat, st.deliv <= st'.deliv,
         \A p \in Waiting : p.key = key => st'.next <= p.count + Window
  PROVE  AheadInv' /\ BehindInv'
  <1>1. \A q \in InFlight : q.count \in Int
    BY InFlightTyped
  <1>2. st.deliv \in Nat /\ Window \in Nat
    BY PdcpAssumption, StFields DEF TypeInv
  <1>3. AheadInv'
    BY <1>1, <1>2 DEF AheadInv
  <1>4. BehindInv'
    BY DEF BehindInv
  <1> QED
    BY <1>3, <1>4

LEMMA TokenBounds ==
  ASSUME TypeInv, TokenInv
  PROVE  /\ Cardinality(crypto) \in Nat /\ Len(ul) \in Nat
         /\ crypto # {} => Cardinality(crypto) > 0
         /\ ul # << >> => Len(ul) > 0
         /\ tok.event => crypto = {} /\ ul = << >> /\ ctl.proc # "idle"
  <1>1. Cardinality(crypto) \in Nat /\ (crypto # {} => Cardinality(crypto) > 0)
    BY FS_CardinalityType, FS_EmptySet DEF TypeInv
  <1>2. Len(ul) \in Nat /\ (ul # << >> => Len(ul) > 0)
    BY DEF TypeInv
  <1>3. tok.event => crypto = {} /\ ul = << >> /\ ctl.proc # "idle"
    BY <1>1, <1>2 DEF TokenInv
  <1> QED
    BY <1>1, <1>2, <1>3

-----------------------------------------------------------------------------
(* Every action preserves the invariant.                                   *)

\* The parts about the window and the UE, when neither changes.
LEMMA WindowFrame ==
  ASSUME IInv, UNCHANGED <<cfg, st, up, ordered, key, ue>>,
         ctl.stopped => ctl'.stopped
  PROVE  UeInv' /\ WindowInv' /\ TimerInv' /\ UpInv' /\ (ordered = TRUE)'
  <1>1. UeInv' /\ WindowInv' /\ UpInv' /\ (ordered = TRUE)'
    BY DEF IInv, UeInv, WindowInv, WindowFrom, Has, UpInv
  <1>2. TimerInv'
    BY DEF IInv, TimerInv
  <1> QED
    BY <1>1, <1>2

LEMMA ReceivePduStep ==
  ASSUME IInv, ReceivePdu
  PROVE  IInv'
  <1> USE DEF IInv
  <1>1. PICK p \in air : ctl.alive /\ air' = air \ {p} /\ handle_pdu(p)
    BY DEF ReceivePdu
  <1>2. UNCHANGED <<cfg, st, up, ordered, key, ul, ctl, ue>>
    BY DEF ReceivePdu
  <1>3. p \in Pdus /\ st.deliv \in Nat /\ p \in Waiting /\ p \in InFlight /\ p.count \in Nat
    BY InFlightTyped, StFields DEF TypeInv, Waiting
  <1>4. Cardinality(crypto) \in Nat /\ Len(ul) \in Nat
    BY TokenBounds
  <1>5. /\ crypto' \in SUBSET TaskType /\ IsFiniteSet(crypto')
        /\ \A t \in crypto' : t \in crypto \/ t = Task(st.deliv, p)
        /\ Cardinality(crypto') \in Nat
        /\ tok' \in [tokens : Int, event : BOOLEAN] /\ tok'.event = tok.event
        /\ tok'.tokens = tok.tokens + Cardinality(crypto') - Cardinality(crypto)
        /\ crypto' # crypto => ctl.proc = "idle"
        /\ buffer' \in Seq(Pdus) /\ Len(buffer') <= BufferSize
        /\ Range(buffer') \subseteq Range(buffer) \cup {p}
    <2>1. CASE UNCHANGED <<buffer, crypto, tok>>
      BY <1>4, <2>1 DEF TypeInv
    <2>2. CASE /\ buffer' = IF Len(buffer) < BufferSize THEN Append(buffer, p) ELSE buffer
               /\ UNCHANGED <<crypto, tok>>
      <3>1. /\ Append(buffer, p) \in Seq(Pdus) /\ Len(Append(buffer, p)) = Len(buffer) + 1
            /\ Range(Append(buffer, p)) = Range(buffer) \cup {p}
        BY <1>3, RangeAppend DEF TypeInv
      <3>2. /\ buffer' \in Seq(Pdus) /\ Len(buffer') <= BufferSize
            /\ Range(buffer') \subseteq Range(buffer) \cup {p}
        <4>1. buffer \in Seq(Pdus) /\ Len(buffer) \in Nat /\ BufferSize \in Nat /\ Len(buffer) <= BufferSize
          BY PdcpAssumption DEF TypeInv
        <4>2. CASE Len(buffer) < BufferSize
          BY <2>2, <3>1, <4>1, <4>2
        <4>3. CASE ~(Len(buffer) < BufferSize)
          BY <2>2, <4>1, <4>3
        <4> QED
          BY <4>2, <4>3
      <3> QED
        BY <1>4, <2>2, <3>2 DEF TypeInv
    <2>3. CASE /\ ~ctl.stopped /\ ~ctl.buffering
               /\ handle_data_pdus({p}, st.deliv)
               /\ tok' = [tok EXCEPT !.tokens = @ + Cardinality(crypto' \ crypto)]
               /\ UNCHANGED buffer
      <3>1. {p} \in SUBSET Pdus /\ IsFiniteSet({p})
        BY <1>3, FS_Singleton
      <3>2. crypto \in SUBSET TaskType /\ IsFiniteSet(crypto)
        BY DEF TypeInv
      <3>3. /\ crypto' \in SUBSET TaskType /\ IsFiniteSet(crypto')
            /\ \A t \in crypto' : t \in crypto \/ \E q \in {p} : t = Task(st.deliv, q)
            /\ Cardinality(crypto' \ crypto) = Cardinality(crypto') - Cardinality(crypto)
            /\ Cardinality(crypto') \in Nat
        BY <1>3, <2>3, <3>1, <3>2, DataPdus
      <3>4. ctl.proc = "idle"
        <4>1. ctl.proc \in {"idle", "rekey", "release"}
          BY DEF TypeInv
        <4>2. ctl.proc # "rekey" /\ ctl.proc # "release"
          BY <2>3 DEF TokenInv
        <4> QED
          BY <4>1, <4>2
      <3>5. /\ tok' \in [tokens : Int, event : BOOLEAN] /\ tok'.event = tok.event
            /\ tok'.tokens = tok.tokens + Cardinality(crypto') - Cardinality(crypto)
        <4>1. tok \in [tokens : Int, event : BOOLEAN]
          BY DEF TypeInv
        <4>2. tok' = [tok EXCEPT !.tokens = tok.tokens + (Cardinality(crypto') - Cardinality(crypto))]
          BY <2>3, <3>3
        <4>3. tok.tokens + (Cardinality(crypto') - Cardinality(crypto)) \in Int
          BY <1>4, <3>3, <4>1
        <4>4. /\ tok' \in [tokens : Int, event : BOOLEAN] /\ tok'.event = tok.event
              /\ tok'.tokens = tok.tokens + (Cardinality(crypto') - Cardinality(crypto))
          BY <4>1, <4>2, <4>3
        <4> QED
          BY <1>4, <3>3, <4>1, <4>4
      <3> QED
        BY <2>3, <3>3, <3>4, <3>5 DEF TypeInv
    <2> QED
      BY <1>1, <2>1, <2>2, <2>3 DEF handle_pdu
  <1>6. TypeInv'
    BY <1>1, <1>2, <1>5 DEF TypeInv
  <1>7. TokenInv'
    <2>1. tok'.event => tok'.tokens = -1
      BY <1>4, <1>5, TokenBounds DEF TokenInv, TypeInv
    <2>2. tok'.tokens = Cardinality(crypto') + Len(ul) - (IF ctl.proc = "idle" THEN 0 ELSE 1)
      BY <1>4, <1>5 DEF TokenInv
    <2> QED
      BY <1>2, <2>1, <2>2 DEF TokenInv
  <1>8. KeyInv'
    BY <1>2 DEF KeyInv
  <1>9. UeInv' /\ WindowInv' /\ TimerInv' /\ UpInv' /\ (ordered = TRUE)'
    BY <1>2, WindowFrame
  <1>10. PassedInv'
    BY <1>2 DEF PassedInv
  <1>11. Task(st.deliv, p).pdu = p /\ Task(st.deliv, p).count = RcvdCount(st.deliv, SN(p.count))
    BY <1>3, TaskTyped
  <1>12. CountExact'
    <2>1. ASSUME p.key = key PROVE Task(st.deliv, p).count = p.count
      <3>1. p.count < st.deliv + Window
        BY <1>3, <2>1 DEF AheadInv
      <3>2. st.deliv <= p.count + Window
        <4>1. st.next \in Nat /\ Window \in Nat /\ st.deliv <= st.next
          BY StFields, PdcpAssumption DEF WindowInv, WindowFrom, TypeInv
        <4>2. st.next <= p.count + Window
          BY <1>3, <2>1 DEF BehindInv
        <4> QED
          BY <1>3, <4>1, <4>2
      <3>3. p.count < CountMod
        BY <1>3, PdcpAssumption DEF Pdus, Counts
      <3> QED
        BY <1>3, <1>11, <3>1, <3>2, <3>3, RcvdCountExact
    <2> QED
      BY <1>2, <1>5, <1>11, <2>1 DEF CountExact
  <1>13. AheadInv' /\ BehindInv'
    <2>1. Waiting' \subseteq Waiting
      BY <1>1, <1>5 DEF Waiting
    <2>2. InFlight' \subseteq InFlight
      BY <1>2, <1>3, <1>5, <1>11, <2>1 DEF InFlight, Tasks
    <2> QED
      BY <1>2, <1>3, <2>1, <2>2, LessInFlight DEF BehindInv
  <1> QED
    BY <1>6, <1>7, <1>8, <1>9, <1>10, <1>12, <1>13

\* The token returned last, and only that one, sets the event.
LEMMA ReturnToken ==
  ASSUME TypeInv, ~tok.event
  PROVE  /\ return_token(tok) \in [tokens : Int, event : BOOLEAN]
         /\ return_token(tok).tokens = tok.tokens - 1
         /\ return_token(tok).event => return_token(tok).tokens = -1
  <1>1. tok \in [tokens : Int, event : BOOLEAN] /\ tok.tokens \in Int
    BY DEF TypeInv
  <1>2. /\ return_token(tok).tokens = tok.tokens - 1
        /\ return_token(tok).event = (tok.event \/ tok.tokens = 0)
    BY DEF return_token
  <1>3. return_token(tok) \in [tokens : Int, event : BOOLEAN]
    BY <1>1 DEF return_token
  <1>4. return_token(tok).event => tok.tokens = 0
    BY <1>2
  <1> QED
    BY <1>1, <1>2, <1>3, <1>4

LEMMA ApplySecurityStep ==
  ASSUME IInv, apply_security
  PROVE  IInv'
  <1> USE DEF IInv
  <1>1. UNCHANGED <<cfg, st, up, ordered, key, ctl, buffer, ue, air>>
    BY DEF apply_security
  <1> DEFINE item(t) == [task |-> t, passed |-> t.pdu = [key |-> key, count |-> t.count]]
  <1>2. PICK t \in crypto : /\ crypto' = crypto \ {t}
                            /\ \/ ul' = Append(ul, item(t)) /\ tok' = tok
                               \/ ul' = ul /\ tok' = return_token(tok)
    BY DEF apply_security
  <1>3. Cardinality(crypto) \in Nat /\ Len(ul) \in Nat /\ ~tok.event /\ tok.tokens \in Int
    BY <1>2, TokenBounds DEF TypeInv
  <1>4. IsFiniteSet(crypto') /\ Cardinality(crypto') = Cardinality(crypto) - 1
    BY <1>2, FS_RemoveElement DEF TypeInv
  <1>5. t \in TaskType /\ item(t) \in UlTask
    BY <1>2 DEF TypeInv, UlTask
  <1>6. /\ item(t).task = t
        /\ item(t).passed => t.pdu = [key |-> key, count |-> t.count]
    OBVIOUS
  <1>7. /\ ul' \in Seq(UlTask)
        /\ Range(ul') \subseteq Range(ul) \cup {item(t)}
        /\ tok' \in [tokens : Int, event : BOOLEAN]
        /\ tok'.event => tok'.tokens = -1
        /\ tok'.tokens = tok.tokens - 1 + (Len(ul') - Len(ul)) /\ Len(ul') \in Nat
    <2>1. CASE ul' = Append(ul, item(t)) /\ tok' = tok
      <3> HIDE DEF item
      <3>1. /\ ul' \in Seq(UlTask) /\ Len(ul') = Len(ul) + 1
            /\ Range(ul') = Range(ul) \cup {item(t)}
        <4>1. ul \in Seq(UlTask)
          BY DEF TypeInv
        <4> QED
          BY <1>5, <2>1, <4>1, RangeAppend
      <3>2. tok'.tokens = tok.tokens - 1 + (Len(ul') - Len(ul)) /\ Len(ul') \in Nat
        BY <1>3, <2>1, <3>1
      <3> QED
        BY <1>3, <2>1, <3>1, <3>2 DEF TypeInv
    <2>2. CASE ul' = ul /\ tok' = return_token(tok)
      <3>1. /\ tok' \in [tokens : Int, event : BOOLEAN]
            /\ tok'.tokens = tok.tokens - 1 /\ (tok'.event => tok'.tokens = -1)
        BY <1>3, <2>2, ReturnToken
      <3> QED
        BY <1>3, <2>2, <3>1 DEF TypeInv
    <2> QED
      BY <1>2, <2>1, <2>2
  <1> HIDE DEF item
  <1>8. TypeInv'
    BY <1>1, <1>2, <1>4, <1>7 DEF TypeInv
  <1>9. TokenInv'
    <2>1. tok'.tokens = Cardinality(crypto') + Len(ul') - (IF ctl.proc = "idle" THEN 0 ELSE 1)
      <3>1. tok.tokens = Cardinality(crypto) + Len(ul) - (IF ctl.proc = "idle" THEN 0 ELSE 1)
        BY DEF TokenInv
      <3>2. tok'.tokens = tok.tokens - 1 + (Len(ul') - Len(ul)) /\ Len(ul') \in Nat
        BY <1>7
      <3>3. Cardinality(crypto') = Cardinality(crypto) - 1
        BY <1>4
      <3>4. PICK w \in {0, 1} : w = IF ctl.proc = "idle" THEN 0 ELSE 1
        OBVIOUS
      <3>5. tok.tokens = Cardinality(crypto) + Len(ul) - w
        BY <3>1, <3>4, Zenon
      <3>6. tok'.tokens = Cardinality(crypto') + Len(ul') - w
        BY <1>3, <3>2, <3>3, <3>5
      <3> QED
        BY <3>4, <3>6, Zenon
    <2> QED
      BY <1>1, <1>7, <2>1 DEF TokenInv
  <1>10. KeyInv'
    BY <1>1 DEF KeyInv
  <1>11. UeInv' /\ WindowInv' /\ TimerInv' /\ UpInv' /\ (ordered = TRUE)'
    BY <1>1, WindowFrame
  <1>12. PassedInv'
    BY <1>1, <1>6, <1>7 DEF PassedInv
  <1>13. Tasks' \subseteq Tasks
    BY <1>2, <1>6, <1>7 DEF Tasks
  <1>14. CountExact'
    BY <1>1, <1>13 DEF CountExact, Tasks
  <1>15. AheadInv' /\ BehindInv'
    <2>1. Waiting' \subseteq Waiting
      BY <1>1 DEF Waiting
    <2>2. InFlight' \subseteq InFlight
      BY <1>13, <2>1 DEF InFlight
    <2>3. st'.deliv \in Nat /\ st.deliv <= st'.deliv
      BY <1>1, StFields DEF TypeInv
    <2> QED
      BY <1>1, <2>1, <2>2, <2>3, LessInFlight DEF BehindInv
  <1> QED
    BY <1>8, <1>9, <1>10, <1>11, <1>12, <1>14, <1>15

\* A delivery from s, which differs from st at most in what was stored.
LEMMA DeliveryStep ==
  ASSUME IInv, UNCHANGED <<cfg, key, ctl, ue>>,
         NEW s, Open(s), s.deliv = st.deliv,
         Delivers(s, st'), Closed(st'), TimerOk(st'), PassedUp(s, st'),
         cfg.rlc = "am" \/ ue.key = key => st'.next <= ue.top,
         cfg.rlc = "um" /\ ue.key < key => st'.next = 0
  PROVE  /\ UeInv' /\ WindowInv' /\ TimerInv' /\ UpInv' /\ (ordered = TRUE)'
         /\ up' \in [key : 0 .. MaxKey, count : Int]
         /\ st' \in StType /\ st'.deliv \in Nat /\ st.deliv <= st'.deliv
  <1> USE DEF IInv
  <1>1. UpBefore(s)
    BY DEF UpBefore, UpInv, TypeInv
  <1>2. /\ ordered' = TRUE
        /\ up' \in [key : 0 .. MaxKey, count : Int]
        /\ cfg.rlc = "am" => up'.count < st'.deliv
        /\ cfg.rlc = "um" => up'.key <= key /\ (up'.key = key => up'.count < st'.deliv)
    BY <1>1, DeliveryKeepsOrder
  <1>3. UpInv'
    BY <1>2 DEF UpInv
  <1>4. TimerInv'
    BY DEF TimerInv, TimerOk
  <1>5. UeInv'
    BY DEF UeInv
  <1>6. WindowInv'
    BY DEF Closed, WindowInv, WindowFrom, Has
  <1>7. st' \in StType /\ st'.deliv \in Nat /\ st.deliv <= st'.deliv
    BY StFields DEF Closed, Delivers
  <1> QED
    BY <1>2, <1>3, <1>4, <1>5, <1>6, <1>7

\* The parts about the SDUs and the PDUs when the window changes by storing
\* task t, or by nothing.
LEMMA ReorderingStep ==
  ASSUME IInv, NEW t \in Tasks, t.pdu = [key |-> key, count |-> t.count],
         apply_reordering(t), UNCHANGED <<cfg, key, ctl, ue>>
  PROVE  /\ UeInv' /\ WindowInv' /\ TimerInv' /\ UpInv' /\ (ordered = TRUE)'
         /\ up' \in [key : 0 .. MaxKey, count : Int]
         /\ st' \in StType /\ st'.deliv \in Nat /\ st.deliv <= st'.deliv
         /\ \A p \in Waiting : p.key = key => st'.next <= p.count + Window
         /\ \A w \in st.window : w \in st'.window \/ ~After(w.sdu, up')
  <1> USE DEF IInv
  <1>1. /\ t.pdu \in Pdus /\ t.pdu \in InFlight /\ t.pdu.key = key /\ t.pdu.count = t.count
        /\ t.count \in Nat /\ t.count \in Counts
    BY InFlightTyped DEF Pdus
  <1>2. /\ st \in StType /\ st.next \in Nat /\ st.deliv \in Nat /\ ue.key \in Nat /\ key \in Nat
        /\ ue.top \in Nat /\ Window \in Nat
    BY StFields, PdcpAssumption DEF TypeInv
  <1>3. CASE IsDropped(st, t.count)
    <2>1. UNCHANGED <<st, up, ordered>>
      BY <1>3 DEF apply_reordering
    <2>2. UeInv' /\ WindowInv' /\ TimerInv' /\ UpInv' /\ (ordered = TRUE)'
      BY <2>1, WindowFrame
    <2> QED
      BY <1>2, <2>1, <2>2 DEF TypeInv, BehindInv
  <1>4. CASE ~IsDropped(st, t.count)
    <2> DEFINE a == Stored(st, t.count, t.pdu)
    <2>1. st' = Reordered(st, t.count, t.pdu) /\ PassedUp(a, st')
      BY <1>4 DEF apply_reordering
    <2>2. Acceptable(t.count, t.pdu)
      BY <1>1, <1>4 DEF Acceptable, AheadInv
    <2>3. Closed(st)
      BY <1>2 DEF Closed, WindowInv
    <2>4. /\ Open(a) /\ a.deliv = st.deliv
          /\ a.window = st.window \cup {[count |-> t.count, sdu |-> t.pdu]}
          /\ a.next = (IF t.count >= st.next THEN t.count + 1 ELSE st.next)
      BY <2>2, <2>3, StoredOpen
    <2>5. Delivers(a, st') /\ Closed(st') /\ TimerOk(st')
      <3>1. cfg.t_reordering \in {"ms0", "running", "infinity"}
        BY DEF TypeInv
      <3>2. st.timer => st.reord <= st.next
        BY DEF TimerInv
      <3> QED
        BY <2>1, <2>2, <2>3, <3>1, <3>2, ReorderedCloses
    <2> HIDE DEF a
    <2>6. st'.next = (IF t.count >= st.next THEN t.count + 1 ELSE st.next)
      BY <2>4, <2>5 DEF Delivers
    <2>7. cfg.rlc = "am" \/ ue.key = key => st'.next <= ue.top
      <3> SUFFICES ASSUME cfg.rlc = "am" \/ ue.key = key PROVE st'.next <= ue.top
        OBVIOUS
      <3>1. t.count < ue.top
        BY <1>1 DEF AheadInv
      <3>2. st.next <= ue.top
        BY DEF UeInv
      <3> QED
        BY <1>1, <1>2, <2>6, <3>1, <3>2
    <2>8. ~(ue.key < key)
      BY <1>1, <1>2 DEF AheadInv
    <2>9. /\ UeInv' /\ WindowInv' /\ TimerInv' /\ UpInv' /\ (ordered = TRUE)'
          /\ up' \in [key : 0 .. MaxKey, count : Int]
          /\ st' \in StType /\ st'.deliv \in Nat /\ st.deliv <= st'.deliv
      BY <2>1, <2>4, <2>5, <2>7, <2>8, DeliveryStep
    <2>10. \A p \in Waiting : p.key = key => st'.next <= p.count + Window
      <3> SUFFICES ASSUME NEW p \in Waiting, p.key = key PROVE st'.next <= p.count + Window
        OBVIOUS
      <3>1. p.count \in Nat
        BY InFlightTyped
      <3>2. t.count < p.count + Window /\ st.next <= p.count + Window
        BY <1>1 DEF BehindInv
      <3> QED
        BY <1>1, <1>2, <2>6, <3>1, <3>2
    <2>11. \A w \in st.window : w \in st'.window \/ ~After(w.sdu, up')
      <3>1. UpBefore(a)
        BY <2>4 DEF UpBefore, UpInv, TypeInv
      <3>2. \A w \in a.window : w \in st'.window \/ ~After(w.sdu, up')
        BY <2>1, <2>4, <2>5, <3>1, DeliveryKeepsOrder
      <3> QED
        BY <2>4, <3>2
    <2> QED
      BY <2>9, <2>10, <2>11
  <1> QED
    BY <1>3, <1>4

LEMMA RunUlTaskStep ==
  ASSUME IInv, RunUlTask
  PROVE  IInv' /\ \A w \in st.window : w \in st'.window \/ ~After(w.sdu, up')
  <1> USE DEF IInv
  <1> DEFINE x == Head(ul)
  <1>1. ul # << >> /\ ul' = Tail(ul) /\ tok' = return_token(tok)
        /\ IF x.passed THEN apply_reordering(x.task) ELSE UNCHANGED <<st, up, ordered>>
    BY DEF RunUlTask
  <1>2. UNCHANGED <<cfg, key, crypto, ctl, buffer, ue, air>>
    BY DEF RunUlTask
  <1>3. /\ ul' \in Seq(UlTask) /\ Len(ul') = Len(ul) - 1
        /\ Range(ul') \subseteq Range(ul) /\ x \in Range(ul)
    BY <1>1, RangeTail DEF TypeInv
  <1>4. Cardinality(crypto) \in Nat /\ Len(ul) \in Nat /\ ~tok.event /\ tok.tokens \in Int
    BY <1>1, TokenBounds DEF TypeInv
  <1> HIDE DEF x
  <1>5. /\ tok' \in [tokens : Int, event : BOOLEAN]
        /\ tok'.tokens = tok.tokens - 1 /\ (tok'.event => tok'.tokens = -1)
    BY <1>1, <1>4, ReturnToken
  <1>6. x.task \in Tasks /\ (x.passed => x.task.pdu = [key |-> key, count |-> x.task.count])
    BY <1>3 DEF Tasks, PassedInv
  <1>7. /\ UeInv' /\ WindowInv' /\ TimerInv' /\ UpInv' /\ (ordered = TRUE)'
        /\ up' \in [key : 0 .. MaxKey, count : Int]
        /\ st' \in StType /\ st'.deliv \in Nat /\ st.deliv <= st'.deliv
        /\ \A p \in Waiting : p.key = key => st'.next <= p.count + Window
        /\ \A w \in st.window : w \in st'.window \/ ~After(w.sdu, up')
    <2>1. CASE x.passed
      BY <1>1, <1>2, <1>6, <2>1, ReorderingStep
    <2>2. CASE ~x.passed
      <3>1. UNCHANGED <<st, up, ordered>>
        BY <1>1, <2>2
      <3>2. UeInv' /\ WindowInv' /\ TimerInv' /\ UpInv' /\ (ordered = TRUE)'
        BY <1>2, <3>1, WindowFrame
      <3>3. st.deliv \in Nat
        BY StFields DEF TypeInv
      <3> QED
        BY <3>1, <3>2, <3>3 DEF TypeInv, BehindInv
    <2> QED
      BY <2>1, <2>2
  <1>8. TypeInv'
    BY <1>2, <1>3, <1>5, <1>7 DEF TypeInv
  <1>9. TokenInv'
    <2>1. tok.tokens = Cardinality(crypto) + Len(ul) - (IF ctl.proc = "idle" THEN 0 ELSE 1)
      BY DEF TokenInv
    <2>2. Len(ul') = Len(ul) - 1
      BY <1>3
    <2>3. tok'.tokens = Cardinality(crypto) + Len(ul') - (IF ctl.proc = "idle" THEN 0 ELSE 1)
      BY <1>4, <1>5, <2>1, <2>2
    <2> QED
      BY <1>2, <1>5, <2>3 DEF TokenInv
  <1>10. KeyInv'
    BY <1>2 DEF KeyInv
  <1>11. PassedInv'
    BY <1>2, <1>3 DEF PassedInv
  <1>12. Tasks' \subseteq Tasks
    BY <1>2, <1>3 DEF Tasks
  <1>13. CountExact'
    BY <1>2, <1>12 DEF CountExact, Tasks
  <1>14. AheadInv' /\ BehindInv'
    <2>1. Waiting' \subseteq Waiting
      BY <1>2 DEF Waiting
    <2>2. InFlight' \subseteq InFlight
      BY <1>12, <2>1 DEF InFlight
    <2> QED
      BY <1>2, <1>7, <2>1, <2>2, LessInFlight
  <1> QED
    BY <1>7, <1>8, <1>9, <1>10, <1>11, <1>13, <1>14

LEMMA ReorderingCallbackStep ==
  ASSUME IInv, reordering_callback
  PROVE  IInv' /\ \A w \in st.window : w \in st'.window \/ ~After(w.sdu, up')
  <1> USE DEF IInv
  <1>1. st.timer /\ st' = handle_t_reordering_expire(st) /\ PassedUp(st, st')
    BY DEF reordering_callback
  <1>2. UNCHANGED <<cfg, key, crypto, ul, tok, ctl, buffer, ue, air>>
    BY DEF reordering_callback
  <1>3. /\ Open(st) /\ st.deliv <= st.reord /\ st.reord <= st.next
    <2>1. Closed(st)
      BY DEF TypeInv, Closed, WindowInv
    <2> QED
      BY <1>1, <2>1, ClosedIsOpen, StFields DEF TypeInv, TimerInv
  <1>4. Delivers(st, st') /\ Closed(st') /\ TimerOk(st')
    <2>1. cfg.t_reordering \in {"ms0", "running", "infinity"}
      BY DEF TypeInv
    <2> QED
      BY <1>1, <1>3, <2>1, ExpireCloses
  <1>5. st'.next = st.next
    BY <1>4 DEF Delivers
  <1>6. /\ UeInv' /\ WindowInv' /\ TimerInv' /\ UpInv' /\ (ordered = TRUE)'
        /\ up' \in [key : 0 .. MaxKey, count : Int]
        /\ st' \in StType /\ st'.deliv \in Nat /\ st.deliv <= st'.deliv
    BY <1>1, <1>2, <1>3, <1>4, <1>5, DeliveryStep DEF UeInv
  <1>7. \A w \in st.window : w \in st'.window \/ ~After(w.sdu, up')
    <2>1. UpBefore(st)
      BY DEF UpBefore, UpInv, TypeInv
    <2> QED
      BY <1>1, <1>3, <1>4, <2>1, DeliveryKeepsOrder
  <1>8. TypeInv'
    BY <1>2, <1>6 DEF TypeInv
  <1>9. TokenInv' /\ KeyInv' /\ PassedInv' /\ CountExact'
    BY <1>2 DEF TokenInv, KeyInv, PassedInv, CountExact
  <1>10. AheadInv' /\ BehindInv'
    <2>1. Waiting' \subseteq Waiting /\ InFlight' \subseteq InFlight
      BY <1>2 DEF Waiting, InFlight, Tasks
    <2> QED
      BY <1>2, <1>5, <1>6, <2>1, LessInFlight DEF BehindInv
  <1> QED
    BY <1>6, <1>7, <1>8, <1>9, <1>10

\* The parts about PDUs on their way, when only the procedures move.
LEMMA FlightFrame ==
  ASSUME IInv, UNCHANGED <<cfg, key, crypto, ul, buffer, ue, air>>,
         st'.deliv = st.deliv, st'.next = st.next
  PROVE  AheadInv' /\ BehindInv' /\ PassedInv' /\ CountExact'
  <1> USE DEF IInv
  <1>1. Waiting' \subseteq Waiting /\ InFlight' \subseteq InFlight
    BY DEF Waiting, InFlight, Tasks
  <1>2. st.deliv \in Nat
    BY StFields DEF TypeInv
  <1>3. AheadInv' /\ BehindInv'
    BY <1>1, <1>2, LessInFlight DEF BehindInv
  <1> QED
    BY <1>3 DEF PassedInv, CountExact

LEMMA BeginRekeyStep ==
  ASSUME IInv, BeginRekey
  PROVE  IInv'
  <1> USE DEF IInv
  <1>1. /\ ctl.proc = "idle" /\ key < MaxKey /\ ue.key >= key
        /\ ctl' = [ctl EXCEPT !.proc = "rekey", !.buffering = TRUE]
        /\ tok' = return_token(tok)
    BY DEF BeginRekey
  <1>2. UNCHANGED <<cfg, st, up, ordered, key, crypto, ul, buffer, ue, air>>
    BY DEF BeginRekey
  <1>3. /\ ctl'.proc = "rekey" /\ ctl'.buffering = TRUE
        /\ ctl'.stopped = ctl.stopped /\ ctl'.alive = ctl.alive
        /\ ctl' \in [proc : {"idle", "rekey", "release"}, buffering : BOOLEAN,
                     stopped : BOOLEAN, alive : BOOLEAN]
    BY <1>1 DEF TypeInv
  <1>4. Cardinality(crypto) \in Nat /\ Len(ul) \in Nat /\ ~tok.event
    BY <1>1, TokenBounds
  <1>5. /\ tok' \in [tokens : Int, event : BOOLEAN]
        /\ tok'.tokens = tok.tokens - 1 /\ (tok'.event => tok'.tokens = -1)
    BY <1>1, <1>4, ReturnToken
  <1>6. TypeInv'
    BY <1>2, <1>3, <1>5 DEF TypeInv
  <1>7. TokenInv'
    <2>1. tok'.tokens = Cardinality(crypto) + Len(ul) - 1
      BY <1>1, <1>4, <1>5 DEF TokenInv
    <2>2. ~ctl.stopped /\ ctl.alive
      BY <1>1 DEF TokenInv
    <2> QED
      BY <1>2, <1>3, <1>5, <2>1, <2>2 DEF TokenInv
  <1>8. KeyInv'
    BY <1>1, <1>2 DEF KeyInv
  <1>9. UeInv' /\ WindowInv' /\ TimerInv' /\ UpInv' /\ (ordered = TRUE)'
    BY <1>2, <1>3, WindowFrame
  <1>10. AheadInv' /\ BehindInv' /\ PassedInv' /\ CountExact'
    BY <1>2, FlightFrame
  <1> QED
    BY <1>6, <1>7, <1>8, <1>9, <1>10

LEMMA StopStep ==
  ASSUME IInv, stop
  PROVE  IInv'
  <1> USE DEF IInv
  <1>1. /\ ctl.proc = "idle"
        /\ ctl' = [ctl EXCEPT !.proc = "release", !.stopped = TRUE]
        /\ st' = [st EXCEPT !.timer = FALSE]
        /\ tok' = return_token(tok)
    BY DEF stop
  <1>2. UNCHANGED <<cfg, up, ordered, key, crypto, ul, buffer, ue, air>>
    BY DEF stop
  <1>3. /\ ctl'.proc = "release" /\ ctl'.stopped = TRUE
        /\ ctl' \in [proc : {"idle", "rekey", "release"}, buffering : BOOLEAN,
                     stopped : BOOLEAN, alive : BOOLEAN]
    BY <1>1 DEF TypeInv
  <1>4. Cardinality(crypto) \in Nat /\ Len(ul) \in Nat /\ ~tok.event
    BY <1>1, TokenBounds
  <1>5. /\ tok' \in [tokens : Int, event : BOOLEAN]
        /\ tok'.tokens = tok.tokens - 1 /\ (tok'.event => tok'.tokens = -1)
    BY <1>1, <1>4, ReturnToken
  <1>6. /\ st' \in StType /\ st'.next = st.next /\ st'.deliv = st.deliv
        /\ st'.window = st.window /\ st'.timer = FALSE
    BY <1>1 DEF TypeInv, StType
  <1>7. TypeInv'
    BY <1>2, <1>3, <1>5, <1>6 DEF TypeInv
  <1>8. TokenInv'
    <2>1. tok'.tokens = Cardinality(crypto) + Len(ul) - 1
      BY <1>1, <1>4, <1>5 DEF TokenInv
    <2> QED
      BY <1>2, <1>3, <1>5, <2>1 DEF TokenInv
  <1>9. KeyInv'
    BY <1>2, <1>3 DEF KeyInv
  <1>10. WindowInv'
    BY <1>2, <1>6 DEF WindowInv, WindowFrom, Has
  <1>11. TimerInv'
    BY <1>3, <1>6 DEF TimerInv
  <1>12. UeInv' /\ UpInv' /\ (ordered = TRUE)'
    BY <1>2, <1>6 DEF UeInv, UpInv
  <1>13. AheadInv' /\ BehindInv' /\ PassedInv' /\ CountExact'
    BY <1>2, <1>6, FlightFrame
  <1> QED
    BY <1>7, <1>8, <1>9, <1>10, <1>11, <1>12, <1>13

LEMMA DestroyStep ==
  ASSUME IInv, destroy
  PROVE  IInv'
  <1> USE DEF IInv
  <1>1. ctl.proc = "release" /\ ctl' = [ctl EXCEPT !.alive = FALSE]
    BY DEF destroy
  <1>2. UNCHANGED <<cfg, st, up, ordered, key, crypto, ul, tok, buffer, ue, air>>
    BY DEF destroy
  <1>3. /\ ctl'.proc = "release" /\ ctl'.stopped = ctl.stopped
        /\ ctl' \in [proc : {"idle", "rekey", "release"}, buffering : BOOLEAN,
                     stopped : BOOLEAN, alive : BOOLEAN]
    BY <1>1 DEF TypeInv
  <1>4. TypeInv'
    BY <1>2, <1>3 DEF TypeInv
  <1>5. TokenInv'
    BY <1>1, <1>2, <1>3 DEF TokenInv
  <1>6. KeyInv'
    BY <1>2, <1>3 DEF KeyInv
  <1>7. UeInv' /\ WindowInv' /\ TimerInv' /\ UpInv' /\ (ordered = TRUE)'
    BY <1>2, <1>3, WindowFrame
  <1>8. AheadInv' /\ BehindInv' /\ PassedInv' /\ CountExact'
    BY <1>2, FlightFrame
  <1> QED
    BY <1>4, <1>5, <1>6, <1>7, <1>8

LEMMA LoseStep ==
  ASSUME IInv, Lose
  PROVE  IInv'
  <1> USE DEF IInv
  <1>1. air' \subseteq air
    BY DEF Lose
  <1>2. UNCHANGED <<cfg, st, up, ordered, key, crypto, ul, tok, ctl, buffer, ue>>
    BY DEF Lose
  <1>3. TypeInv'
    BY <1>1, <1>2 DEF TypeInv
  <1>4. TokenInv' /\ KeyInv' /\ PassedInv' /\ CountExact'
    BY <1>2 DEF TokenInv, KeyInv, PassedInv, CountExact
  <1>5. UeInv' /\ WindowInv' /\ TimerInv' /\ UpInv' /\ (ordered = TRUE)'
    BY <1>2, WindowFrame
  <1>6. AheadInv' /\ BehindInv'
    <2>1. Waiting' \subseteq Waiting /\ InFlight' \subseteq InFlight
      BY <1>1, <1>2 DEF Waiting, InFlight, Tasks
    <2>2. st.deliv \in Nat
      BY StFields DEF TypeInv
    <2> QED
      BY <1>2, <2>1, <2>2, LessInFlight DEF BehindInv
  <1> QED
    BY <1>3, <1>4, <1>5, <1>6

LEMMA SendStep ==
  ASSUME IInv, Send
  PROVE  IInv'
  <1> USE DEF IInv
  <1> DEFINE n == [key |-> ue.key, count |-> ue.next]
  <1>1. /\ ue.next < First + MaxSdus
        /\ ue.next < Base + Window \/ (cfg.rlc = "um" /\ ue.key < key)
        /\ \A p \in OnTheWay : ue.next - p.count < Window
        /\ air' = air \cup {n}
        /\ ue' = [ue EXCEPT !.next = ue.next + 1,
                            !.top = IF ue.top = ue.next THEN ue.top + 1 ELSE ue.top]
    BY DEF Send
  <1>2. UNCHANGED <<cfg, st, up, ordered, key, crypto, ul, tok, ctl, buffer>>
    BY DEF Send
  <1>3. /\ ue.key \in 0 .. MaxKey /\ ue.key \in Nat /\ ue.next \in Nat /\ ue.top \in Nat
        /\ key \in Nat /\ st.deliv \in Nat /\ st.next \in Nat /\ Window \in Nat \ {0}
        /\ cfg.rlc \in {"am", "um"}
    BY StFields, PdcpAssumption DEF TypeInv
  <1>4. n \in Pdus /\ n.key = ue.key /\ n.count = ue.next
    <2>1. First \in Nat /\ First <= Start /\ Start \in Nat /\ MaxSdus \in Nat
      BY PdcpAssumption DEF First
    <2> HIDE DEF n
    <2>2. ue.next \in Counts
      BY <1>1, <1>3, <2>1 DEF Counts
    <2> QED
      BY <1>3, <2>2 DEF n, Pdus
  <1> HIDE DEF n
  <1>5. /\ ue'.key = ue.key /\ ue'.next = ue.next + 1
        /\ ue'.top = (IF ue.top = ue.next THEN ue.top + 1 ELSE ue.top)
        /\ ue' \in [key : 0 .. MaxKey, next : Nat, top : Nat]
    <2>1. ue \in [key : 0 .. MaxKey, next : Nat, top : Nat]
      BY DEF TypeInv
    <2> DEFINE top == IF ue.top = ue.next THEN ue.top + 1 ELSE ue.top
    <2>2. top \in Nat /\ ue.next + 1 \in Nat
      BY <1>3
    <2>3. ue' = [ue EXCEPT !.next = ue.next + 1, !.top = top]
      BY <1>1
    <2> HIDE DEF top
    <2>4. ue'.key = ue.key /\ ue'.next = ue.next + 1 /\ ue'.top = top
      BY <2>1, <2>3
    <2>5. ue' \in [key : 0 .. MaxKey, next : Nat, top : Nat]
      BY <2>1, <2>2, <2>3
    <2> QED
      BY <2>4, <2>5 DEF top
  <1>6. /\ ue.top <= ue'.top /\ ue'.next <= ue'.top /\ ue.next < ue'.top
        /\ ue'.top - ue'.next < Window /\ ue'.top <= ue.next + Window
        /\ (ue.top = ue.next => ue'.top = ue'.next)
    BY <1>3, <1>5 DEF UeInv
  <1>7. /\ Waiting' = Waiting \cup {n} /\ InFlight' = InFlight \cup {n} /\ Tasks' = Tasks
    BY <1>1, <1>2 DEF Waiting, InFlight, Tasks
  <1>8. TypeInv'
    BY <1>1, <1>2, <1>4, <1>5 DEF TypeInv
  <1>9. TokenInv' /\ PassedInv' /\ CountExact'
    BY <1>2 DEF TokenInv, PassedInv, CountExact
  <1>10. KeyInv'
    BY <1>2, <1>5 DEF KeyInv
  <1>11. WindowInv' /\ TimerInv' /\ UpInv' /\ (ordered = TRUE)'
    BY <1>2 DEF WindowInv, WindowFrom, Has, TimerInv, UpInv
  <1>12. UeInv'
    BY <1>2, <1>3, <1>5, <1>6 DEF UeInv
  <1>13. AheadInv'
    <2>1. ASSUME NEW q \in InFlight
          PROVE  /\ q.key <= ue'.key
                 /\ cfg.rlc = "am" \/ q.key = ue'.key => q.count < ue'.top
                 /\ cfg.rlc = "am" \/ q.key = key => q.count < st.deliv + Window
                 /\ cfg.rlc = "um" /\ q.key > key => q.count < Window
      <3>1. q.count \in Nat
        BY InFlightTyped
      <3> QED
        BY <1>3, <1>5, <1>6, <3>1 DEF AheadInv
    <2>2. /\ n.key <= ue'.key
          /\ cfg.rlc = "am" \/ n.key = ue'.key => n.count < ue'.top
          /\ cfg.rlc = "am" \/ n.key = key => n.count < st.deliv + Window
          /\ cfg.rlc = "um" /\ n.key > key => n.count < Window
      BY <1>1, <1>3, <1>4, <1>5, <1>6 DEF Base
    <2> QED
      BY <1>2, <1>7, <2>1, <2>2 DEF AheadInv
  <1>14. BehindInv'
    <2>1. ASSUME NEW p \in Waiting
          PROVE  /\ p.key = ue'.key => ue'.top <= p.count + Window
                 /\ p.key = key => /\ st.next <= p.count + Window
                                   /\ \A q \in InFlight' : q.key = key => q.count < p.count + Window
      <3>1. p.count \in Nat
        BY InFlightTyped
      <3>2. p.key = ue.key => ue.next - p.count < Window
        BY <1>1 DEF OnTheWay, Waiting
      <3>3. p.key = ue'.key => ue'.top <= p.count + Window
        BY <1>3, <1>5, <3>1, <3>2 DEF BehindInv
      <3>4. p.key = key => /\ st.next <= p.count + Window
                           /\ \A q \in InFlight : q.key = key => q.count < p.count + Window
        BY DEF BehindInv
      <3>5. p.key = key /\ n.key = key => n.count < p.count + Window
        BY <1>3, <1>4, <3>1, <3>2
      <3> QED
        BY <1>7, <3>3, <3>4, <3>5
    <2>2. /\ n.key = ue'.key => ue'.top <= n.count + Window
          /\ n.key = key => /\ st.next <= n.count + Window
                            /\ \A q \in InFlight' : q.key = key => q.count < n.count + Window
      <3>1. n.key = ue'.key => ue'.top <= n.count + Window
        BY <1>4, <1>6
      <3>2. n.key = key => st.next <= n.count + Window
        BY <1>3, <1>4 DEF UeInv
      <3>3. ASSUME n.key = key, NEW q \in InFlight, q.key = key PROVE q.count < n.count + Window
        <4>1. q.count < ue.top /\ q.count \in Nat
          BY <1>4, <3>3, InFlightTyped DEF AheadInv
        <4> QED
          BY <1>3, <1>4, <4>1 DEF UeInv
      <3>4. n.count < n.count + Window
        BY <1>3, <1>4
      <3> QED
        BY <1>7, <3>1, <3>2, <3>3, <3>4
    <2> QED
      BY <1>2, <1>7, <2>1, <2>2 DEF BehindInv
  <1> QED
    BY <1>8, <1>9, <1>10, <1>11, <1>12, <1>13, <1>14

LEMMA UeRekeyStep ==
  ASSUME IInv, UeRekey
  PROVE  IInv'
  <1> USE DEF IInv
  <1>1. PICK n \in 0 .. ue.next :
          /\ IF cfg.rlc = "um" THEN n = 0 ELSE ue.top - n < Window
          /\ ue' = [key |-> ue.key + 1, next |-> n, top |-> IF cfg.rlc = "um" THEN 0 ELSE ue.top]
    BY DEF UeRekey
  <1>2. /\ UNCHANGED <<cfg, st, up, ordered, key, crypto, ul, tok, ctl, buffer, air>>
        /\ ue.key <= key /\ ue.key < MaxKey
    BY DEF UeRekey
  <1>3. /\ ue.key \in Nat /\ ue.next \in Nat /\ ue.top \in Nat /\ MaxKey \in Nat
        /\ key \in Nat /\ st.next \in Nat /\ Window \in Nat \ {0} /\ cfg.rlc \in {"am", "um"}
    BY StFields, PdcpAssumption DEF TypeInv
  <1>4. /\ ue'.key = ue.key + 1 /\ ue'.next = n
        /\ cfg.rlc = "um" => ue'.top = 0 /\ n = 0
        /\ cfg.rlc = "am" => ue'.top = ue.top /\ ue.top - n < Window
        /\ ue' \in [key : 0 .. MaxKey, next : Nat, top : Nat]
    BY <1>1, <1>2, <1>3
  <1>5. TypeInv'
    BY <1>2, <1>4 DEF TypeInv
  <1>6. TokenInv' /\ PassedInv' /\ CountExact'
    BY <1>2 DEF TokenInv, PassedInv, CountExact
  <1>7. KeyInv'
    BY <1>2, <1>3, <1>4 DEF KeyInv
  <1>8. WindowInv' /\ TimerInv' /\ UpInv' /\ (ordered = TRUE)'
    BY <1>2 DEF WindowInv, WindowFrom, Has, TimerInv, UpInv
  <1>9. UeInv'
    <2>1. CASE cfg.rlc = "am"
      BY <1>2, <1>3, <1>4, <2>1 DEF UeInv
    <2>2. CASE cfg.rlc = "um"
      BY <1>2, <1>3, <1>4, <2>2 DEF UeInv, KeyInv
    <2> QED
      BY <1>3, <2>1, <2>2
  <1>10. Waiting' = Waiting /\ InFlight' = InFlight
    BY <1>2 DEF Waiting, InFlight, Tasks
  <1>11. \A q \in InFlight : q.key \in Nat /\ q.key <= ue.key /\ q.key # ue'.key
    BY <1>3, <1>4, InFlightTyped DEF AheadInv
  <1>12. AheadInv'
    BY <1>2, <1>3, <1>4, <1>10, <1>11 DEF AheadInv
  <1>13. BehindInv'
    BY <1>2, <1>10, <1>11, InFlightTyped DEF BehindInv
  <1> QED
    BY <1>5, <1>6, <1>7, <1>8, <1>9, <1>12, <1>13

\* reestablish on either kind of bearer.
LEMMA ReestablishState ==
  ASSUME IInv
  PROVE  LET t == reestablish(st)
         IN  /\ t \in StType /\ t.deliv \in Nat
             /\ cfg.rlc = "am" => t = st
             /\ cfg.rlc = "um" => /\ t.next = 0 /\ t.deliv = 0 /\ t.timer = FALSE
                                  /\ t.window = {}
  <1> USE DEF IInv
  <1>1. st \in StType /\ st.next \in Nat /\ st.deliv \in Nat /\ Start + MaxSdus \in Nat
        /\ cfg.rlc \in {"am", "um"}
    BY StFields DEF TypeInv
  <1>2. CASE cfg.rlc = "am"
    BY <1>1, <1>2 DEF reestablish
  <1>3. CASE cfg.rlc = "um"
    <2>1. {w \in st.window : w.count \notin st.deliv .. st.next - 1} = {}
      BY <1>1, StFields DEF WindowInv, WindowFrom
    <2>2. reestablish(st) = [next |-> 0, deliv |-> 0, reord |-> 0, timer |-> FALSE, window |-> {}]
      BY <1>3, <2>1 DEF reestablish
    <2>3. 0 \in 0 .. Start + MaxSdus
      BY <1>1
    <2> QED
      BY <1>3, <2>2, <2>3 DEF StType
  <1> QED
    BY <1>1, <1>2, <1>3

LEMMA RekeyStep ==
  ASSUME IInv, Rekey
  PROVE  /\ IInv' /\ crypto = {} /\ ul = << >>
         /\ \A w \in st.window : w \in st'.window \/ ~After(w.sdu, up')
  <1> USE DEF IInv
  <1>1. /\ ctl.proc = "rekey" /\ tok.event /\ key' = key + 1 /\ st' = reestablish(st)
        /\ PassedUp(st, st') /\ handle_data_pdus(Range(buffer), st'.deliv)
        /\ tok' = start(tok, Cardinality(crypto' \ crypto)) /\ buffer' = << >>
        /\ ctl' = [ctl EXCEPT !.proc = "idle", !.buffering = FALSE]
    BY DEF Rekey, AwaitOver
  <1>2. UNCHANGED <<cfg, ul, ue, air>>
    BY DEF Rekey
  <1>3. crypto = {} /\ ul = << >> /\ Cardinality(crypto) = 0 /\ Len(ul) = 0 /\ tok.tokens = -1
    <2>1. crypto = {} /\ ul = << >>
      BY <1>1, TokenBounds
    <2> QED
      BY <1>1, <2>1, FS_EmptySet DEF TokenInv
  <1>4. /\ key \in Nat /\ key < MaxKey /\ MaxKey \in Nat /\ ue.key \in Nat
        /\ ue.key >= key /\ ue.key <= key + 1 /\ ue.top \in Nat
        /\ st.deliv \in Nat /\ st.next \in Nat /\ st.deliv <= st.next
        /\ Window \in Nat \ {0} /\ cfg.rlc \in {"am", "um"}
    <2>1. key \in Nat /\ MaxKey \in Nat /\ ue.key \in Nat /\ ue.top \in Nat /\ cfg.rlc \in {"am", "um"}
      BY PdcpAssumption DEF TypeInv
    <2>2. st.deliv \in Nat /\ st.next \in Nat /\ Window \in Nat \ {0}
      BY StFields, PdcpAssumption DEF TypeInv
    <2>3. key < MaxKey /\ ue.key >= key /\ ue.key <= key + 1
      BY <1>1, <2>1 DEF KeyInv
    <2> QED
      BY <2>1, <2>2, <2>3 DEF WindowInv, WindowFrom
  <1>5. /\ st' \in StType /\ st'.deliv \in Nat
        /\ cfg.rlc = "am" => st' = st
        /\ cfg.rlc = "um" => st'.next = 0 /\ st'.deliv = 0 /\ st'.timer = FALSE /\ st'.window = {}
    BY <1>1, ReestablishState
  <1>6. Range(buffer) \in SUBSET Pdus /\ IsFiniteSet(Range(buffer))
    BY RangeFinite DEF TypeInv
  <1>7. /\ crypto' \in SUBSET TaskType /\ IsFiniteSet(crypto')
        /\ \A t \in crypto' : \E p \in Range(buffer) : t = Task(st'.deliv, p)
        /\ Cardinality(crypto' \ crypto) = Cardinality(crypto') /\ Cardinality(crypto') \in Nat
    <2>1. crypto \in SUBSET TaskType /\ IsFiniteSet(crypto)
      BY DEF TypeInv
    <2>2. /\ crypto' \in SUBSET TaskType /\ IsFiniteSet(crypto')
          /\ \A t \in crypto' : t \in crypto \/ \E p \in Range(buffer) : t = Task(st'.deliv, p)
          /\ Cardinality(crypto' \ crypto) = Cardinality(crypto') - Cardinality(crypto)
          /\ Cardinality(crypto') \in Nat
      BY <1>1, <1>5, <1>6, <2>1, DataPdus
    <2> QED
      BY <1>3, <2>2
  <1>8. \A p \in Range(buffer) : /\ Task(st'.deliv, p).pdu = p
                                 /\ Task(st'.deliv, p).count = RcvdCount(st'.deliv, SN(p.count))
    BY <1>5, <1>6, TaskTyped
  <1>9. Range(ul') = {} /\ Range(buffer') = {}
    BY <1>1, <1>2, <1>3 DEF Range
  <1>10. Waiting' = air /\ air \subseteq Waiting /\ Waiting \subseteq InFlight
    BY <1>2, <1>9 DEF Waiting, InFlight
  <1>11. InFlight' \subseteq InFlight
    <2>1. \A t \in crypto' : t.pdu \in Range(buffer)
      BY <1>7, <1>8
    <2> QED
      BY <1>2, <1>9, <1>10, <2>1 DEF InFlight, Waiting, Tasks
  <1>12. /\ ctl'.proc = "idle" /\ ctl'.stopped = ctl.stopped /\ ctl'.alive = ctl.alive
         /\ ctl' \in [proc : {"idle", "rekey", "release"}, buffering : BOOLEAN,
                      stopped : BOOLEAN, alive : BOOLEAN]
    BY <1>1 DEF TypeInv
  <1>13. /\ tok' \in [tokens : Int, event : BOOLEAN] /\ tok'.event = FALSE
         /\ tok'.tokens = Cardinality(crypto')
    <2>1. tok' = [tokens |-> -1 + 1 + Cardinality(crypto'), event |-> FALSE]
      BY <1>1, <1>3, <1>7 DEF start
    <2>2. -1 + 1 + Cardinality(crypto') = Cardinality(crypto')
      BY <1>7
    <2> QED
      BY <1>7, <2>1, <2>2
  <1>14. TokenInv'
    <2>1. ~ctl.stopped /\ ctl.alive
      BY <1>1 DEF TokenInv
    <2>2. tok'.tokens = Cardinality(crypto') + Len(ul') - 0
      BY <1>2, <1>3, <1>7, <1>13
    <2> QED
      BY <1>12, <1>13, <2>1, <2>2 DEF TokenInv
  <1>15. KeyInv'
    BY <1>1, <1>2, <1>4, <1>12 DEF KeyInv
  <1>16. UeInv'
    <2>1. CASE cfg.rlc = "am"
      BY <1>2, <1>5, <2>1 DEF UeInv
    <2>2. CASE cfg.rlc = "um"
      BY <1>2, <1>4, <1>5, <2>2 DEF UeInv
    <2> QED
      BY <1>4, <2>1, <2>2
  <1>17. AheadInv'
    <2> SUFFICES ASSUME NEW q \in InFlight
                 PROVE  /\ q.key <= ue.key
                        /\ cfg.rlc = "am" \/ q.key = ue.key => q.count < ue.top
                        /\ cfg.rlc = "am" \/ q.key = key' => q.count < st'.deliv + Window
                        /\ cfg.rlc = "um" /\ q.key > key' => q.count < Window
      BY <1>2, <1>11 DEF AheadInv
    <2>1. q.count \in Nat /\ q.key \in Nat
      BY InFlightTyped
    <2>2. CASE cfg.rlc = "am"
      BY <1>5, <2>2 DEF AheadInv
    <2>3. CASE cfg.rlc = "um"
      <3>1. /\ q.key <= ue.key /\ (q.key = ue.key => q.count < ue.top)
            /\ q.key > key => q.count < Window
        BY <2>3 DEF AheadInv
      <3> QED
        BY <1>1, <1>4, <1>5, <2>1, <2>3, <3>1
    <2> QED
      BY <1>4, <2>2, <2>3
  <1>18. ASSUME NEW p \in Waiting, p.key = key'
         PROVE  /\ p.key = ue.key /\ p.count \in Nat /\ ue.top <= p.count + Window
                /\ st'.next <= ue.top /\ st'.next \in Nat /\ st'.deliv <= st'.next
                /\ p.count < st'.deliv + Window
    <2>1. p.key <= ue.key /\ p \in Pdus /\ p.key \in Nat /\ p.count \in Nat
      BY <1>10, InFlightTyped DEF AheadInv
    <2>2. p.key = ue.key
      BY <1>1, <1>4, <1>18, <2>1
    <2>3. ue.top <= p.count + Window
      BY <2>2 DEF BehindInv
    <2>4. st'.next <= ue.top /\ st'.next \in Nat /\ st'.deliv <= st'.next
      <3>1. CASE cfg.rlc = "am"
        BY <1>4, <1>5, <3>1 DEF UeInv
      <3>2. CASE cfg.rlc = "um"
        BY <1>4, <1>5, <3>2
      <3> QED
        BY <1>4, <3>1, <3>2
    <2>5. p.count < st'.deliv + Window
      <3>1. CASE cfg.rlc = "am"
        BY <1>5, <1>10, <3>1 DEF AheadInv
      <3>2. CASE cfg.rlc = "um"
        <4>1. p.key > key
          BY <1>1, <1>4, <1>18
        <4>2. p.count < Window
          BY <1>10, <3>2, <4>1 DEF AheadInv
        <4> QED
          BY <1>4, <1>5, <2>1, <3>2, <4>2
      <3> QED
        BY <1>4, <3>1, <3>2
    <2> QED
      BY <2>1, <2>2, <2>3, <2>4, <2>5
  <1>19. BehindInv'
    <2> SUFFICES ASSUME NEW p \in air
                 PROVE  /\ p.key = ue.key => ue.top <= p.count + Window
                        /\ p.key = key' =>
                             /\ st'.next <= p.count + Window
                             /\ \A q \in InFlight : q.key = key' => q.count < p.count + Window
      BY <1>2, <1>10, <1>11 DEF BehindInv
    <2>1. p.key = ue.key => ue.top <= p.count + Window
      BY <1>10 DEF BehindInv
    <2>2. ASSUME p.key = key' PROVE st'.next <= p.count + Window
      BY <1>4, <1>10, <1>18, <2>2
    <2>3. ASSUME p.key = key', NEW q \in InFlight, q.key = key' PROVE q.count < p.count + Window
      <3>1. p.key = ue.key /\ p.count \in Nat /\ ue.top <= p.count + Window
        BY <1>10, <1>18, <2>3
      <3>2. q.count < ue.top /\ q.count \in Nat
        BY <2>3, <3>1, InFlightTyped DEF AheadInv
      <3> QED
        BY <1>4, <3>1, <3>2
    <2> QED
      BY <2>1, <2>2, <2>3
  <1>20. PassedInv'
    BY <1>9 DEF PassedInv
  <1>21. CountExact'
    <2> SUFFICES ASSUME NEW t \in crypto', t.pdu.key = key' PROVE t.count = t.pdu.count
      BY <1>9 DEF CountExact
    <2>1. PICK p \in Range(buffer) : t = Task(st'.deliv, p)
      BY <1>7
    <2>2. t.pdu = p /\ t.count = RcvdCount(st'.deliv, SN(p.count)) /\ p \in Waiting /\ p.key = key'
      BY <1>8, <2>1 DEF Waiting
    <2>3. /\ p.count \in Nat /\ p.count < st'.deliv + Window
          /\ st'.deliv <= st'.next /\ st'.next \in Nat /\ st'.next <= ue.top
          /\ ue.top <= p.count + Window
      BY <1>18, <2>2
    <2>4. st'.deliv <= p.count + Window
      BY <1>4, <1>5, <2>3
    <2>5. p.count < CountMod
      BY <1>6, PdcpAssumption DEF Pdus, Counts
    <2> QED
      BY <1>5, <2>2, <2>3, <2>4, <2>5, RcvdCountExact
  <1>22. WindowInv'
    <2>1. CASE cfg.rlc = "am"
      BY <1>2, <1>5, <2>1 DEF WindowInv, WindowFrom, Has
    <2>2. CASE cfg.rlc = "um"
      <3>1. st'.next = 0 /\ st'.deliv = 0 /\ st'.window = {} /\ IsFiniteSet(st'.window)
        BY <1>5, <2>2, FS_EmptySet
      <3>2. st'.deliv <= st'.next /\ ~(st'.deliv < st'.next)
        BY <3>1
      <3> QED
        BY <3>1, <3>2 DEF WindowInv, WindowFrom
    <2> QED
      BY <1>4, <2>1, <2>2
  <1>23. TimerInv'
    <2>1. CASE cfg.rlc = "am"
      BY <1>2, <1>5, <1>12, <2>1 DEF TimerInv
    <2>2. CASE cfg.rlc = "um"
      BY <1>5, <2>2 DEF TimerInv
    <2> QED
      BY <1>4, <2>1, <2>2
  <1>24. UpBefore(st) /\ Open(st)
    <2>1. Closed(st)
      BY DEF TypeInv, Closed, WindowInv
    <2> QED
      BY <2>1, ClosedIsOpen DEF UpBefore, UpInv, TypeInv
  <1>25. /\ ordered' = TRUE
         /\ \/ st.window \ st'.window = {} /\ up' = up
            \/ \E w \in st.window \ st'.window :
                 up' = w.sdu /\ \A v \in st.window \ st'.window : v.count <= w.count
    BY <1>1, <1>24, PassedUpInOrder
  <1>26. \A w \in st.window : /\ w.sdu \in Pdus /\ w.sdu.count = w.count /\ w.count \in Nat
                              /\ cfg.rlc = "um" => w.sdu.key = key
    BY <1>24, StFields DEF Open, WindowFrom
  <1>27. /\ up' \in [key : 0 .. MaxKey, count : Int]
         /\ cfg.rlc = "am" => up' = up
         /\ cfg.rlc = "um" => up'.key <= key
         /\ \A w \in st.window : w \in st'.window \/ ~After(w.sdu, up')
    <2>1. CASE st.window \ st'.window = {} /\ up' = up
      BY <2>1 DEF TypeInv, UpInv
    <2>2. ASSUME NEW w \in st.window \ st'.window, up' = w.sdu,
                 \A v \in st.window \ st'.window : v.count <= w.count
          PROVE  /\ up' \in [key : 0 .. MaxKey, count : Int]
                 /\ cfg.rlc = "am" => up' = up
                 /\ cfg.rlc = "um" => up'.key <= key
                 /\ \A v \in st.window : v \in st'.window \/ ~After(v.sdu, up')
      <3>1. cfg.rlc = "um"
        BY <1>4, <1>5
      <3>2. w.sdu \in Pdus /\ w.sdu.key = key
        BY <1>26, <3>1
      <3>3. up' \in [key : 0 .. MaxKey, count : Int] /\ up'.key <= key
        BY <1>4, <2>2, <3>2 DEF Pdus, Counts
      <3>4. ASSUME NEW v \in st.window \ st'.window PROVE ~After(v.sdu, up')
        BY <1>26, <2>2, <3>1 DEF After
      <3> QED
        BY <3>1, <3>3, <3>4
    <2> QED
      BY <1>25, <2>1, <2>2
  <1>28. UpInv'
    <2>1. CASE cfg.rlc = "am"
      BY <1>2, <1>5, <1>27, <2>1 DEF UpInv
    <2>2. CASE cfg.rlc = "um"
      <3>1. up'.key <= key' /\ up'.key # key'
        BY <1>1, <1>4, <1>27, <2>2
      <3> QED
        BY <1>2, <2>2, <3>1 DEF UpInv
    <2> QED
      BY <1>4, <2>1, <2>2
  <1>29. TypeInv'
    <2>1. key' \in 0 .. MaxKey /\ buffer' \in Seq(Pdus) /\ Len(buffer') <= BufferSize
      <3>1. Len(<< >>) = 0 /\ BufferSize \in Nat
        BY PdcpAssumption
      <3> QED
        BY <1>1, <1>4, <3>1
    <2> QED
      BY <1>2, <1>5, <1>7, <1>12, <1>13, <1>27, <2>1 DEF TypeInv
  <1> QED
    BY <1>3, <1>14, <1>15, <1>16, <1>17, <1>19, <1>20, <1>21, <1>22, <1>23, <1>25, <1>27,
       <1>28, <1>29

-----------------------------------------------------------------------------
(* The theorems.                                                           *)

LEMMA InitInv ==
  ASSUME Init
  PROVE  IInv
  <1> USE DEF Init
  <1>1. Start \in Nat /\ MaxSdus \in Nat /\ MaxKey \in Nat /\ Window \in Nat \ {0} /\ BufferSize \in Nat
    BY PdcpAssumption
  <1>2. Range(ul) = {} /\ Range(buffer) = {}
    BY DEF Range
  <1>3. IsFiniteSet({}) /\ Cardinality({}) = 0
    BY FS_EmptySet
  <1>4. TypeInv
    <2>1. st \in StType
      BY <1>1 DEF StType
    <2>2. cfg \in [rlc : {"am", "um"}, t_reordering : {"ms0", "running", "infinity"}]
      BY PdcpAssumption
    <2>3. /\ up \in [key : 0 .. MaxKey, count : Int] /\ key \in 0 .. MaxKey
          /\ ue \in [key : 0 .. MaxKey, next : Nat, top : Nat]
      BY <1>1
    <2>4. /\ crypto \in SUBSET TaskType /\ IsFiniteSet(crypto) /\ ul \in Seq(UlTask)
          /\ buffer \in Seq(Pdus) /\ Len(buffer) <= BufferSize /\ air \in SUBSET Pdus
      BY <1>1, <1>3
    <2> QED
      BY <2>1, <2>2, <2>3, <2>4 DEF TypeInv
  <1>5. TokenInv
    BY <1>3 DEF TokenInv
  <1>6. KeyInv
    BY DEF KeyInv
  <1>7. UeInv
    BY <1>1 DEF UeInv
  <1>8. AheadInv /\ BehindInv /\ PassedInv /\ CountExact
    BY <1>2 DEF AheadInv, BehindInv, PassedInv, CountExact, InFlight, Waiting, Tasks
  <1>9. WindowInv
    BY <1>1, <1>3 DEF WindowInv, WindowFrom
  <1>10. TimerInv
    BY <1>1 DEF TimerInv
  <1>11. UpInv /\ ordered = TRUE
    BY <1>1 DEF UpInv
  <1> QED
    BY <1>4, <1>5, <1>6, <1>7, <1>8, <1>9, <1>10, <1>11 DEF IInv

LEMMA NextInv ==
  ASSUME IInv, [Next]_vars
  PROVE  /\ IInv'
         /\ \A w \in st.window : w \in st'.window \/ ~After(w.sdu, up')
         /\ key' # key \/ ctl'.alive # ctl.alive => crypto = {} /\ ul = << >>
  <1>1. CASE UNCHANGED vars
    <2>1. IInv'
      <3>1. /\ UNCHANGED <<cfg, st, up, ordered, key, ue>> /\ UNCHANGED <<crypto, ul, buffer, air>>
            /\ UNCHANGED <<tok, ctl>>
        BY <1>1 DEF vars
      <3>2. TypeInv' /\ TokenInv' /\ KeyInv'
        BY <3>1 DEF IInv, TypeInv, TokenInv, KeyInv
      <3>3. UeInv' /\ WindowInv' /\ TimerInv' /\ UpInv' /\ (ordered = TRUE)'
        BY <3>1, WindowFrame
      <3>4. AheadInv' /\ BehindInv' /\ PassedInv' /\ CountExact'
        BY <3>1, FlightFrame
      <3> QED
        BY <3>2, <3>3, <3>4 DEF IInv
    <2> QED
      BY <1>1, <2>1 DEF vars
  <1>2. CASE ReceivePdu
    BY <1>2, ReceivePduStep DEF ReceivePdu
  <1>3. CASE apply_security
    BY <1>3, ApplySecurityStep DEF apply_security
  <1>4. CASE RunUlTask
    <2>1. UNCHANGED <<key, ctl>>
      BY <1>4 DEF RunUlTask
    <2> QED
      BY <1>4, <2>1, RunUlTaskStep
  <1>5. CASE reordering_callback
    <2>1. UNCHANGED <<key, ctl>>
      BY <1>5 DEF reordering_callback
    <2> QED
      BY <1>5, <2>1, ReorderingCallbackStep
  <1>6. CASE Rekey
    BY <1>6, RekeyStep
  <1>7. CASE destroy
    <2>1. tok.event /\ UNCHANGED st
      BY <1>7 DEF destroy, AwaitOver
    <2> QED
      BY <1>7, <2>1, DestroyStep, TokenBounds DEF IInv
  <1>8. CASE BeginRekey
    <2>1. key' = key /\ ctl'.alive = ctl.alive /\ UNCHANGED st
      BY <1>8 DEF BeginRekey, IInv, TypeInv
    <2> QED
      BY <1>8, <2>1, BeginRekeyStep
  <1>9. CASE stop
    <2>1. key' = key /\ ctl'.alive = ctl.alive /\ st'.window = st.window
      BY <1>9 DEF stop, IInv, TypeInv, StType
    <2> QED
      BY <1>9, <2>1, StopStep
  <1>10. CASE Send
    BY <1>10, SendStep DEF Send
  <1>11. CASE UeRekey
    BY <1>11, UeRekeyStep DEF UeRekey
  <1>12. CASE Lose
    BY <1>12, LoseStep DEF Lose
  <1> QED
    BY <1>1, <1>2, <1>3, <1>4, <1>5, <1>6, <1>7, <1>8, <1>9, <1>10, <1>11, <1>12 DEF Next, Work

(***************************************************************************)
(* The inductive invariant of the entity, its executors and the UE holds   *)
(* in every reachable state.                                               *)
(***************************************************************************)
THEOREM PdcpInvariant == Spec => []IInv
  <1>1. Init => IInv
    BY InitInv
  <1>2. IInv /\ [Next]_vars => IInv'
    BY NextInv
  <1> QED
    BY <1>1, <1>2, PTL DEF Spec

(***************************************************************************)
(* pdcp_entity_rx passes the SDUs up in the order of their COUNTs and none *)
(* of them twice, whatever order the crypto workers finish in and however  *)
(* often the bearer is re-established.                                     *)
(***************************************************************************)
THEOREM InOrderOnceAlways == Spec => []InOrderOnce
  <1>1. IInv => InOrderOnce
    BY DEF IInv, InOrderOnce
  <1> QED
    BY <1>1, PdcpInvariant, PTL

(***************************************************************************)
(* handle_pdu finds the COUNT the sender used for every PDU of the current *)
(* key, for every window size and every position of RX_DELIV.              *)
(***************************************************************************)
THEOREM CountExactAlways == Spec => []CountExact
  <1>1. IInv => CountExact
    BY DEF IInv
  <1> QED
    BY <1>1, PdcpInvariant, PTL

(***************************************************************************)
(* t-Reordering runs exactly while SDUs wait behind a gap, and the state   *)
(* is of its type.                                                         *)
(***************************************************************************)
THEOREM TimerGuardsGapAlways == Spec => []TimerGuardsGap
  <1>1. ASSUME IInv PROVE TimerGuardsGap
    <2> USE <1>1 DEF IInv
    <2>1. st \in StType /\ st.next \in Nat /\ st.deliv \in Nat /\ key \in Nat
      BY StFields, PdcpAssumption DEF TypeInv
    <2>2. TypeOK
      <3>1. /\ {st.next, st.deliv, st.reord} \subseteq 0 .. Start + MaxSdus
            /\ \A w \in st.window : w.count \in Counts /\ w.sdu \in Pdus
            /\ st.timer \in BOOLEAN
        BY <2>1 DEF StType
      <3>2. Range(buffer) \subseteq Pdus
        BY RangeFinite DEF TypeInv
      <3> QED
        BY <3>1, <3>2 DEF TypeOK, TypeInv, TokenInv, KeyInv
    <2>3. \A w \in st.window : st.deliv < w.count /\ w.count < st.next
      BY <2>1, StFields DEF WindowInv, WindowFrom
    <2>4. st.next > st.deliv <=> st.window # {}
      <3>1. st.next > st.deliv => st.window # {}
        BY <2>1 DEF WindowInv, WindowFrom, Has
      <3>2. st.window # {} => st.next > st.deliv
        BY <2>1, <2>3, StFields
      <3> QED
        BY <3>1, <3>2
    <2>5. cfg.t_reordering = "running" /\ ~ctl.stopped => (st.timer <=> st.deliv < st.next)
      BY DEF TimerInv
    <2>6. st.deliv < st.next <=> st.window # {}
      BY <2>1, <2>4
    <2>7. cfg.t_reordering = "running" /\ ~ctl.stopped => (st.timer <=> st.window # {})
      BY <2>5, <2>6
    <2> QED
      BY <2>2, <2>3, <2>4, <2>7 DEF TimerGuardsGap, TimerInv
  <1> QED
    BY <1>1, PdcpInvariant, PTL

(***************************************************************************)
(* A key change replaces the security engines and the release of the UE    *)
(* destroys the entity only when no task of a crypto worker or of the      *)
(* uplink executor is left (await_crypto_rx_all_pdu_sessions).             *)
(***************************************************************************)
THEOREM NoTaskOutlivesAlways == Spec => NoTaskOutlives
  <1>1. IInv /\ [Next]_vars =>
          [key' # key \/ ctl'.alive # ctl.alive => crypto = {} /\ ul = << >>]_vars
    BY NextInv
  <1> QED
    BY <1>1, PdcpInvariant, PTL DEF Spec, NoTaskOutlives

(***************************************************************************)
(* An SDU leaves rx_window only by being passed up: the circular window    *)
(* never gives its place to another one.                                   *)
(***************************************************************************)
THEOREM NothingEvictedAlways == Spec => NothingEvicted
  <1>1. IInv /\ [Next]_vars =>
          [\A w \in st.window : w \in st'.window \/ ~After(w.sdu, up')]_vars
    BY NextInv
  <1> QED
    BY <1>1, PdcpInvariant, PTL DEF Spec, NothingEvicted

=============================================================================
