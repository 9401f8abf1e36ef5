-------------------------- MODULE InterSlice_proofs --------------------------
(***************************************************************************)
(* Proofs about InterSlice, for every set of slices, every TDD pattern and *)
(* every size of the ring.  The ring of PUSCH counters holds the slots     *)
(* from now + MinK2 on, one turn of the ring: those up to now + MaxK2 with *)
(* what was granted in them, the others cleared.  The queue is sorted, so  *)
(* that a slice below its minimum has a flagged candidate in it until its  *)
(* turn comes.                                                             *)
(***************************************************************************)
EXTENDS InterSlice, TLAPS, FiniteSetTheorems, SequenceTheorems, WellFoundedInduction

Lim == [ded : Nat, min : Nat, max : Nat]

LimOK(l) == l \in Lim /\ l.ded <= l.min /\ l.min <= l.max /\ l.max <= CellRbs

CfgInv ==
  /\ cfg \in [Slice -> Lim]
  /\ \A s \in Slice : /\ LimOK(cfg[s])
                      /\ cfg[s] \in Limits[s] \cup {NoDedicated(l) : l \in Limits[s]}

OfferType == [id : Slice, k : Ahead, max : 1 .. CellRbs]

\* The rest of the types.
RestInv ==
  /\ dir \in {"dl", "ul"}
  /\ now \in 0 .. Slots - 1
  /\ active \in SUBSET Slice
  /\ rbs \in [Slice -> [0 .. RingSize - 1 -> 0 .. CellRbs]]
  /\ dedRbs \in [0 .. Period - 1 -> Nat]
  /\ offer = None \/ offer \in OfferType
  /\ granted \in [Slice -> [Ahead -> Nat]]
  /\ served \in [Ahead -> [Slice -> Nat]]
  /\ due \in SUBSET (Slice \X Ahead)

\* The counters hold one turn of the ring.
RingInv ==
  /\ dir = "dl" => \A s \in Slice : /\ rbs[s][0] = granted[s][0]
                                    /\ \A k \in Ahead \ {0} : granted[s][k] = 0
  /\ dir = "ul" => \A s \in Slice : \A k \in MinK2 .. MinK2 + RingSize - 1 :
       rbs[s][(now + k) % RingSize] = IF k <= MaxK2 THEN granted[s][k] ELSE 0

\* A candidate is of a slot that is scheduled now and within its slice's limit.
CandOK(c, delays, lim) ==
  /\ c \in Candidate
  /\ c.k \in delays
  /\ c.stop <= lim[c.id].max
  /\ c.flag = IF c.stop <= lim[c.id].min /\ lim[c.id].min > 0 THEN 1 ELSE 0

QueueInv ==
  /\ queue \in Seq(Candidate)
  /\ \A i \in 1 .. Len(queue) : CandOK(queue[i], Delays(now), cfg)

OrderInv ==
  \A i, j \in 1 .. Len(queue) : i < j /\ queue[i].k = queue[j].k => queue[j].flag <= queue[i].flag

\* A slice that is due has its candidate in the queue.
DueInv ==
  \A x \in due : \E i \in 1 .. Len(queue) :
    queue[i].id = x[1] /\ queue[i].k = x[2] /\ queue[i].flag = 1

OfferInv ==
  offer # None => offer.k \in Delays(now) /\ offer.max <= cfg[offer.id].max

IInv ==
  /\ CfgInv /\ RestInv /\ RingInv
  /\ QueueInv /\ OrderInv /\ DueInv
  /\ OfferInv /\ MinimumBeforeShared

-----------------------------------------------------------------------------
(* Constants and slot numbers.                                             *)

LEMMA Constants ==
  /\ Slice # {} /\ IsFiniteSet(Slice) /\ Prio \in [Slice -> Nat] /\ CellRbs \in Nat \ {0}
  /\ Limits \in [Slice -> SUBSET Lim]
  /\ Period \in Nat \ {0} /\ RingSize \in Nat \ {0} /\ Slots \in Nat \ {0}
  /\ Slots % Period = 0 /\ Slots % RingSize = 0
  /\ MaxSkip \in Nat \ {0} /\ MaxSkip < Slots
  /\ K2 \in [0 .. Period - 1 -> SUBSET (1 .. RingSize - 1)]
  BY SliceAssumption DEF Lim

LEMMA LimitsOK ==
  ASSUME NEW s \in Slice, NEW l \in Limits[s]
  PROVE  LimOK(l) /\ LimOK(NoDedicated(l)) /\ NoDedicated(l) \in Lim
  <1>1. l \in Lim /\ l.ded <= l.min /\ l.min <= l.max /\ l.max <= CellRbs
    BY SliceAssumption, Constants
  <1>2. NoDedicated(l) = [ded |-> 0, min |-> l.min, max |-> l.max]
    BY <1>1 DEF NoDedicated, Lim
  <1> QED
    BY <1>1, <1>2 DEF LimOK, Lim

\* A set of natural numbers has a least element.
LEMMA Least ==
  ASSUME NEW S \in SUBSET Nat, S # {}
  PROVE  \E n \in S : \A m \in S : n <= m
  <1> DEFINE R == {ss \in Nat \X Nat : ss[1] < ss[2]}
  <1>1. IsWellFoundedOn(R, Nat)
    BY NatLessThanWellFounded DEF OpToRel
  <1> HIDE DEF R
  <1>2. PICK n \in S : \A m \in S : ~(<<m, n>> \in R)
    BY <1>1, WFMin, Zenon
  <1>3. \A m \in S : ~(m < n)
    BY <1>2 DEF R
  <1> QED
    BY <1>3

\* MinK2 and MaxK2 are the bounds of the k2 values.
LEMMA K2Bounds ==
  /\ MinK2 \in 1 .. RingSize - 1 /\ MaxK2 \in 1 .. RingSize - 1 /\ MinK2 <= MaxK2
  /\ \A p \in 0 .. Period - 1 : \A k \in K2[p] : k \in Nat /\ MinK2 <= k /\ k <= MaxK2
  <1> DEFINE S == UNION Range(K2)
             T == {RingSize - x : x \in S}
  <1>1. RingSize \in Nat /\ S \in SUBSET (1 .. RingSize - 1) /\ S # {}
    BY SliceAssumption, Constants DEF Range
  <1>2. \A p \in 0 .. Period - 1 : K2[p] \in SUBSET S
    BY Constants DEF Range
  <1>3. S \in SUBSET Nat /\ T \in SUBSET Nat /\ T # {}
    <2>1. \A x \in S : x \in Nat /\ RingSize - x \in Nat
      BY <1>1
    <2> QED
      BY <1>1, <2>1
  <1>4. \A x \in S : x \in Nat
    BY <1>3
  <1>5. PICK a \in S : \A y \in S : a <= y
    <2> HIDE DEF S
    <2> QED
      BY <1>1, <1>3, Least
  <1>6. PICK t \in T : \A y \in T : t <= y
    <2> HIDE DEF T
    <2> QED
      BY <1>3, Least
  <1>7. PICK b \in S : t = RingSize - b
    BY <1>6
  <1>8. \A y \in S : b >= y
    <2> SUFFICES ASSUME NEW y \in S PROVE b >= y
      OBVIOUS
    <2>1. RingSize - b <= RingSize - y
      BY <1>6, <1>7
    <2> HIDE DEF S
    <2> QED
      BY <1>1, <1>4, <2>1
  <1>9. MinK2 \in S /\ \A y \in S : MinK2 =< y
    <2>1. \E x \in S : \A y \in S : x =< y
      BY <1>5
    <2> HIDE DEF S
    <2>2. Min(S) \in S /\ \A y \in S : Min(S) =< y
      BY <2>1, Zenon DEF Min
    <2> QED
      BY <2>2 DEF MinK2, S
  <1>10. MaxK2 \in S /\ \A y \in S : MaxK2 >= y
    <2>1. \E x \in S : \A y \in S : x >= y
      BY <1>8
    <2> HIDE DEF S
    <2>2. Max(S) \in S /\ \A y \in S : Max(S) >= y
      BY <2>1, Zenon DEF Max
    <2> QED
      BY <2>2 DEF MaxK2, S
  <1> HIDE DEF S, T
  <1>11. MinK2 \in 1 .. RingSize - 1 /\ MaxK2 \in 1 .. RingSize - 1 /\ MinK2 <= MaxK2
    BY <1>1, <1>9, <1>10
  <1>12. ASSUME NEW p \in 0 .. Period - 1, NEW k \in K2[p]
         PROVE  k \in Nat /\ MinK2 <= k /\ k <= MaxK2
    <2>1. k \in S /\ k \in Nat
      BY <1>2, <1>4
    <2> QED
      BY <1>9, <1>10, <1>11, <2>1
  <1> QED
    BY <1>11, <1>12

LEMMA AheadIs ==
  /\ MaxK2 \in Nat /\ 0 \in Ahead /\ Ahead \in SUBSET Nat /\ IsFiniteSet(Ahead)
  /\ \A n \in Nat : n \in Ahead <=> n <= MaxK2
  <1>1. MaxK2 \in Nat
    BY K2Bounds, Constants
  <1>2. 0 \in Int /\ MaxK2 \in Int
    BY <1>1
  <1>3. IsFiniteSet(0 .. MaxK2)
    BY <1>2, FS_Interval
  <1> QED
    BY <1>1, <1>3 DEF Ahead

LEMMA ModUnique ==
  ASSUME NEW P \in Nat \ {0}, NEW a \in Int, NEW r \in 0 .. P - 1
  PROVE  (P * a + r) % P = r
  <1> DEFINE n == P * a + r
             q == n \div P
             t == n % P
  <1>1. n \in Int /\ q \in Int /\ t \in 0 .. P - 1 /\ n = P * q + t
    OBVIOUS
  <1>2. P * a + r = P * q + t
    BY <1>1
  <1> HIDE DEF n, q, t
  <1>3. P * (a - q) = t - r
    BY <1>1, <1>2
  <1>4. a - q = 0
    <2>1. ASSUME a - q >= 1 PROVE FALSE
      <3>1. P * (a - q) >= P
        BY <1>1, <2>1
      <3> QED
        BY <1>1, <1>3, <3>1
    <2>2. ASSUME a - q <= -1 PROVE FALSE
      <3>1. P * (a - q) <= -P
        BY <1>1, <2>2
      <3> QED
        BY <1>1, <1>3, <3>1
    <2> QED
      BY <1>1, <2>1, <2>2
  <1>5. t = r
    BY <1>1, <1>3, <1>4
  <1> QED
    BY <1>5 DEF t, n

LEMMA ModShift ==
  ASSUME NEW P \in Nat \ {0}, NEW x \in Int, NEW c \in Int
  PROVE  (x + P * c) % P = x % P
  <1> DEFINE q == x \div P
             r == x % P
  <1>1. q \in Int /\ r \in 0 .. P - 1 /\ x = P * q + r
    OBVIOUS
  <1> HIDE DEF q, r
  <1>2. x + P * c = P * (q + c) + r
    BY <1>1
  <1>3. (P * (q + c) + r) % P = r
    <2>1. q + c \in Int
      BY <1>1
    <2> QED
      BY <1>1, <2>1, ModUnique
  <1> QED
    BY <1>2, <1>3 DEF r

\* A slot number modulo Slots is the same place of a ring whose size divides
\* Slots.
LEMMA ModOfMod ==
  ASSUME NEW S \in Nat \ {0}, NEW P \in Nat \ {0}, S % P = 0, NEW n \in Nat, NEW k \in Nat
  PROVE  ((n % S) + k) % P = (n + k) % P
  <1> DEFINE q == n \div S
             t == n % S
             m == S \div P
  <1>1. q \in Int /\ t \in Int /\ n = S * q + t
    OBVIOUS
  <1>2. m \in Int /\ S = P * m
    OBVIOUS
  <1> HIDE DEF q, t, m
  <1>3. S * q = P * (m * q)
    BY <1>1, <1>2
  <1>4. m * q \in Int
    BY <1>1, <1>2
  <1>5. n + k = (t + k) + P * (m * q)
    BY <1>1, <1>3, <1>4
  <1>6. ((t + k) + P * (m * q)) % P = (t + k) % P
    <2> DEFINE c == m * q
               x == t + k
    <2>1. c \in Int /\ x \in Int
      BY <1>1, <1>4
    <2> HIDE DEF c, x
    <2>2. (x + P * c) % P = x % P
      BY <2>1, ModShift
    <2> QED
      BY <2>2 DEF c, x
  <1> QED
    BY <1>5, <1>6 DEF t

LEMMA SlotsWrap ==
  \A n, k \in Nat : /\ ((n % Slots) + k) % Period = (n + k) % Period
                    /\ ((n % Slots) + k) % RingSize = (n + k) % RingSize
  <1>1. \A S, P \in Nat \ {0} : S % P = 0 =>
          \A n, k \in Nat : ((n % S) + k) % P = (n + k) % P
    BY ModOfMod
  <1>2. /\ Slots \in Nat \ {0} /\ Period \in Nat \ {0} /\ RingSize \in Nat \ {0}
        /\ Slots % Period = 0 /\ Slots % RingSize = 0
    BY Constants
  <1>3. \A n, k \in Nat : ((n % Slots) + k) % Period = (n + k) % Period
    BY <1>1, <1>2, Zenon
  <1>4. \A n, k \in Nat : ((n % Slots) + k) % RingSize = (n + k) % RingSize
    BY <1>1, <1>2, Zenon
  <1> QED
    BY <1>3, <1>4, Zenon

\* Two places of less than a turn apart differ.
LEMMA ModDiffer ==
  ASSUME NEW P \in Nat \ {0}, NEW x \in Int, NEW y \in Int, x < y, y < x + P
  PROVE  x % P # y % P
  <1> DEFINE q == x \div P
             r == x % P
             u == y \div P
             v == y % P
  <1>1. q \in Int /\ r \in 0 .. P - 1 /\ x = P * q + r
    OBVIOUS
  <1>2. u \in Int /\ v \in 0 .. P - 1 /\ y = P * u + v
    OBVIOUS
  <1> HIDE DEF q, r, u, v
  <1>3. ASSUME r = v PROVE FALSE
    <2>1. y - x = P * (u - q)
      BY <1>1, <1>2, <1>3
    <2>2. CASE u - q >= 1
      <3>1. P * (u - q) >= P
        BY <1>1, <1>2, <2>2
      <3> QED
        BY <1>1, <1>2, <2>1, <3>1
    <2>3. CASE u - q <= 0
      <3>1. P * (u - q) <= 0
        BY <1>1, <1>2, <2>3
      <3> QED
        BY <1>1, <1>2, <2>1, <3>1
    <2> QED
      BY <1>1, <1>2, <2>2, <2>3
  <1> QED
    BY <1>3 DEF r, v

-----------------------------------------------------------------------------
(* The order of the candidates.                                            *)

LEMMA Lexicographic ==
  ASSUME NEW a1 \in Int, NEW a2 \in Int, NEW a3 \in Int, NEW a4 \in Int,
         NEW b1 \in Int, NEW b2 \in Int, NEW b3 \in Int, NEW b4 \in Int
  PROVE  (\E i \in 1 .. 4 : /\ <<a1, a2, a3, a4>>[i] > <<b1, b2, b3, b4>>[i]
                            /\ \A j \in 1 .. i - 1 : <<a1, a2, a3, a4>>[j] = <<b1, b2, b3, b4>>[j])
         <=> \/ a1 > b1
             \/ a1 = b1 /\ a2 > b2
             \/ a1 = b1 /\ a2 = b2 /\ a3 > b3
             \/ a1 = b1 /\ a2 = b2 /\ a3 = b3 /\ a4 > b4
  <1> DEFINE ka == <<a1, a2, a3, a4>>
             kb == <<b1, b2, b3, b4>>
             E(i) == ka[i] > kb[i] /\ \A j \in 1 .. i - 1 : ka[j] = kb[j]
  <1>1. ka[1] = a1 /\ ka[2] = a2 /\ ka[3] = a3 /\ ka[4] = a4
    OBVIOUS
  <1>2. kb[1] = b1 /\ kb[2] = b2 /\ kb[3] = b3 /\ kb[4] = b4
    OBVIOUS
  <1>3. 1 .. 4 = {1, 2, 3, 4} /\ 1 .. 1 - 1 = {} /\ 1 .. 2 - 1 = {1} /\ 1 .. 3 - 1 = {1, 2}
        /\ 1 .. 4 - 1 = {1, 2, 3}
    OBVIOUS
  <1> HIDE DEF ka, kb
  <1>4. E(1) <=> a1 > b1
    BY <1>1, <1>2, <1>3
  <1>5. E(2) <=> a1 = b1 /\ a2 > b2
    BY <1>1, <1>2, <1>3
  <1>6. E(3) <=> a1 = b1 /\ a2 = b2 /\ a3 > b3
    BY <1>1, <1>2, <1>3
  <1>7. E(4) <=> a1 = b1 /\ a2 = b2 /\ a3 = b3 /\ a4 > b4
    BY <1>1, <1>2, <1>3
  <1>8. (\E i \in 1 .. 4 : E(i)) <=> E(1) \/ E(2) \/ E(3) \/ E(4)
    <2> HIDE DEF E
    <2> QED
      BY <1>3
  <1>9. (\E i \in 1 .. 4 : E(i)) <=> \/ a1 > b1
                                     \/ a1 = b1 /\ a2 > b2
                                     \/ a1 = b1 /\ a2 = b2 /\ a3 > b3
                                     \/ a1 = b1 /\ a2 = b2 /\ a3 = b3 /\ a4 > b4
    <2> HIDE DEF E
    <2> QED
      BY <1>4, <1>5, <1>6, <1>7, <1>8
  <1> QED
    BY <1>9, Zenon DEF ka, kb

\* The delays, flags and slices of the candidates of a slot.
TieOK(tie, delays) == tie \in [delays \X {0, 1} -> Ranks] /\ delays \in SUBSET Nat

CandsOK(S, delays) ==
  /\ IsFiniteSet(S)
  /\ \A c \in S : c.id \in Slice /\ c.k \in delays /\ c.flag \in {0, 1}
  /\ \A c, d \in S : c.id = d.id /\ c.k = d.k /\ c.flag = d.flag => c = d

Tie(tie, c) == tie[<<c.k, c.flag>>][c.id]

LEMMA BeforeIs ==
  ASSUME NEW S, NEW delays, NEW tie, TieOK(tie, delays), CandsOK(S, delays), NEW c \in S, NEW d \in S
  PROVE  /\ Tie(tie, c) \in Nat /\ Tie(tie, d) \in Nat /\ c.k \in Nat /\ d.k \in Nat
         /\ c.flag \in Nat /\ d.flag \in Nat /\ Prio[c.id] \in Nat /\ Prio[d.id] \in Nat
         /\ Before(tie, c, d)
              <=> \/ d.k > c.k
                  \/ d.k = c.k /\ c.flag > d.flag
                  \/ d.k = c.k /\ c.flag = d.flag /\ Prio[c.id] > Prio[d.id]
                  \/ d.k = c.k /\ c.flag = d.flag /\ Prio[c.id] = Prio[d.id]
                               /\ Tie(tie, c) > Tie(tie, d)
         /\ c.k = d.k /\ c.flag = d.flag /\ Tie(tie, c) = Tie(tie, d) => c = d
  <1>1. /\ c.id \in Slice /\ c.k \in delays /\ c.flag \in {0, 1}
        /\ d.id \in Slice /\ d.k \in delays /\ d.flag \in {0, 1} /\ delays \in SUBSET Nat
    BY DEF CandsOK, TieOK
  <1>2. c.k \in Nat /\ d.k \in Nat /\ c.flag \in Nat /\ d.flag \in Nat
    <2>1. c.k \in Nat /\ d.k \in Nat
      BY <1>1, Zenon
    <2>2. c.flag \in Nat /\ d.flag \in Nat
      BY <1>1
    <2> QED
      BY <2>1, <2>2
  <1>3. Prio[c.id] \in Nat /\ Prio[d.id] \in Nat
    BY <1>1, Constants
  <1>4. tie[<<c.k, c.flag>>] \in Ranks /\ tie[<<d.k, d.flag>>] \in Ranks
    BY <1>1 DEF TieOK
  <1>5. \A f \in Ranks : /\ \A s \in Slice : f[s] \in Nat
                         /\ \A s, t \in Slice : f[s] = f[t] => s = t
    <2> SUFFICES ASSUME NEW f \in Ranks
                 PROVE  /\ \A s \in Slice : f[s] \in Nat
                        /\ \A s, t \in Slice : f[s] = f[t] => s = t
      OBVIOUS
    <2>1. f \in [Slice -> 1 .. Cardinality(Slice)] /\ IsInjective(f)
      BY DEF Ranks
    <2>2. Cardinality(Slice) \in Nat
      BY Constants, FS_CardinalityType
    <2>3. \A s \in Slice : f[s] \in Nat
      BY <2>1, <2>2
    <2>4. \A s, t \in Slice : f[s] = f[t] => s = t
      BY <2>1 DEF IsInjective
    <2> QED
      BY <2>3, <2>4
  <1>6. Tie(tie, c) \in Nat /\ Tie(tie, d) \in Nat
    BY <1>1, <1>4, <1>5 DEF Tie
  <1>7. c.k = d.k /\ c.flag = d.flag /\ Tie(tie, c) = Tie(tie, d) => c = d
    <2> SUFFICES ASSUME c.k = d.k, c.flag = d.flag, Tie(tie, c) = Tie(tie, d) PROVE c = d
      OBVIOUS
    <2>1. c.id = d.id
      <3> DEFINE f == tie[<<c.k, c.flag>>]
      <3>1. f[c.id] = f[d.id] /\ f \in Ranks
        BY <1>4 DEF Tie
      <3> HIDE DEF f
      <3> QED
        BY <1>1, <1>5, <3>1
    <2> QED
      BY <2>1 DEF CandsOK
  <1>8. MaxK2 \in Nat
    BY AheadIs
  <1> DEFINE ka == <<MaxK2 - c.k, c.flag, Prio[c.id], Tie(tie, c)>>
             kb == <<MaxK2 - d.k, d.flag, Prio[d.id], Tie(tie, d)>>
  <1>9. Before(tie, c, d) <=> \E i \in 1 .. 4 : ka[i] > kb[i] /\ \A j \in 1 .. i - 1 : ka[j] = kb[j]
    BY DEF Before, Tie
  <1>10. (\E i \in 1 .. 4 : ka[i] > kb[i] /\ \A j \in 1 .. i - 1 : ka[j] = kb[j])
         <=> \/ MaxK2 - c.k > MaxK2 - d.k
             \/ MaxK2 - c.k = MaxK2 - d.k /\ c.flag > d.flag
             \/ MaxK2 - c.k = MaxK2 - d.k /\ c.flag = d.flag /\ Prio[c.id] > Prio[d.id]
             \/ MaxK2 - c.k = MaxK2 - d.k /\ c.flag = d.flag /\ Prio[c.id] = Prio[d.id]
                  /\ Tie(tie, c) > Tie(tie, d)
    <2> DEFINE x == MaxK2 - c.k
               y == MaxK2 - d.k
               p == Prio[c.id]
               q == Prio[d.id]
               m == Tie(tie, c)
               n == Tie(tie, d)
               e == c.flag
               f == d.flag
    <2>1. x \in Int /\ y \in Int /\ p \in Int /\ q \in Int /\ m \in Int /\ n \in Int /\ e \in Int /\ f \in Int
      BY <1>2, <1>3, <1>6, <1>8
    <2>2. ka = <<x, e, p, m>> /\ kb = <<y, f, q, n>>
      OBVIOUS
    <2> HIDE DEF x, y, p, q, m, n, e, f, ka, kb
    <2>3. (\E i \in 1 .. 4 : ka[i] > kb[i] /\ \A j \in 1 .. i - 1 : ka[j] = kb[j])
          <=> \/ x > y
              \/ x = y /\ e > f
              \/ x = y /\ e = f /\ p > q
              \/ x = y /\ e = f /\ p = q /\ m > n
      BY <2>1, <2>2, Lexicographic
    <2> QED
      BY <2>3 DEF x, y, p, q, m, n, e, f
  <1> HIDE DEF ka, kb
  <1> QED
    BY <1>2, <1>3, <1>6, <1>7, <1>8, <1>9, <1>10

\* Before is a strict total order of the candidates of a slot.
LEMMA BeforeOrder ==
  ASSUME NEW S, NEW delays, NEW tie, TieOK(tie, delays), CandsOK(S, delays),
         NEW a \in S, NEW b \in S, NEW c \in S
  PROVE  /\ ~Before(tie, a, a)
         /\ a # b => Before(tie, a, b) \/ Before(tie, b, a)
         /\ Before(tie, a, b) /\ Before(tie, b, c) => Before(tie, a, c)
         /\ Before(tie, a, b) /\ a.k = b.k => b.flag <= a.flag
  <1>1. ~Before(tie, a, a)
    BY BeforeIs
  <1>2. a # b => Before(tie, a, b) \/ Before(tie, b, a)
    BY BeforeIs
  <1>3. Before(tie, a, b) /\ Before(tie, b, c) => Before(tie, a, c)
    <2>1. /\ a.k \in Nat /\ b.k \in Nat /\ c.k \in Nat /\ a.flag \in Nat /\ b.flag \in Nat /\ c.flag \in Nat
          /\ Prio[a.id] \in Nat /\ Prio[b.id] \in Nat /\ Prio[c.id] \in Nat
          /\ Tie(tie, a) \in Nat /\ Tie(tie, b) \in Nat /\ Tie(tie, c) \in Nat
      BY BeforeIs
    <2>2. Before(tie, a, b)
              <=> \/ b.k > a.k
                  \/ b.k = a.k /\ a.flag > b.flag
                  \/ b.k = a.k /\ a.flag = b.flag /\ Prio[a.id] > Prio[b.id]
                  \/ b.k = a.k /\ a.flag = b.flag /\ Prio[a.id] = Prio[b.id]
                               /\ Tie(tie, a) > Tie(tie, b)
      BY BeforeIs
    <2>3. Before(tie, b, c)
              <=> \/ c.k > b.k
                  \/ c.k = b.k /\ b.flag > c.flag
                  \/ c.k = b.k /\ b.flag = c.flag /\ Prio[b.id] > Prio[c.id]
                  \/ c.k = b.k /\ b.flag = c.flag /\ Prio[b.id] = Prio[c.id]
                               /\ Tie(tie, b) > Tie(tie, c)
      BY BeforeIs
    <2>4. Before(tie, a, c)
              <=> \/ c.k > a.k
                  \/ c.k = a.k /\ a.flag > c.flag
                  \/ c.k = a.k /\ a.flag = c.flag /\ Prio[a.id] > Prio[c.id]
                  \/ c.k = a.k /\ a.flag = c.flag /\ Prio[a.id] = Prio[c.id]
                               /\ Tie(tie, a) > Tie(tie, c)
      BY BeforeIs
    <2> QED
      BY <2>1, <2>2, <2>3, <2>4
  <1>4. Before(tie, a, b) /\ a.k = b.k => b.flag <= a.flag
    BY BeforeIs
  <1> QED
    BY <1>1, <1>2, <1>3, <1>4

Rank(S, tie, c) == Cardinality({d \in S : Before(tie, d, c)})

LEMMA RankMonotone ==
  ASSUME NEW S, NEW delays, NEW tie, TieOK(tie, delays), CandsOK(S, delays), NEW g \in S, NEW h \in S
  PROVE  /\ Rank(S, tie, h) \in 0 .. Cardinality(S) - 1
         /\ Before(tie, g, h) => Rank(S, tie, g) < Rank(S, tie, h)
  <1> DEFINE B(x) == {u \in S : Before(tie, u, x)}
  <1>1. IsFiniteSet(S) /\ Cardinality(S) \in Nat
    BY FS_CardinalityType DEF CandsOK
  <1>2. IsFiniteSet(S \ {h}) /\ Cardinality(S \ {h}) = Cardinality(S) - 1
    BY <1>1, FS_RemoveElement
  <1>3. B(h) \in SUBSET (S \ {h})
    BY BeforeOrder
  <1>4. IsFiniteSet(B(h)) /\ Cardinality(B(h)) <= Cardinality(S) - 1 /\ Cardinality(B(h)) \in Nat
    BY <1>2, <1>3, FS_Subset, FS_CardinalityType
  <1>5. ASSUME Before(tie, g, h)
        PROVE  Cardinality(B(g)) < Cardinality(B(h))
    <2>1. g \in B(h) /\ g \notin B(g)
      BY <1>5, BeforeOrder
    <2>2. B(g) \in SUBSET (B(h) \ {g})
      <3>1. ASSUME NEW u \in B(g) PROVE u \in B(h) /\ u # g
        <4>1. u \in S /\ Before(tie, u, g)
          OBVIOUS
        <4>2. Before(tie, u, h)
          BY <1>5, <4>1, BeforeOrder, Zenon
        <4> QED
          BY <2>1, <4>1, <4>2
      <3> QED
        BY <3>1
    <2>3. IsFiniteSet(B(h) \ {g}) /\ Cardinality(B(h) \ {g}) = Cardinality(B(h)) - 1
      BY <1>4, <2>1, FS_RemoveElement
    <2>4. IsFiniteSet(B(g)) /\ Cardinality(B(g)) <= Cardinality(B(h) \ {g}) /\ Cardinality(B(g)) \in Nat
      BY <2>2, <2>3, FS_Subset, FS_CardinalityType
    <2> QED
      BY <2>3, <2>4, <1>4
  <1> QED
    BY <1>1, <1>4, <1>5 DEF Rank

\* Every rank is taken: the CHOOSE of Sorted has something to choose.
LEMMA RankExists ==
  ASSUME NEW S, NEW delays, NEW tie, TieOK(tie, delays), CandsOK(S, delays), NEW i \in 1 .. Cardinality(S)
  PROVE  \E h \in S : Rank(S, tie, h) = i - 1
  <1> DEFINE N == Cardinality(S)
             f == [h \in S |-> Rank(S, tie, h)]
  <1>1. N \in Nat /\ IsFiniteSet(S)
    BY FS_CardinalityType DEF CandsOK
  <1>2. IsFiniteSet(0 .. N - 1) /\ Cardinality(0 .. N - 1) = N
    <2> HIDE DEF N
    <2>1. 0 \in Int /\ N - 1 \in Int
      BY <1>1
    <2>2. /\ IsFiniteSet(0 .. N - 1)
          /\ Cardinality(0 .. N - 1) = IF 0 > N - 1 THEN 0 ELSE N - 1 - 0 + 1
      BY <2>1, FS_Interval
    <2> QED
      BY <1>1, <2>2
  <1>3. f \in [S -> 0 .. N - 1]
    <2>1. \A h \in S : Rank(S, tie, h) \in 0 .. N - 1
      BY RankMonotone
    <2> HIDE DEF N
    <2> QED
      BY <2>1
  <1>4. \A g, h \in S : f[g] = f[h] => g = h
    <2> SUFFICES ASSUME NEW g \in S, NEW h \in S, f[g] = f[h], g # h PROVE FALSE
      OBVIOUS
    <2>1. Rank(S, tie, g) = Rank(S, tie, h)
      OBVIOUS
    <2>2. Before(tie, g, h) \/ Before(tie, h, g)
      BY BeforeOrder
    <2>3. /\ Rank(S, tie, g) \in 0 .. N - 1
          /\ Before(tie, g, h) => Rank(S, tie, g) < Rank(S, tie, h)
          /\ Before(tie, h, g) => Rank(S, tie, h) < Rank(S, tie, g)
      BY RankMonotone, Zenon
    <2> HIDE DEF N
    <2> QED
      BY <1>1, <2>1, <2>2, <2>3
  <1>5. f \in Injection(S, 0 .. N - 1)
    BY <1>3, <1>4 DEF Injection, IsInjective
  <1>6. f \in Surjection(S, 0 .. N - 1)
    BY <1>1, <1>2, <1>5, FS_Injection
  <1>7. PICK h \in S : f[h] = i - 1
    <2>1. i - 1 \in 0 .. N - 1
      BY <1>1
    <2> HIDE DEF f
    <2> QED
      BY <1>6, <2>1 DEF Surjection
  <1> QED
    BY <1>7

\* The queue lists every candidate, in order.
LEMMA SortedLists ==
  ASSUME NEW S, NEW delays, NEW tie, TieOK(tie, delays), CandsOK(S, delays)
  PROVE  LET q == Sorted(S, tie)
         IN  /\ q \in Seq(S)
             /\ \A i, j \in 1 .. Len(q) : i < j => Before(tie, q[i], q[j])
             /\ \A c \in S : \E i \in 1 .. Len(q) : q[i] = c
  <1> DEFINE A == Sorted(S, tie)
             N == Cardinality(S)
             at(i) == CHOOSE c \in S : Cardinality({d \in S : Before(tie, d, c)}) = i - 1
  <1>1. N \in Nat
    BY FS_CardinalityType DEF CandsOK
  <1>2. ASSUME NEW i \in 1 .. N
        PROVE  at(i) \in S /\ Rank(S, tie, at(i)) = i - 1 /\ A[i] = at(i)
    <2>1. \E h \in S : Cardinality({d \in S : Before(tie, d, h)}) = i - 1
      BY RankExists DEF Rank
    <2>2. at(i) \in S /\ Cardinality({d \in S : Before(tie, d, at(i))}) = i - 1
      BY <2>1, Zenon
    <2>3. A[i] = at(i)
      BY DEF Sorted
    <2> QED
      BY <2>2, <2>3 DEF Rank
  <1>3. A = [i \in 1 .. N |-> at(i)]
    BY Zenon DEF Sorted
  <1> HIDE DEF A, N, at
  <1>4. A \in Seq(S) /\ Len(A) = N
    BY <1>1, <1>2, <1>3
  <1>5. ASSUME NEW i \in 1 .. N, NEW j \in 1 .. N, i < j PROVE Before(tie, A[i], A[j])
    <2>1. A[i] \in S /\ A[j] \in S /\ Rank(S, tie, A[i]) = i - 1 /\ Rank(S, tie, A[j]) = j - 1
      BY <1>2
    <2>2. A[i] # A[j]
      BY <1>5, <2>1
    <2>3. Before(tie, A[i], A[j]) \/ Before(tie, A[j], A[i])
      BY <2>1, <2>2, BeforeOrder
    <2>4. Before(tie, A[j], A[i]) => Rank(S, tie, A[j]) < Rank(S, tie, A[i])
      BY <2>1, RankMonotone, Zenon
    <2> QED
      BY <1>5, <2>1, <2>3, <2>4
  <1>6. ASSUME NEW h \in S PROVE \E i \in 1 .. N : A[i] = h
    <2>1. Rank(S, tie, h) \in 0 .. N - 1
      BY RankMonotone DEF N
    <2> DEFINE i == Rank(S, tie, h) + 1
    <2>3. i \in 1 .. N /\ Rank(S, tie, h) = i - 1
      BY <1>1, <2>1
    <2> HIDE DEF i
    <2>4. A[i] \in S /\ Rank(S, tie, A[i]) = i - 1
      BY <1>2, <2>3
    <2>5. /\ Before(tie, A[i], h) => Rank(S, tie, A[i]) < Rank(S, tie, h)
          /\ Before(tie, h, A[i]) => Rank(S, tie, h) < Rank(S, tie, A[i])
      BY <2>4, RankMonotone, Zenon
    <2>6. ~Before(tie, A[i], h) /\ ~Before(tie, h, A[i])
      BY <2>3, <2>4, <2>5
    <2>7. A[i] = h
      BY <2>4, <2>6, BeforeOrder, Zenon
    <2> QED
      BY <2>3, <2>7
  <1> QED
    BY <1>4, <1>5, <1>6 DEF A

-----------------------------------------------------------------------------
(* The candidates of a slot.                                               *)

LEMMA DelaysIs ==
  ASSUME dir \in {"dl", "ul"}, NEW n \in Nat
  PROVE  /\ Delays(n) \in SUBSET Ahead /\ Delays(n) \in SUBSET Nat
         /\ dir = "dl" => Delays(n) \in SUBSET {0}
         /\ dir = "ul" => \A k \in Delays(n) : k \in Nat /\ MinK2 <= k /\ k <= MaxK2
         /\ Delays(n % Slots) = Delays(n)
  <1>1. n % Period \in 0 .. Period - 1 /\ n % Slots \in Nat
    BY Constants
  <1>2. (n % Slots) % Period = n % Period
    <2>1. ((n % Slots) + 0) % Period = (n + 0) % Period
      <3>1. 0 \in Nat
        OBVIOUS
      <3>2. \A k \in Nat : ((n % Slots) + k) % Period = (n + k) % Period
        BY SlotsWrap, Zenon
      <3> QED
        BY <3>1, <3>2, Zenon
    <2> QED
      BY <1>1, <2>1
  <1>3. Delays(n % Slots) = Delays(n)
    BY <1>2 DEF Delays
  <1>4. dir = "dl" => Delays(n) \in SUBSET {0}
    BY DEF Delays
  <1>5. dir = "ul" => \A k \in Delays(n) : k \in Nat /\ MinK2 <= k /\ k <= MaxK2
    BY <1>1, K2Bounds DEF Delays
  <1>6. Delays(n) \in SUBSET Ahead
    BY <1>4, <1>5, AheadIs
  <1> QED
    BY <1>3, <1>4, <1>5, <1>6, AheadIs

LEMMA CandidatesOfSlice ==
  ASSUME NEW s \in Slice, NEW k \in Ahead, NEW n \in Nat, LimOK(cfg[s]), n < cfg[s].max
  PROVE  /\ \A c \in SliceCandidates(s, k, n) :
              /\ c \in Candidate /\ c.id = s /\ c.k = k /\ c.stop <= cfg[s].max
              /\ c.flag = MinRbFlag(s, c.stop)
         /\ \A c, d \in SliceCandidates(s, k, n) : c.flag = d.flag => c = d
         /\ n < cfg[s].min => \E c \in SliceCandidates(s, k, n) : c.flag = 1
  <1> DEFINE lim == cfg[s]
             cand(a, b) == [id |-> s, start |-> a, stop |-> b, k |-> k, flag |-> MinRbFlag(s, b)]
  <1>1. lim.min \in Nat /\ lim.max \in Nat /\ lim.min <= lim.max /\ n < lim.max
    BY DEF LimOK, Lim
  <1>2. \A b : MinRbFlag(s, b) \in {0, 1}
    BY DEF MinRbFlag
  <1>3. ASSUME NEW a \in Nat, NEW b \in Nat
        PROVE  /\ cand(a, b) \in Candidate /\ cand(a, b).id = s /\ cand(a, b).k = k
               /\ cand(a, b).stop = b /\ cand(a, b).flag = MinRbFlag(s, b)
    <2>1. MinRbFlag(s, b) \in {0, 1}
      BY <1>2
    <2> DEFINE f == MinRbFlag(s, b)
    <2> HIDE DEF f
    <2>2. f \in {0, 1}
      BY <2>1 DEF f
    <2> QED
      BY <2>2 DEF Candidate, f
  <1>4. CASE n < lim.min /\ lim.max > lim.min
    <2>1. SliceCandidates(s, k, n) = {cand(n, lim.min), cand(lim.min, lim.max)}
      BY <1>4 DEF SliceCandidates
    <2>2. MinRbFlag(s, lim.min) = 1 /\ MinRbFlag(s, lim.max) = 0
      BY <1>1, <1>4 DEF MinRbFlag
    <2>3. /\ cand(n, lim.min) \in Candidate /\ cand(n, lim.min).id = s /\ cand(n, lim.min).k = k
          /\ cand(n, lim.min).stop = lim.min /\ cand(n, lim.min).flag = MinRbFlag(s, lim.min)
      BY <1>1, <1>3
    <2>4. /\ cand(lim.min, lim.max) \in Candidate /\ cand(lim.min, lim.max).id = s
          /\ cand(lim.min, lim.max).k = k /\ cand(lim.min, lim.max).stop = lim.max
          /\ cand(lim.min, lim.max).flag = MinRbFlag(s, lim.max)
      BY <1>1, <1>3
    <2> HIDE DEF cand
    <2> QED
      BY <1>1, <2>1, <2>2, <2>3, <2>4
  <1>5. CASE ~(n < lim.min /\ lim.max > lim.min)
    <2>1. SliceCandidates(s, k, n) = {cand(n, lim.max)}
      BY <1>5 DEF SliceCandidates
    <2>2. n < lim.min => MinRbFlag(s, lim.max) = 1
      BY <1>1, <1>5 DEF MinRbFlag
    <2>3. /\ cand(n, lim.max) \in Candidate /\ cand(n, lim.max).id = s /\ cand(n, lim.max).k = k
          /\ cand(n, lim.max).stop = lim.max /\ cand(n, lim.max).flag = MinRbFlag(s, lim.max)
      BY <1>1, <1>3
    <2> HIDE DEF cand
    <2> QED
      BY <1>1, <2>1, <2>2, <2>3
  <1> QED
    BY <1>4, <1>5

(***************************************************************************)
(* The local definitions of SlotIndication.                                *)
(***************************************************************************)
SlotOf(skip) == (now + skip) % Slots

ClearedRbs(skip) ==
  [s \in Slice |-> [p \in DOMAIN rbs[s] |-> IF p \in Cleared(skip) THEN 0 ELSE rbs[s][p]]]

Count(skip, s, k) == ClearedRbs(skip)[s][RingPos(SlotOf(skip) + k)]

Below(skip, delays) == {x \in active \X delays : Count(skip, x[1], x[2]) < cfg[x[1]].max}

Cands(skip, delays) ==
  UNION {SliceCandidates(x[1], x[2], Count(skip, x[1], x[2])) : x \in Below(skip, delays)}

Shifted(skip, f, none) == [k \in Ahead |-> IF k + skip \in Ahead THEN f[k + skip] ELSE none]

LEMMA SlotIndicationIs ==
  ASSUME NEW skip, NEW blocked, NEW tie, SlotIndication(skip, blocked, tie)
  PROVE  LET delays == Delays(SlotOf(skip)) \ blocked
         IN /\ queue = <<>> /\ offer = None
            /\ now' = SlotOf(skip) /\ rbs' = ClearedRbs(skip)
            /\ dedRbs' = [p \in DOMAIN dedRbs |->
                 IF p \in {(now + i - 1) % Period : i \in 1 .. skip} THEN 0 ELSE dedRbs[p]]
            /\ queue' = Sorted(Cands(skip, delays), tie)
            /\ granted' = [s \in Slice |-> Shifted(skip, granted[s], 0)]
            /\ served' = Shifted(skip, served, NoneServed)
            /\ due' = {x \in active \X delays : Count(skip, x[1], x[2]) < cfg[x[1]].min}
            /\ dir' = dir /\ active' = active /\ cfg' = cfg /\ offer' = offer
  BY Zenon DEF SlotIndication, SlotOf, ClearedRbs, Count, Below, Cands, Shifted

LEMMA CountIs ==
  ASSUME RestInv, NEW skip \in 1 .. MaxSkip, NEW s \in Slice, NEW k \in Nat
  PROVE  /\ SlotOf(skip) \in 0 .. Slots - 1
         /\ RingPos(SlotOf(skip) + k) \in 0 .. RingSize - 1
         /\ ClearedRbs(skip) \in [Slice -> [0 .. RingSize - 1 -> 0 .. CellRbs]]
         /\ Count(skip, s, k) \in Nat
  <1>1. now \in Nat /\ skip \in Nat /\ Slots \in Nat \ {0} /\ RingSize \in Nat \ {0} /\ CellRbs \in Nat
    BY Constants DEF RestInv
  <1>2. SlotOf(skip) \in 0 .. Slots - 1
    BY <1>1 DEF SlotOf
  <1>3. RingPos(SlotOf(skip) + k) \in 0 .. RingSize - 1
    <2>1. SlotOf(skip) + k \in Nat
      BY <1>1, <1>2
    <2> QED
      BY <1>1, <2>1 DEF RingPos
  <1>4. ClearedRbs(skip) \in [Slice -> [0 .. RingSize - 1 -> 0 .. CellRbs]]
    <2>1. rbs \in [Slice -> [0 .. RingSize - 1 -> 0 .. CellRbs]]
      BY DEF RestInv
    <2>2. \A t \in Slice : [p \in DOMAIN rbs[t] |-> IF p \in Cleared(skip) THEN 0 ELSE rbs[t][p]]
                             \in [0 .. RingSize - 1 -> 0 .. CellRbs]
      BY <1>1, <2>1
    <2> QED
      BY <2>2, Zenon DEF ClearedRbs
  <1>5. Count(skip, s, k) \in 0 .. CellRbs
    BY <1>3, <1>4, Zenon DEF Count
  <1> QED
    BY <1>1, <1>2, <1>3, <1>4, <1>5

LEMMA CandsAre ==
  ASSUME CfgInv, RestInv, NEW skip \in 1 .. MaxSkip, NEW delays \in SUBSET Ahead
  PROVE  /\ CandsOK(Cands(skip, delays), delays)
         /\ \A c \in Cands(skip, delays) :
              /\ c \in Candidate /\ c.k \in delays /\ c.stop <= cfg[c.id].max
              /\ c.flag = MinRbFlag(c.id, c.stop)
         /\ \A s \in active, k \in delays : Count(skip, s, k) < cfg[s].min =>
              \E c \in Cands(skip, delays) : c.id = s /\ c.k = k /\ c.flag = 1
  <1> DEFINE C == Cands(skip, delays)
             Of(s, k) == SliceCandidates(s, k, Count(skip, s, k))
  <1>1. active \in SUBSET Slice /\ \A s \in Slice : LimOK(cfg[s])
    BY DEF RestInv, CfgInv
  <1>2. \A k \in delays : k \in Ahead /\ k \in Nat
    BY AheadIs
  <1>3. ASSUME NEW c \in C
        PROVE  \E s \in active, k \in delays : Count(skip, s, k) < cfg[s].max /\ c \in Of(s, k)
    <2>1. PICK x \in Below(skip, delays) : c \in Of(x[1], x[2])
      BY DEF Cands
    <2>2. x[1] \in active /\ x[2] \in delays /\ Count(skip, x[1], x[2]) < cfg[x[1]].max
      BY DEF Below
    <2> QED
      BY <2>1, <2>2
  <1>4. ASSUME NEW s \in active, NEW k \in delays, Count(skip, s, k) < cfg[s].max, NEW c \in Of(s, k)
        PROVE  c \in C
    <2>1. <<s, k>> \in Below(skip, delays)
      BY <1>4 DEF Below
    <2>2. c \in Of(<<s, k>>[1], <<s, k>>[2])
      OBVIOUS
    <2> QED
      BY <2>1, <2>2, Zenon DEF Cands
  <1>5. ASSUME NEW s \in active, NEW k \in delays, Count(skip, s, k) < cfg[s].max
        PROVE  /\ \A c \in Of(s, k) : /\ c \in Candidate /\ c.id = s /\ c.k = k /\ c.stop <= cfg[s].max
                                      /\ c.flag = MinRbFlag(s, c.stop)
               /\ \A c, d \in Of(s, k) : c.flag = d.flag => c = d
               /\ Count(skip, s, k) < cfg[s].min => \E c \in Of(s, k) : c.flag = 1
    <2>1. s \in Slice /\ k \in Ahead /\ k \in Nat /\ LimOK(cfg[s])
      BY <1>1, <1>2
    <2>2. Count(skip, s, k) \in Nat
      BY <2>1, CountIs
    <2> DEFINE n == Count(skip, s, k)
    <2> HIDE DEF n
    <2>3. n \in Nat /\ n < cfg[s].max
      BY <1>5, <2>2 DEF n
    <2>4. /\ \A c \in SliceCandidates(s, k, n) :
                /\ c \in Candidate /\ c.id = s /\ c.k = k /\ c.stop <= cfg[s].max
                /\ c.flag = MinRbFlag(s, c.stop)
          /\ \A c, d \in SliceCandidates(s, k, n) : c.flag = d.flag => c = d
          /\ n < cfg[s].min => \E c \in SliceCandidates(s, k, n) : c.flag = 1
      BY <2>1, <2>3, CandidatesOfSlice
    <2> QED
      BY <2>4 DEF n
  <1> HIDE DEF C, Of
  <1>6. ASSUME NEW c \in C
        PROVE  /\ c \in Candidate /\ c.id \in active /\ c.k \in delays /\ c.stop <= cfg[c.id].max
               /\ c.flag = MinRbFlag(c.id, c.stop) /\ c.flag \in {0, 1}
               /\ Count(skip, c.id, c.k) < cfg[c.id].max /\ c \in Of(c.id, c.k)
    <2>1. PICK s \in active, k \in delays : Count(skip, s, k) < cfg[s].max /\ c \in Of(s, k)
      BY <1>3
    <2>2. /\ c \in Candidate /\ c.id = s /\ c.k = k /\ c.stop <= cfg[s].max
          /\ c.flag = MinRbFlag(s, c.stop)
      BY <1>5, <2>1
    <2>3. c.flag \in {0, 1}
      BY <2>2 DEF MinRbFlag
    <2> QED
      BY <2>1, <2>2, <2>3
  <1>7. ASSUME NEW c \in C, NEW d \in C, c.id = d.id, c.k = d.k, c.flag = d.flag
        PROVE  c = d
    <2>1. /\ c.id \in active /\ c.k \in delays /\ Count(skip, c.id, c.k) < cfg[c.id].max
          /\ c \in Of(c.id, c.k) /\ d \in Of(c.id, c.k)
      BY <1>6, <1>7
    <2> QED
      BY <1>5, <1>7, <2>1
  <1>8. IsFiniteSet(C)
    <2> DEFINE T == Slice \X (Ahead \X {0, 1})
               f == [c \in C |-> <<c.id, <<c.k, c.flag>>>>]
    <2>1. IsFiniteSet({0, 1})
      <3>1. IsFiniteSet({0})
        BY FS_Singleton
      <3>2. IsFiniteSet({0} \cup {1})
        BY <3>1, FS_AddElement
      <3>3. {0, 1} = {0} \cup {1}
        OBVIOUS
      <3> QED
        BY <3>2, <3>3
    <2>2. IsFiniteSet(Ahead \X {0, 1})
      BY <2>1, AheadIs, FS_Product
    <2>3. IsFiniteSet(T)
      BY <2>2, Constants, FS_Product
    <2>4. f \in [C -> T]
      <3>1. \A c \in C : c.id \in Slice /\ c.k \in Ahead /\ c.flag \in {0, 1}
        BY <1>1, <1>2, <1>6
      <3> QED
        BY <3>1
    <2>5. \A c, d \in C : f[c] = f[d] => c = d
      <3> SUFFICES ASSUME NEW c \in C, NEW d \in C, f[c] = f[d] PROVE c = d
        OBVIOUS
      <3>1. c.id = d.id /\ c.k = d.k /\ c.flag = d.flag
        OBVIOUS
      <3> QED
        BY <1>7, <3>1
    <2> HIDE DEF f, T
    <2>6. f \in Injection(C, T)
      BY <2>4, <2>5 DEF Injection, IsInjective
    <2> QED
      BY <2>3, <2>6, FS_Injection
  <1>9. CandsOK(C, delays)
    <2>1. \A c \in C : c.id \in Slice /\ c.k \in delays /\ c.flag \in {0, 1}
      BY <1>1, <1>6
    <2> QED
      BY <1>7, <1>8, <2>1 DEF CandsOK
  <1>10. ASSUME NEW s \in active, NEW k \in delays, Count(skip, s, k) < cfg[s].min
         PROVE  \E c \in C : c.id = s /\ c.k = k /\ c.flag = 1
    <2>1. Count(skip, s, k) < cfg[s].max
      <3>1. s \in Slice /\ k \in Nat
        BY <1>1, <1>2
      <3>2. Count(skip, s, k) \in Nat /\ LimOK(cfg[s])
        BY <1>1, <3>1, CountIs
      <3> QED
        BY <1>10, <3>2 DEF LimOK, Lim
    <2>2. PICK c \in Of(s, k) : c.flag = 1 /\ c.id = s /\ c.k = k
      BY <1>5, <1>10, <2>1
    <2> QED
      BY <1>4, <2>1, <2>2
  <1> QED
    BY <1>6, <1>9, <1>10 DEF C

-----------------------------------------------------------------------------
(* A slot indication.                                                      *)

LEMMA RingStep ==
  ASSUME RestInv, RingInv, NEW skip \in 1 .. MaxSkip,
         now' = SlotOf(skip), rbs' = ClearedRbs(skip), dir' = dir,
         granted' = [s \in Slice |-> Shifted(skip, granted[s], 0)]
  PROVE  RingInv'
  <1>1. /\ now \in Nat /\ skip \in Nat \ {0} /\ RingSize \in Nat \ {0} /\ dir \in {"dl", "ul"}
        /\ rbs \in [Slice -> [0 .. RingSize - 1 -> 0 .. CellRbs]]
        /\ MinK2 \in Nat \ {0} /\ MaxK2 \in Nat /\ MaxK2 < RingSize
    BY Constants, K2Bounds DEF RestInv
  <1>2. ASSUME NEW s \in Slice, NEW p \in 0 .. RingSize - 1
        PROVE  rbs'[s][p] = IF p \in Cleared(skip) THEN 0 ELSE rbs[s][p]
    BY <1>1 DEF ClearedRbs
  <1>3. ASSUME NEW s \in Slice, NEW k \in Ahead
        PROVE  granted'[s][k] = IF k + skip \in Ahead THEN granted[s][k + skip] ELSE 0
    BY DEF Shifted
  <1>4. ASSUME dir = "dl", NEW s \in Slice
        PROVE  rbs'[s][0] = granted'[s][0] /\ \A k \in Ahead \ {0} : granted'[s][k] = 0
    <2>1. \A k \in Ahead \ {0} : granted[s][k] = 0
      BY <1>4 DEF RingInv
    <2>2. ASSUME NEW k \in Ahead PROVE granted'[s][k] = 0
      <3>1. k \in Nat
        BY AheadIs
      <3>2. k + skip # 0
        BY <1>1, <3>1
      <3> QED
        BY <1>3, <2>1, <3>2
    <2>3. 0 \in Cleared(skip)
      <3>1. 1 \in 1 .. skip /\ RingPos(now + 1 + MinK2 - 1) = 0
        BY <1>1, <1>4 DEF RingPos
      <3> QED
        BY <3>1 DEF Cleared
    <2>4. rbs'[s][0] = 0
      <3>1. 0 \in 0 .. RingSize - 1
        BY <1>1
      <3> QED
        BY <1>2, <2>3, <3>1
    <2> QED
      BY <2>2, <2>4, AheadIs
  <1>5. ASSUME dir = "ul", NEW s \in Slice, NEW k \in MinK2 .. MinK2 + RingSize - 1
        PROVE  rbs'[s][(now' + k) % RingSize] = IF k <= MaxK2 THEN granted'[s][k] ELSE 0
    <2> DEFINE j == k + skip
               p == (now + j) % RingSize
    <2>1. k \in Nat /\ j \in Nat /\ MinK2 <= k
      BY <1>1
    <2>2. (now' + k) % RingSize = p
      <3>1. Slots \in Nat \ {0} /\ Slots % RingSize = 0 /\ now + skip \in Nat
        BY <1>1, Constants
      <3>2. (((now + skip) % Slots) + k) % RingSize = (now + skip + k) % RingSize
        <4> DEFINE m == now + skip
        <4>1. m \in Nat
          BY <3>1
        <4> HIDE DEF m
        <4>2. \A l \in Nat : ((m % Slots) + l) % RingSize = (m + l) % RingSize
          BY <4>1, SlotsWrap, Zenon
        <4>3. ((m % Slots) + k) % RingSize = (m + k) % RingSize
          BY <2>1, <4>2, Zenon
        <4> QED
          BY <4>3 DEF m
      <3>3. now + skip + k = now + j
        BY <1>1, <2>1
      <3> QED
        BY <3>2, <3>3 DEF SlotOf
    <2>3. p \in 0 .. RingSize - 1
      BY <1>1, <2>1
    <2>4. k <= MaxK2 => granted'[s][k] = IF j <= MaxK2 THEN granted[s][j] ELSE 0
      BY <1>3, <2>1, AheadIs
    <2>5. CASE j <= MinK2 + RingSize - 1
      <3>1. rbs[s][p] = IF j <= MaxK2 THEN granted[s][j] ELSE 0
        <4>1. j \in MinK2 .. MinK2 + RingSize - 1
          BY <1>1, <2>1, <2>5
        <4> HIDE DEF j
        <4> QED
          BY <1>5, <4>1 DEF RingInv
      <3>2. p \notin Cleared(skip)
        <4> SUFFICES ASSUME NEW i \in 1 .. skip, p = RingPos(now + i + MinK2 - 1) PROVE FALSE
          BY DEF Cleared
        <4> DEFINE x == now + i + MinK2 - 1
                   y == now + j
        <4>1. x \in Int /\ y \in Int /\ x < y /\ y < x + RingSize
          BY <1>1, <2>1, <2>5
        <4>2. p = x % RingSize
          BY <1>5 DEF RingPos
        <4>3. x % RingSize # y % RingSize
          <5> HIDE DEF x, y
          <5> QED
            BY <1>1, <4>1, ModDiffer
        <4> QED
          BY <4>2, <4>3
      <3>3. rbs'[s][p] = rbs[s][p]
        <4> HIDE DEF p
        <4> QED
          BY <1>2, <2>3, <3>2
      <3>4. k > MaxK2 => j > MaxK2
        BY <1>1, <2>1
      <3> HIDE DEF p, j
      <3> QED
        BY <1>1, <2>1, <2>2, <2>4, <3>1, <3>3, <3>4
    <2>6. CASE ~(j <= MinK2 + RingSize - 1)
      <3> DEFINE i == j - RingSize - MinK2 + 1
                 x == now + i + MinK2 - 1
      <3>1. i \in 1 .. skip /\ x \in Int /\ x + RingSize * 1 = now + j
        BY <1>1, <2>1, <2>6
      <3>2. x % RingSize = p
        <4> HIDE DEF x
        <4>1. 1 \in Int
          OBVIOUS
        <4>2. (x + RingSize * 1) % RingSize = x % RingSize
          BY <1>1, <3>1, <4>1, ModShift, Zenon
        <4> QED
          BY <3>1, <4>2
      <3>3. p \in Cleared(skip)
        <4>1. p = RingPos(x)
          BY <1>5, <3>2 DEF RingPos
        <4> HIDE DEF p, i
        <4> QED
          BY <3>1, <4>1 DEF Cleared
      <3>4. rbs'[s][p] = 0
        <4> HIDE DEF p
        <4> QED
          BY <1>2, <2>3, <3>3
      <3>5. j > MaxK2
        BY <1>1, <2>1, <2>6
      <3> HIDE DEF p, j
      <3> QED
        BY <1>1, <2>1, <2>2, <2>4, <3>4, <3>5
    <2> QED
      BY <2>5, <2>6
  <1> QED
    BY <1>1, <1>4, <1>5 DEF RingInv

LEMMA SlotIndicationStep ==
  ASSUME IInv, NEW skip \in 1 .. MaxSkip, NEW blocked,
         NEW tie \in [Delays(now + skip) \X {0, 1} -> Ranks], SlotIndication(skip, blocked, tie)
  PROVE  IInv'
  <1> DEFINE slot == SlotOf(skip)
             delays == Delays(slot) \ blocked
             C == Cands(skip, delays)
  <1>1. /\ queue = <<>> /\ offer = None /\ offer' = offer
        /\ now' = slot /\ rbs' = ClearedRbs(skip)
        /\ dedRbs' = [p \in DOMAIN dedRbs |->
             IF p \in {(now + i - 1) % Period : i \in 1 .. skip} THEN 0 ELSE dedRbs[p]]
        /\ queue' = Sorted(C, tie)
        /\ granted' = [s \in Slice |-> Shifted(skip, granted[s], 0)]
        /\ served' = Shifted(skip, served, NoneServed)
        /\ due' = {x \in active \X delays : Count(skip, x[1], x[2]) < cfg[x[1]].min}
        /\ dir' = dir /\ active' = active /\ cfg' = cfg
    BY SlotIndicationIs
  <1>2. CfgInv /\ RestInv /\ RingInv
    BY DEF IInv
  <1>3. dir \in {"dl", "ul"} /\ now \in Nat /\ skip \in Nat /\ now + skip \in Nat
    BY <1>2, Constants DEF RestInv
  <1>4. /\ Delays(now + skip) \in SUBSET Ahead /\ Delays(now + skip) \in SUBSET Nat
        /\ Delays(slot) = Delays(now + skip)
    BY <1>3, DelaysIs DEF SlotOf
  <1>5. delays \in SUBSET Ahead /\ delays \in SUBSET Delays(now + skip)
    BY <1>4
  <1>6. Delays(now)' = Delays(slot)
    BY <1>1 DEF Delays
  <1>7. CfgInv'
    BY <1>1, <1>2 DEF CfgInv
  <1>8. RingInv'
    BY <1>1, <1>2, RingStep
  <1>9. RestInv'
    <2>1. slot \in 0 .. Slots - 1 /\ ClearedRbs(skip) \in [Slice -> [0 .. RingSize - 1 -> 0 .. CellRbs]]
      <3>1. PICK s \in Slice : TRUE
        BY Constants
      <3>2. 0 \in Nat
        OBVIOUS
      <3> QED
        BY <1>2, <3>1, <3>2, CountIs
    <2>2. dedRbs' \in [0 .. Period - 1 -> Nat]
      <3>1. dedRbs \in [0 .. Period - 1 -> Nat]
        BY <1>2 DEF RestInv
      <3> QED
        BY <1>1, <3>1
    <2>3. granted' \in [Slice -> [Ahead -> Nat]]
      <3>1. \A s \in Slice : granted[s] \in [Ahead -> Nat]
        BY <1>2 DEF RestInv
      <3>2. \A s \in Slice : Shifted(skip, granted[s], 0) \in [Ahead -> Nat]
        BY <3>1 DEF Shifted
      <3> QED
        BY <1>1, <3>2
    <2>4. served' \in [Ahead -> [Slice -> Nat]]
      <3>1. served \in [Ahead -> [Slice -> Nat]] /\ NoneServed \in [Slice -> Nat]
        BY <1>2 DEF RestInv, NoneServed
      <3> QED
        BY <1>1, <3>1 DEF Shifted
    <2>5. due' \in SUBSET (Slice \X Ahead)
      <3>1. active \in SUBSET Slice
        BY <1>2 DEF RestInv
      <3> HIDE DEF delays
      <3> QED
        BY <1>1, <1>5, <3>1
    <2> HIDE DEF slot, delays, C
    <2> QED
      BY <1>1, <1>2, <2>1, <2>2, <2>3, <2>4, <2>5 DEF RestInv
  <1>10. /\ CandsOK(C, delays)
         /\ \A c \in C : /\ c \in Candidate /\ c.k \in delays /\ c.stop <= cfg[c.id].max
                         /\ c.flag = MinRbFlag(c.id, c.stop)
         /\ \A s \in active, k \in delays : Count(skip, s, k) < cfg[s].min =>
              \E c \in C : c.id = s /\ c.k = k /\ c.flag = 1
    <2> HIDE DEF delays
    <2> QED
      BY <1>2, <1>5, CandsAre
  <1> DEFINE D == Delays(now + skip)
  <1>11. TieOK(tie, D) /\ CandsOK(C, D)
    <2>1. TieOK(tie, D)
      BY <1>4 DEF TieOK
    <2>2. \A k \in delays : k \in D
      BY <1>5
    <2> HIDE DEF delays, C, D
    <2>3. CandsOK(C, D)
      BY <1>10, <2>2 DEF CandsOK
    <2> QED
      BY <2>1, <2>3
  <1> HIDE DEF C, D
  <1>12. /\ queue' \in Seq(C)
         /\ \A i, j \in 1 .. Len(queue') : i < j => Before(tie, queue'[i], queue'[j])
         /\ \A c \in C : \E i \in 1 .. Len(queue') : queue'[i] = c
    <2> DEFINE q == Sorted(C, tie)
    <2>1. /\ q \in Seq(C)
          /\ \A i, j \in 1 .. Len(q) : i < j => Before(tie, q[i], q[j])
          /\ \A c \in C : \E i \in 1 .. Len(q) : q[i] = c
      BY <1>11, SortedLists
    <2>2. queue' = q
      BY <1>1
    <2> HIDE DEF q
    <2> QED
      BY <2>1, <2>2
  <1>13. Len(queue') \in Nat /\ \A i \in 1 .. Len(queue') : queue'[i] \in C
    BY <1>12
  <1>14. QueueInv'
    <2>1. queue' \in Seq(Candidate)
      <3>1. C \in SUBSET Candidate
        BY <1>10
      <3> QED
        BY <1>12, <3>1
    <2>2. ASSUME NEW i \in 1 .. Len(queue') PROVE CandOK(queue[i], Delays(now), cfg)'
      <3> DEFINE c == queue'[i]
      <3>1. c \in C
        BY <1>13
      <3>2. c \in Candidate /\ c.k \in delays /\ c.stop <= cfg[c.id].max /\ c.flag = MinRbFlag(c.id, c.stop)
        BY <1>10, <3>1
      <3>3. c.k \in Delays(now)'
        BY <1>6, <3>2
      <3> QED
        BY <1>1, <3>2, <3>3 DEF CandOK, MinRbFlag
    <2> QED
      BY <2>1, <2>2 DEF QueueInv
  <1>15. OrderInv'
    <2> SUFFICES ASSUME NEW i \in 1 .. Len(queue'), NEW j \in 1 .. Len(queue'), i < j,
                        queue'[i].k = queue'[j].k
                 PROVE  queue'[j].flag <= queue'[i].flag
      BY DEF OrderInv
    <2>1. queue'[i] \in C /\ queue'[j] \in C /\ Before(tie, queue'[i], queue'[j])
      BY <1>12, <1>13
    <2> QED
      BY <1>11, <2>1, BeforeOrder
  <1>16. DueInv'
    <2> SUFFICES ASSUME NEW x \in due'
                 PROVE  \E i \in 1 .. Len(queue') : queue'[i].id = x[1] /\ queue'[i].k = x[2] /\ queue'[i].flag = 1
      BY DEF DueInv
    <2>1. x[1] \in active /\ x[2] \in delays /\ Count(skip, x[1], x[2]) < cfg[x[1]].min
      BY <1>1
    <2>2. PICK c \in C : c.id = x[1] /\ c.k = x[2] /\ c.flag = 1
      BY <1>10, <2>1
    <2>3. PICK i \in 1 .. Len(queue') : queue'[i] = c
      BY <1>12
    <2> QED
      BY <2>2, <2>3
  <1>17. OfferInv' /\ MinimumBeforeShared'
    BY <1>1 DEF OfferInv, MinimumBeforeShared
  <1> QED
    BY <1>7, <1>8, <1>9, <1>14, <1>15, <1>16, <1>17 DEF IInv

-----------------------------------------------------------------------------
(* A turn of get_next_candidate.                                           *)

LEMMA MaxMinTwo ==
  ASSUME NEW a \in Nat, NEW b \in Nat
  PROVE  /\ Max({a, b}) \in {a, b} /\ a <= Max({a, b}) /\ b <= Max({a, b})
         /\ Min({a, b}) \in {a, b} /\ Min({a, b}) <= a /\ Min({a, b}) <= b
  <1>1. \E x \in {a, b} : \A y \in {a, b} : x >= y
    OBVIOUS
  <1>2. \E x \in {a, b} : \A y \in {a, b} : x =< y
    OBVIOUS
  <1>3. Max({a, b}) \in {a, b} /\ \A y \in {a, b} : Max({a, b}) >= y
    BY <1>1, Zenon DEF Max
  <1>4. Min({a, b}) \in {a, b} /\ \A y \in {a, b} : Min({a, b}) =< y
    BY <1>2, Zenon DEF Min
  <1> QED
    BY <1>3, <1>4

LEMMA CandFields ==
  ASSUME NEW c \in Candidate
  PROVE  /\ c.id \in Slice /\ c.start \in Nat /\ c.stop \in Nat /\ c.k \in Ahead /\ c.flag \in {0, 1}
         /\ c.k \in Nat
  BY AheadIs DEF Candidate

\* The candidate of a turn, merged with the next one of its slice and slot.
Top ==
  IF Merged(queue)
    THEN [queue[1] EXCEPT !.start = Min({@, queue[2].start}),
                          !.stop  = Max({@, queue[2].stop})]
    ELSE queue[1]

Popped == IF Merged(queue) THEN 2 ELSE 1

LEMMA TopIs ==
  ASSUME CfgInv, QueueInv, OrderInv, queue # <<>>
  PROVE  /\ Len(queue) \in Nat /\ Popped \in 1 .. Len(queue)
         /\ Top \in Candidate /\ Top.id = queue[1].id /\ Top.k = queue[1].k
         /\ Top.k \in Delays(now) /\ Top.stop <= cfg[Top.id].max
         /\ \A i \in 1 .. Popped : queue[i].id = Top.id /\ queue[i].k = Top.k
         /\ Top.stop > cfg[Top.id].min => queue[Popped].flag = 0
  <1>1. queue \in Seq(Candidate) /\ Len(queue) \in Nat \ {0}
    BY DEF QueueInv
  <1>2. CandOK(queue[1], Delays(now), cfg) /\ queue[1] \in Candidate
    BY <1>1 DEF QueueInv, CandOK
  <1>3. CASE ~Merged(queue)
    <2>1. Top = queue[1] /\ Popped = 1
      BY <1>3 DEF Top, Popped
    <2>2. queue[1].id \in Slice /\ queue[1].stop \in Nat
      BY <1>2, CandFields
    <2>3. cfg[queue[1].id].min \in Nat
      BY <2>2 DEF CfgInv, Lim
    <2>4. 1 .. Popped = {1}
      BY <2>1
    <2>5. Top.stop > cfg[Top.id].min => queue[Popped].flag = 0
      BY <1>2, <2>1, <2>2, <2>3 DEF CandOK
    <2> QED
      BY <1>1, <1>2, <2>1, <2>4, <2>5 DEF CandOK
  <1>4. CASE Merged(queue)
    <2>1. Len(queue) > 1 /\ queue[2].id = queue[1].id /\ queue[2].k = queue[1].k
      BY <1>4 DEF Merged
    <2>2. CandOK(queue[2], Delays(now), cfg) /\ queue[2] \in Candidate
      BY <1>1, <2>1 DEF QueueInv, CandOK
    <2> DEFINE a == queue[1]
               b == queue[2]
               x == Min({a.start, b.start})
               y == Max({a.stop, b.stop})
    <2>3. /\ a.id \in Slice /\ a.start \in Nat /\ a.stop \in Nat /\ a.k \in Ahead /\ a.flag \in {0, 1}
          /\ b.id \in Slice /\ b.start \in Nat /\ b.stop \in Nat /\ b.k \in Ahead /\ b.flag \in {0, 1}
      BY <1>2, <2>2, CandFields
    <2>4. x \in {a.start, b.start} /\ y \in {a.stop, b.stop} /\ a.stop <= y /\ b.stop <= y
      BY <2>3, MaxMinTwo
    <2>5. Top = [a EXCEPT !.start = x, !.stop = y] /\ Popped = 2
      BY <1>4 DEF Top, Popped
    <2> HIDE DEF x, y
    <2>6. x \in Nat /\ y \in Nat
      BY <2>3, <2>4
    <2>7. Top \in Candidate /\ Top.id = a.id /\ Top.k = a.k /\ Top.stop = y
      BY <1>2, <2>5, <2>6 DEF Candidate
    <2>8. LimOK(cfg[a.id]) /\ cfg[a.id].min \in Nat /\ cfg[a.id].max \in Nat
      BY <2>3 DEF CfgInv, LimOK, Lim
    <2>9. a.stop <= cfg[a.id].max /\ b.stop <= cfg[a.id].max /\ a.k \in Delays(now)
      BY <1>2, <2>1, <2>2 DEF CandOK
    <2>10. Top.stop <= cfg[Top.id].max /\ Top.k \in Delays(now)
      BY <2>4, <2>7, <2>9
    <2>11. 1 .. Popped = {1, 2}
      BY <2>5
    <2>12. ASSUME Top.stop > cfg[Top.id].min PROVE b.flag = 0
      <3>1. y > cfg[a.id].min
        BY <2>7, <2>12
      <3>2. a.flag = (IF a.stop <= cfg[a.id].min /\ cfg[a.id].min > 0 THEN 1 ELSE 0)
        BY <1>2 DEF CandOK
      <3>3. b.flag = (IF b.stop <= cfg[a.id].min /\ cfg[a.id].min > 0 THEN 1 ELSE 0)
        BY <2>1, <2>2 DEF CandOK
      <3>4. CASE b.flag = 1
        <4>1. a.flag = 0
          BY <2>3, <2>4, <2>6, <2>8, <3>1, <3>2, <3>3, <3>4
        <4>2. b.flag <= a.flag
          <5>1. 1 \in 1 .. Len(queue) /\ 2 \in 1 .. Len(queue) /\ 1 < 2
            BY <1>1, <2>1
          <5> QED
            BY <2>1, <5>1 DEF OrderInv
        <4> QED
          BY <3>4, <4>1, <4>2
      <3> QED
        BY <2>3, <3>4
    <2> QED
      BY <1>1, <2>1, <2>5, <2>7, <2>10, <2>11, <2>12
  <1> QED
    BY <1>3, <1>4

\* What PopCandidate does.
LEMMA PopIs ==
  ASSUME PopCandidate
  PROVE  LET pos == (now + Top.k) % Period
             below == Top.start < cfg[Top.id].min
         IN /\ queue # <<>> /\ offer = None
            /\ queue' = SubSeq(queue, Popped + 1, Len(queue))
            /\ dedRbs' = [dedRbs EXCEPT ![pos] = IF below THEN @ + cfg[Top.id].ded ELSE @]
            /\ offer' = Offered(Top, RemRbs(dedRbs[pos]), rbs[Top.id][RingPos(now + Top.k)])
            /\ served' = IF below THEN [served EXCEPT ![Top.k][Top.id] = cfg[Top.id].ded] ELSE served
            /\ due' = due \ {<<Top.id, Top.k>>}
            /\ UNCHANGED <<dir, now, active, cfg, rbs, granted>>
  <1>1. Popped + 1 = IF Merged(queue) THEN 3 ELSE 2
    BY DEF Popped
  <1> QED
    BY <1>1, Zenon DEF PopCandidate, Top

\* The offer of a turn stays below the limit of its slice.
LEMMA OfferIs ==
  ASSUME CfgInv, NEW c \in Candidate, c.stop <= cfg[c.id].max, NEW d \in Nat, NEW n,
         Offered(c, RemRbs(d), n) # None
  PROVE  /\ Offered(c, RemRbs(d), n) \in OfferType
         /\ Offered(c, RemRbs(d), n).id = c.id /\ Offered(c, RemRbs(d), n).k = c.k
         /\ Offered(c, RemRbs(d), n).max <= c.stop
  <1> DEFINE rem == RemRbs(d)
             m == Min({c.stop, rem})
  <1>1. rem \in Nat
    BY Constants DEF RemRbs
  <1>2. c.id \in Slice /\ c.k \in Ahead /\ c.stop \in Nat
    BY CandFields
  <1> HIDE DEF rem
  <1>3. rem > 0 /\ c.stop > 0 /\ Offered(c, rem, n) = [id |-> c.id, k |-> c.k, max |-> m]
    BY DEF Offered, rem
  <1>4. m \in {c.stop, rem} /\ m <= c.stop
    BY <1>1, <1>2, MaxMinTwo
  <1> HIDE DEF m
  <1>5. cfg[c.id].max \in Nat /\ cfg[c.id].max <= CellRbs /\ CellRbs \in Nat
    BY <1>2, Constants DEF CfgInv, LimOK, Lim
  <1>6. m \in 1 .. CellRbs
    BY <1>1, <1>2, <1>3, <1>4, <1>5
  <1> QED
    BY <1>2, <1>3, <1>4, <1>6 DEF OfferType, rem

\* The candidates that a turn takes from the queue are its first ones.
LEMMA PopQueue ==
  ASSUME CfgInv, QueueInv, OrderInv, PopCandidate
  PROVE  /\ queue' \in Seq(Candidate) /\ Len(queue') = Len(queue) - Popped
         /\ \A i \in 1 .. Len(queue') : i + Popped \in 1 .. Len(queue) /\ queue'[i] = queue[i + Popped]
  <1> DEFINE m == Popped
  <1>1. queue # <<>> /\ queue' = SubSeq(queue, m + 1, Len(queue))
    BY PopIs
  <1>2. Len(queue) \in Nat /\ m \in 1 .. Len(queue)
    BY <1>1, TopIs
  <1> HIDE DEF m
  <1>3. m + 1 \in Int /\ Len(queue) \in Int /\ \A i \in m + 1 .. Len(queue) : queue[i] \in Candidate
    BY <1>2 DEF QueueInv
  <1>4. /\ queue' \in Seq(Candidate)
        /\ Len(queue') = IF m + 1 <= Len(queue) THEN Len(queue) - (m + 1) + 1 ELSE 0
        /\ \A i \in 1 .. Len(queue) - (m + 1) + 1 : queue'[i] = queue[m + 1 + i - 1]
    <2> DEFINE a == m + 1
               b == Len(queue)
    <2>1. a \in Int /\ b \in Int /\ \A i \in a .. b : queue[i] \in Candidate
      BY <1>3
    <2>2. queue' = SubSeq(queue, a, b)
      BY <1>1
    <2> HIDE DEF a, b
    <2>3. /\ queue' \in Seq(Candidate)
          /\ Len(queue') = IF a <= b THEN b - a + 1 ELSE 0
          /\ \A i \in 1 .. b - a + 1 : queue'[i] = queue[a + i - 1]
      BY <2>1, <2>2, SubSeqProperties
    <2> QED
      BY <2>3 DEF a, b
  <1>5. Len(queue') = Len(queue) - m
    BY <1>2, <1>4
  <1>6. ASSUME NEW i \in 1 .. Len(queue')
        PROVE  i + m \in 1 .. Len(queue) /\ queue'[i] = queue[i + m]
    <2>1. i \in 1 .. Len(queue) - (m + 1) + 1 /\ m + 1 + i - 1 = i + m /\ i + m \in 1 .. Len(queue)
      BY <1>2, <1>5
    <2> QED
      BY <1>4, <2>1
  <1> QED
    BY <1>4, <1>5, <1>6 DEF m

LEMMA PopStep ==
  ASSUME IInv, PopCandidate
  PROVE  IInv'
  <1> DEFINE c == Top
             pos == (now + Top.k) % Period
             lim == cfg[Top.id]
             below == Top.start < cfg[Top.id].min
             n == rbs[Top.id][RingPos(now + Top.k)]
             m == Popped
  <1>1. /\ queue # <<>> /\ offer = None
        /\ queue' = SubSeq(queue, m + 1, Len(queue))
        /\ dedRbs' = [dedRbs EXCEPT ![pos] = IF below THEN @ + lim.ded ELSE @]
        /\ offer' = Offered(c, RemRbs(dedRbs[pos]), n)
        /\ served' = IF below THEN [served EXCEPT ![c.k][c.id] = lim.ded] ELSE served
        /\ due' = due \ {<<c.id, c.k>>}
        /\ dir' = dir /\ now' = now /\ active' = active /\ cfg' = cfg /\ rbs' = rbs /\ granted' = granted
    BY PopIs
  <1>2. CfgInv /\ RestInv /\ RingInv /\ QueueInv /\ OrderInv /\ DueInv
    BY DEF IInv
  <1>3. /\ Len(queue) \in Nat /\ m \in 1 .. Len(queue)
        /\ c \in Candidate /\ c.k \in Delays(now) /\ c.stop <= cfg[c.id].max
        /\ \A i \in 1 .. m : queue[i].id = c.id /\ queue[i].k = c.k
        /\ c.stop > cfg[c.id].min => queue[m].flag = 0
    BY <1>1, <1>2, TopIs
  <1> HIDE DEF m, c, n, below
  <1>4. /\ c.id \in Slice /\ c.k \in Ahead /\ c.k \in Nat /\ c.start \in Nat /\ c.stop \in Nat
    BY <1>3, CandFields
  <1>5. lim = cfg[c.id] /\ lim.ded \in Nat /\ lim.min \in Nat /\ lim.max \in Nat
    BY <1>2, <1>4 DEF CfgInv, Lim, c
  <1> HIDE DEF lim
  <1>6. pos \in 0 .. Period - 1 /\ dedRbs \in [0 .. Period - 1 -> Nat] /\ dedRbs[pos] \in Nat
    <2>1. now \in Nat /\ Period \in Nat \ {0} /\ dedRbs \in [0 .. Period - 1 -> Nat]
      BY <1>2, Constants DEF RestInv
    <2>2. pos = (now + c.k) % Period
      BY DEF c
    <2> HIDE DEF pos
    <2>3. pos \in 0 .. Period - 1
      BY <1>4, <2>1, <2>2
    <2> QED
      BY <2>1, <2>3
  <1> HIDE DEF pos
  <1>7. Delays(now)' = Delays(now)
    BY <1>1 DEF Delays
  <1>8. CfgInv'
    BY <1>1, <1>2 DEF CfgInv
  <1>9. RingInv'
    BY <1>1, <1>2 DEF RingInv
  \* The queue.
  <1>10. /\ queue' \in Seq(Candidate) /\ Len(queue') = Len(queue) - m
         /\ \A i \in 1 .. Len(queue') : i + m \in 1 .. Len(queue) /\ queue'[i] = queue[i + m]
    BY <1>2, PopQueue DEF m
  <1>11. QueueInv'
    <2>1. ASSUME NEW i \in 1 .. Len(queue') PROVE CandOK(queue'[i], Delays(now)', cfg')
      <3>1. i + m \in 1 .. Len(queue) /\ queue'[i] = queue[i + m]
        BY <1>10
      <3>2. CandOK(queue[i + m], Delays(now), cfg)
        BY <1>2, <3>1 DEF QueueInv
      <3> QED
        BY <1>1, <1>7, <3>1, <3>2
    <2> QED
      BY <1>10, <2>1 DEF QueueInv
  <1>12. OrderInv'
    <2> SUFFICES ASSUME NEW i \in 1 .. Len(queue'), NEW j \in 1 .. Len(queue'), i < j,
                        queue'[i].k = queue'[j].k
                 PROVE  queue'[j].flag <= queue'[i].flag
      BY DEF OrderInv
    <2>1. /\ i + m \in 1 .. Len(queue) /\ queue'[i] = queue[i + m]
          /\ j + m \in 1 .. Len(queue) /\ queue'[j] = queue[j + m]
      BY <1>10
    <2>2. i + m < j + m
      BY <1>3, <1>10
    <2> QED
      BY <1>2, <2>1, <2>2 DEF OrderInv
  <1>13. DueInv'
    <2> SUFFICES ASSUME NEW x \in due'
                 PROVE  \E i \in 1 .. Len(queue') : queue'[i].id = x[1] /\ queue'[i].k = x[2] /\ queue'[i].flag = 1
      BY DEF DueInv
    <2>1. x \in due /\ x # <<c.id, c.k>> /\ due \in SUBSET (Slice \X Ahead)
      BY <1>1, <1>2 DEF RestInv
    <2>2. PICK i \in 1 .. Len(queue) : queue[i].id = x[1] /\ queue[i].k = x[2] /\ queue[i].flag = 1
      BY <1>2, <2>1 DEF DueInv
    <2>3. ~(i \in 1 .. m)
      <3>1. x = <<x[1], x[2]>>
        BY <2>1
      <3> QED
        BY <1>3, <2>1, <2>2, <3>1
    <2>4. i - m \in 1 .. Len(queue') /\ (i - m) + m = i
      BY <1>3, <1>10, <2>3
    <2>5. queue'[i - m] = queue[i]
      BY <1>10, <2>4
    <2> QED
      BY <2>2, <2>4, <2>5
  \* The offer.
  <1>14. ASSUME offer' # None
         PROVE  /\ offer' \in OfferType /\ offer'.id = c.id /\ offer'.k = c.k /\ offer'.max <= c.stop
    BY <1>1, <1>2, <1>3, <1>6, <1>14, OfferIs
  <1>15. RestInv'
    <2>1. dedRbs' \in [0 .. Period - 1 -> Nat]
      <3>1. \/ dedRbs' = [dedRbs EXCEPT ![pos] = dedRbs[pos] + lim.ded]
            \/ dedRbs' = [dedRbs EXCEPT ![pos] = dedRbs[pos]]
        BY <1>1
      <3> QED
        BY <1>5, <1>6, <3>1
    <2>2. served' \in [Ahead -> [Slice -> Nat]]
      <3>1. served \in [Ahead -> [Slice -> Nat]]
        BY <1>2 DEF RestInv
      <3>2. CASE below
        <4>1. served' = [served EXCEPT ![c.k] = [served[c.k] EXCEPT ![c.id] = lim.ded]]
          BY <1>1, <3>2
        <4>2. [served[c.k] EXCEPT ![c.id] = lim.ded] \in [Slice -> Nat]
          BY <1>4, <1>5, <3>1
        <4> QED
          BY <3>1, <4>1, <4>2
      <3> QED
        BY <1>1, <3>1, <3>2
    <2>3. offer' = None \/ offer' \in OfferType
      BY <1>14
    <2>4. due' \in SUBSET (Slice \X Ahead)
      BY <1>1, <1>2 DEF RestInv
    <2> QED
      BY <1>1, <1>2, <2>1, <2>2, <2>3, <2>4 DEF RestInv
  <1>16. OfferInv'
    <2> SUFFICES ASSUME offer' # None PROVE offer'.k \in Delays(now)' /\ offer'.max <= cfg'[offer'.id].max
      BY DEF OfferInv
    <2>1. offer' \in OfferType /\ offer'.id = c.id /\ offer'.k = c.k /\ offer'.max <= c.stop
      BY <1>14
    <2>2. offer'.max \in Nat
      BY <2>1, Constants DEF OfferType
    <2>3. offer'.max <= cfg[c.id].max
      BY <1>3, <1>4, <1>5, <2>1, <2>2
    <2> QED
      BY <1>1, <1>3, <1>7, <2>1, <2>3
  <1>17. MinimumBeforeShared'
    <2> SUFFICES ASSUME offer' # None, offer'.max > cfg'[offer'.id].min, NEW t \in Slice,
                        <<t, offer'.k>> \in due'
                 PROVE  FALSE
      BY DEF MinimumBeforeShared
    <2>1. offer' \in OfferType /\ offer'.id = c.id /\ offer'.k = c.k /\ offer'.max <= c.stop
      BY <1>14
    <2>2. offer'.max \in Nat
      BY <2>1, Constants DEF OfferType
    <2>3. c.stop > cfg[c.id].min
      BY <1>1, <1>4, <1>5, <2>1, <2>2
    <2>4. queue[m].flag = 0 /\ queue[m].k = c.k
      BY <1>3, <2>3
    <2>5. PICK i \in 1 .. Len(queue') : queue'[i].k = c.k /\ queue'[i].flag = 1
      <3>1. \A x \in due' : \E i \in 1 .. Len(queue') : queue'[i].k = x[2] /\ queue'[i].flag = 1
        BY <1>13 DEF DueInv
      <3>2. <<t, offer'.k>>[2] = c.k
        BY <2>1
      <3> QED
        BY <3>1, <3>2
    <2>6. i + m \in 1 .. Len(queue) /\ queue[i + m].k = c.k /\ queue[i + m].flag = 1 /\ m < i + m
      <3>1. i + m \in 1 .. Len(queue) /\ queue'[i] = queue[i + m]
        BY <1>10
      <3>2. i \in Nat \ {0} /\ m \in Nat
        BY <1>3, <1>10
      <3> QED
        BY <2>5, <3>1, <3>2
    <2>7. queue[i + m].flag <= queue[m].flag
      BY <1>2, <1>3, <2>4, <2>6 DEF OrderInv
    <2> QED
      BY <2>4, <2>6, <2>7
  <1> QED
    BY <1>8, <1>9, <1>11, <1>12, <1>13, <1>15, <1>16, <1>17 DEF IInv

-----------------------------------------------------------------------------
(* The intra-slice scheduler.                                              *)

\* The counter that limits a slice is what was granted.
LEMMA Counters ==
  ASSUME RestInv, RingInv, NEW s \in Slice, NEW k \in Delays(now)
  PROVE  rbs[s][RingPos(now + k)] = granted[s][k] /\ RingPos(now + k) \in 0 .. RingSize - 1
  <1>1. dir \in {"dl", "ul"} /\ now \in Nat /\ RingSize \in Nat \ {0} /\ MinK2 \in Nat /\ MaxK2 \in Nat
        /\ MaxK2 < RingSize
    BY Constants, K2Bounds DEF RestInv
  <1>2. CASE dir = "dl"
    <2>1. k = 0
      BY <1>1, <1>2, DelaysIs
    <2> QED
      BY <1>1, <1>2, <2>1 DEF RingInv, RingPos
  <1>3. CASE dir = "ul"
    <2>1. k \in Nat /\ MinK2 <= k /\ k <= MaxK2
      BY <1>1, <1>3, DelaysIs
    <2>2. k \in MinK2 .. MinK2 + RingSize - 1
      BY <1>1, <2>1
    <2>3. rbs[s][(now + k) % RingSize] = granted[s][k]
      BY <1>3, <2>1, <2>2 DEF RingInv
    <2>4. (now + k) % RingSize \in 0 .. RingSize - 1
      BY <1>1, <2>1
    <2> QED
      BY <1>3, <2>3, <2>4 DEF RingPos
  <1> QED
    BY <1>1, <1>2, <1>3

\* What the intra-slice scheduler grants: it starts below the offer, and its
\* newTxs stay within it.
LEMMA SchedValues ==
  ASSUME IInv, NEW r \in 0 .. CellRbs, NEW n \in 0 .. CellRbs, IntraSliceSched(r, n)
  PROVE  LET s == offer.id
             k == offer.k
             p == RingPos(now + offer.k)
             v == granted[offer.id][offer.k]
         IN /\ offer \in OfferType /\ s \in Slice /\ k \in Ahead /\ k \in Delays(now)
            /\ p \in 0 .. RingSize - 1 /\ v \in Nat /\ rbs[s][p] = v
            /\ r + n > 0 => v < offer.max
            /\ n > 0 => v + (r + n) <= offer.max
            /\ v + (r + n) <= CellRbs
            /\ offer.max <= cfg[s].max /\ cfg[s].max \in Nat /\ offer.max \in 1 .. CellRbs
            /\ rbs' = [rbs EXCEPT ![s] = [rbs[s] EXCEPT ![p] = v + (r + n)]]
            /\ granted' = [granted EXCEPT ![s] = [granted[s] EXCEPT ![k] = v + (r + n)]]
            /\ offer' = None /\ newtx' = n
            /\ UNCHANGED <<dir, now, active, cfg, dedRbs, queue, served, due>>
  <1> DEFINE s == offer.id
             k == offer.k
             p == RingPos(now + offer.k)
             v == granted[offer.id][offer.k]
  <1>1. CfgInv /\ RestInv /\ RingInv /\ OfferInv /\ offer # None
    BY DEF IInv, IntraSliceSched
  <1>2. offer \in OfferType /\ s \in Slice /\ k \in Ahead /\ offer.max \in 1 .. CellRbs
    BY <1>1 DEF RestInv, OfferType
  <1>3. k \in Delays(now) /\ offer.max <= cfg[s].max
    BY <1>1 DEF OfferInv
  <1>4. p \in 0 .. RingSize - 1 /\ rbs[s][p] = v /\ Used = v
    BY <1>1, <1>2, <1>3, Counters DEF Used
  <1>5. v \in Nat /\ cfg[s].max \in Nat
    BY <1>1, <1>2 DEF RestInv, CfgInv, Lim
  <1>6. /\ r + n > 0 => v < offer.max
        /\ n > 0 => v + (r + n) <= offer.max
        /\ v + (r + n) <= CellRbs
    <2>1. /\ r > 0 => Remaining(0) > 0
          /\ n <= Remaining(r)
          /\ v + r + n <= CellRbs
      BY <1>4 DEF IntraSliceSched
    <2>2. /\ Remaining(0) = IF offer.max < v + 0 THEN 0 ELSE offer.max - (v + 0)
          /\ Remaining(r) = IF offer.max < v + r THEN 0 ELSE offer.max - (v + r)
      BY <1>4 DEF Remaining
    <2>3. offer.max \in Nat /\ r \in Nat /\ n \in Nat /\ CellRbs \in Nat
      BY <1>2, Constants
    <2> HIDE DEF v
    <2> QED
      BY <1>5, <2>1, <2>2, <2>3
  <1>7. /\ rbs' = [rbs EXCEPT ![s] = [rbs[s] EXCEPT ![p] = rbs[s][p] + r + n]]
        /\ granted' = [granted EXCEPT ![s] = [granted[s] EXCEPT ![k] = v + r + n]]
        /\ offer' = None /\ newtx' = n
        /\ UNCHANGED <<dir, now, active, cfg, dedRbs, queue, served, due>>
    BY DEF IntraSliceSched
  <1>8. v + r + n = v + (r + n)
    <2>1. r \in Nat /\ n \in Nat
      BY Constants
    <2> HIDE DEF v
    <2> QED
      BY <1>5, <2>1
  <1> QED
    BY <1>2, <1>3, <1>4, <1>5, <1>6, <1>7, <1>8

LEMMA SchedStep ==
  ASSUME IInv, NEW r \in 0 .. CellRbs, NEW n \in 0 .. CellRbs, IntraSliceSched(r, n)
  PROVE  IInv'
  <1> DEFINE s == offer.id
             k == offer.k
             p == RingPos(now + offer.k)
             v == granted[offer.id][offer.k]
             m == r + n
  <1>1. /\ offer \in OfferType /\ s \in Slice /\ k \in Ahead /\ k \in Delays(now)
        /\ p \in 0 .. RingSize - 1 /\ v \in Nat /\ rbs[s][p] = v
        /\ v + m <= CellRbs
        /\ offer.max \in 1 .. CellRbs
        /\ rbs' = [rbs EXCEPT ![s] = [rbs[s] EXCEPT ![p] = v + m]]
        /\ granted' = [granted EXCEPT ![s] = [granted[s] EXCEPT ![k] = v + m]]
        /\ offer' = None
        /\ dir' = dir /\ now' = now /\ active' = active /\ cfg' = cfg /\ dedRbs' = dedRbs
        /\ queue' = queue /\ served' = served /\ due' = due
    BY SchedValues
  <1>2. CfgInv /\ RestInv /\ RingInv /\ QueueInv /\ OrderInv /\ DueInv
    BY DEF IInv
  <1>3. /\ rbs \in [Slice -> [0 .. RingSize - 1 -> 0 .. CellRbs]]
        /\ granted \in [Slice -> [Ahead -> Nat]] /\ dir \in {"dl", "ul"}
        /\ now \in Nat /\ RingSize \in Nat \ {0} /\ m \in Nat /\ CellRbs \in Nat
        /\ MinK2 \in Nat /\ MaxK2 \in Nat /\ MaxK2 < RingSize
    BY <1>2, Constants, K2Bounds DEF RestInv
  <1>4. p = RingPos(now + k) /\ k \in Nat
    BY <1>1, AheadIs
  <1> HIDE DEF s, k, p, v, m
  <1>5. v + m \in 0 .. CellRbs
    <2>1. v \in 0 .. CellRbs
      BY <1>1, <1>3
    <2> QED
      BY <1>1, <1>3, <2>1
  <1>6. RestInv'
    <2>1. rbs' \in [Slice -> [0 .. RingSize - 1 -> 0 .. CellRbs]]
      <3>1. [rbs[s] EXCEPT ![p] = v + m] \in [0 .. RingSize - 1 -> 0 .. CellRbs]
        BY <1>1, <1>3, <1>5
      <3> QED
        BY <1>1, <1>3, <3>1
    <2>2. granted' \in [Slice -> [Ahead -> Nat]]
      <3>1. v + m \in Nat
        BY <1>1, <1>3
      <3>2. [granted[s] EXCEPT ![k] = v + m] \in [Ahead -> Nat]
        BY <1>1, <1>3, <3>1
      <3> QED
        BY <1>1, <1>3, <3>2
    <2> QED
      BY <1>1, <1>2, <2>1, <2>2 DEF RestInv
  <1>7. ASSUME NEW t \in Slice, NEW q \in 0 .. RingSize - 1
        PROVE  rbs'[t][q] = IF t = s /\ q = p THEN v + m ELSE rbs[t][q]
    BY <1>1, <1>3
  <1>8. ASSUME NEW t \in Slice, NEW j \in Ahead
        PROVE  granted'[t][j] = IF t = s /\ j = k THEN v + m ELSE granted[t][j]
    BY <1>1, <1>3
  <1>9. RingInv'
    <2>1. ASSUME dir = "dl", NEW t \in Slice
          PROVE  rbs'[t][0] = granted'[t][0] /\ \A j \in Ahead \ {0} : granted'[t][j] = 0
      <3>1. p = 0 /\ k = 0 /\ 0 \in 0 .. RingSize - 1 /\ 0 \in Ahead
        BY <1>1, <1>3, <1>4, <2>1, DelaysIs, AheadIs DEF RingPos
      <3>2. rbs[t][0] = granted[t][0] /\ \A j \in Ahead \ {0} : granted[t][j] = 0
        BY <1>2, <2>1 DEF RingInv
      <3>3. rbs'[t][0] = granted'[t][0]
        BY <1>7, <1>8, <3>1, <3>2
      <3>4. ASSUME NEW j \in Ahead \ {0} PROVE granted'[t][j] = 0
        BY <1>8, <3>1, <3>2
      <3> QED
        BY <3>3, <3>4
    <2>2. ASSUME dir = "ul", NEW t \in Slice, NEW j \in MinK2 .. MinK2 + RingSize - 1
          PROVE  rbs'[t][(now + j) % RingSize] = IF j <= MaxK2 THEN granted'[t][j] ELSE 0
      <3> DEFINE q == (now + j) % RingSize
      <3>1. j \in Nat /\ q \in 0 .. RingSize - 1
        BY <1>3
      <3>2. rbs[t][q] = IF j <= MaxK2 THEN granted[t][j] ELSE 0
        BY <1>2, <2>2 DEF RingInv
      <3>3. p = (now + k) % RingSize /\ MinK2 <= k /\ k <= MaxK2
        BY <1>1, <1>3, <1>4, <2>2, DelaysIs DEF RingPos
      <3>4. j # k => q # p
        <4>1. ASSUME j < k PROVE q # p
          <5> DEFINE x == now + j
                     y == now + k
          <5>1. x \in Int /\ y \in Int /\ x < y /\ y < x + RingSize
            BY <1>3, <1>4, <3>1, <3>3, <4>1
          <5> HIDE DEF x, y
          <5>2. x % RingSize # y % RingSize
            BY <1>3, <5>1, ModDiffer
          <5> QED
            BY <3>3, <5>2 DEF x, y
        <4>2. ASSUME k < j PROVE q # p
          <5> DEFINE x == now + k
                     y == now + j
          <5>1. x \in Int /\ y \in Int /\ x < y /\ y < x + RingSize
            BY <1>3, <1>4, <3>1, <3>3, <4>2
          <5> HIDE DEF x, y
          <5>2. x % RingSize # y % RingSize
            BY <1>3, <5>1, ModDiffer
          <5> QED
            BY <3>3, <5>2 DEF x, y
        <4> QED
          BY <1>4, <3>1, <4>1, <4>2
      <3>5. j = k => q = p
        BY <3>3
      <3> HIDE DEF q
      <3>6. rbs'[t][q] = IF t = s /\ q = p THEN v + m ELSE rbs[t][q]
        BY <1>7, <3>1
      <3>7. j <= MaxK2 => granted'[t][j] = IF t = s /\ j = k THEN v + m ELSE granted[t][j]
        BY <1>8, <3>1, AheadIs
      <3>8. rbs'[t][q] = IF j <= MaxK2 THEN granted'[t][j] ELSE 0
        BY <3>2, <3>3, <3>4, <3>5, <3>6, <3>7
      <3> QED
        BY <3>8 DEF q
    <2> QED
      BY <1>1, <2>1, <2>2 DEF RingInv
  <1>10. CfgInv'
    BY <1>1, <1>2 DEF CfgInv
  <1>11. Delays(now)' = Delays(now)
    BY <1>1 DEF Delays
  <1>12. QueueInv'
    BY <1>1, <1>2, <1>11 DEF QueueInv
  <1>13. OrderInv' /\ DueInv'
    BY <1>1, <1>2 DEF OrderInv, DueInv
  <1>14. OfferInv' /\ MinimumBeforeShared'
    BY <1>1 DEF OfferInv, MinimumBeforeShared
  <1> QED
    BY <1>6, <1>9, <1>10, <1>12, <1>13, <1>14 DEF IInv

-----------------------------------------------------------------------------
(* The invariant.                                                          *)

LEMMA InitInv ==
  ASSUME Init
  PROVE  IInv
  <1>1. /\ CellRbs \in Nat /\ RingSize \in Nat \ {0} /\ Slots \in Nat \ {0} /\ MinK2 \in Nat /\ MaxK2 \in Nat
        /\ MinK2 >= 1
    BY Constants, K2Bounds
  <1>2. CfgInv
    <2>1. \A s \in Slice : cfg[s] \in Limits[s]
      BY Zenon DEF Init
    <2>2. cfg \in [Slice -> UNION Range(Limits)]
      BY Zenon DEF Init
    <2>3. \A s \in Slice : LimOK(cfg[s])
      BY <2>1, LimitsOK
    <2>4. \A s \in Slice : cfg[s] \in Lim
      BY <2>3, Zenon DEF LimOK
    <2>5. cfg \in [Slice -> Lim]
      BY <2>2, <2>4
    <2> QED
      BY <2>1, <2>3, <2>5, Zenon DEF CfgInv
  <1>3. RestInv
    <2>1. 0 \in 0 .. Slots - 1 /\ 0 \in 0 .. CellRbs /\ 0 \in Nat
      BY <1>1
    <2>2. rbs \in [Slice -> [0 .. RingSize - 1 -> 0 .. CellRbs]]
      BY <2>1 DEF Init
    <2>3. dedRbs \in [0 .. Period - 1 -> Nat] /\ granted \in [Slice -> [Ahead -> Nat]]
      BY <2>1 DEF Init
    <2>4. served \in [Ahead -> [Slice -> Nat]]
      BY <2>1 DEF Init, NoneServed
    <2>5. active = {} /\ due = {} /\ offer = None /\ now = 0 /\ dir \in {"dl", "ul"}
      BY DEF Init
    <2> QED
      BY <2>1, <2>2, <2>3, <2>4, <2>5 DEF RestInv
  <1>4. RingInv
    <2>1. \A s \in Slice : \A p \in 0 .. RingSize - 1 : rbs[s][p] = 0
      BY DEF Init
    <2>2. \A s \in Slice : \A k \in Ahead : granted[s][k] = 0
      BY DEF Init
    <2>3. now = 0 /\ 0 \in 0 .. RingSize - 1
      BY <1>1 DEF Init
    <2>4. ASSUME NEW s \in Slice PROVE rbs[s][0] = granted[s][0] /\ \A k \in Ahead \ {0} : granted[s][k] = 0
      BY <2>1, <2>2, <2>3, AheadIs
    <2>5. ASSUME NEW s \in Slice, NEW k \in MinK2 .. MinK2 + RingSize - 1
          PROVE  rbs[s][(now + k) % RingSize] = IF k <= MaxK2 THEN granted[s][k] ELSE 0
      <3>1. k \in Nat /\ (now + k) % RingSize \in 0 .. RingSize - 1
        BY <1>1, <2>3
      <3>2. k <= MaxK2 => k \in Ahead
        BY <3>1, AheadIs
      <3> QED
        BY <2>1, <2>2, <3>1, <3>2
    <2> QED
      BY <2>4, <2>5 DEF RingInv
  <1>5. queue = <<>> /\ due = {} /\ offer = None
    BY DEF Init
  <1>6. QueueInv /\ OrderInv /\ DueInv
    BY <1>5 DEF QueueInv, OrderInv, DueInv
  <1>7. OfferInv /\ MinimumBeforeShared
    BY <1>5 DEF OfferInv, MinimumBeforeShared
  <1> QED
    BY <1>2, <1>3, <1>4, <1>6, <1>7 DEF IInv

\* A step that leaves the slot, the counters and the queue alone.
LEMMA QuietStep ==
  ASSUME IInv, dir' = dir, now' = now, rbs' = rbs, dedRbs' = dedRbs, queue' = queue,
         offer' = offer, granted' = granted, served' = served, due' = due, cfg' = cfg,
         active' \in SUBSET Slice
  PROVE  IInv'
  <1>1. Delays(now)' = Delays(now)
    BY DEF Delays
  <1>2. RestInv'
    BY DEF IInv, RestInv
  <1>3. CfgInv' /\ RingInv'
    BY DEF IInv, CfgInv, RingInv
  <1>4. QueueInv'
    BY <1>1 DEF IInv, QueueInv
  <1>5. OrderInv' /\ DueInv'
    BY DEF IInv, OrderInv, DueInv
  <1>6. OfferInv'
    BY <1>1 DEF IInv, OfferInv
  <1>7. MinimumBeforeShared'
    BY DEF IInv, MinimumBeforeShared
  <1> QED
    BY <1>2, <1>3, <1>4, <1>5, <1>6, <1>7 DEF IInv

LEMMA ReconfStep ==
  ASSUME IInv, NEW s \in Slice, NEW lim \in Limits[s], ReconfSlice(s, lim)
  PROVE  IInv'
  <1>1. /\ queue = <<>> /\ offer = None /\ cfg' = [cfg EXCEPT ![s] = NoDedicated(lim)]
        /\ dir' = dir /\ now' = now /\ rbs' = rbs /\ dedRbs' = dedRbs /\ queue' = queue
        /\ offer' = offer /\ granted' = granted /\ served' = served /\ due' = due /\ active' = active
    BY DEF ReconfSlice, BetweenSlots
  <1>2. CfgInv'
    <2> DEFINE l == NoDedicated(lim)
    <2>1. LimOK(l) /\ l \in Lim
      BY LimitsOK
    <2>2. l \in Limits[s] \cup {NoDedicated(x) : x \in Limits[s]}
      OBVIOUS
    <2> HIDE DEF l
    <2>3. cfg \in [Slice -> Lim] /\ cfg' = [cfg EXCEPT ![s] = l]
      BY <1>1 DEF IInv, CfgInv, l
    <2>4. cfg' \in [Slice -> Lim]
      BY <2>1, <2>3
    <2>5. ASSUME NEW t \in Slice
          PROVE  LimOK(cfg'[t]) /\ cfg'[t] \in Limits[t] \cup {NoDedicated(x) : x \in Limits[t]}
      <3>1. CASE t = s
        <4>1. cfg'[t] = l
          BY <2>3, <3>1
        <4> QED
          BY <2>1, <2>2, <3>1, <4>1
      <3>2. CASE t # s
        <4>1. cfg'[t] = cfg[t]
          BY <2>3, <3>2
        <4>2. LimOK(cfg[t]) /\ cfg[t] \in Limits[t] \cup {NoDedicated(x) : x \in Limits[t]}
          BY DEF IInv, CfgInv
        <4> QED
          BY <4>1, <4>2
      <3> QED
        BY <3>1, <3>2
    <2>6. CfgInv' <=> /\ cfg' \in [Slice -> Lim]
                      /\ \A t \in Slice : /\ LimOK(cfg'[t])
                                          /\ cfg'[t] \in Limits[t] \cup {NoDedicated(x) : x \in Limits[t]}
      BY DEF CfgInv
    <2> QED
      BY <2>4, <2>5, <2>6
  <1>3. RestInv' /\ RingInv'
    BY <1>1 DEF IInv, RestInv, RingInv
  <1>4. QueueInv' /\ OrderInv' /\ DueInv'
    <2>1. due = {}
      BY <1>1 DEF IInv, DueInv
    <2> QED
      BY <1>1, <2>1 DEF QueueInv, OrderInv, DueInv
  <1>5. OfferInv' /\ MinimumBeforeShared'
    BY <1>1 DEF OfferInv, MinimumBeforeShared
  <1> QED
    BY <1>2, <1>3, <1>4, <1>5 DEF IInv

LEMMA NextInv ==
  ASSUME IInv, [Next]_vars
  PROVE  IInv'
  <1>1. ASSUME NEW skip \in 1 .. MaxSkip, NEW blocked \in SUBSET Delays(now + skip),
               NEW tie \in [Delays(now + skip) \X {0, 1} -> Ranks], SlotIndication(skip, blocked, tie)
        PROVE  IInv'
    BY <1>1, SlotIndicationStep
  <1>2. CASE PopCandidate
    BY <1>2, PopStep
  <1>3. ASSUME NEW r \in 0 .. CellRbs, NEW n \in 0 .. CellRbs, IntraSliceSched(r, n) PROVE IInv'
    BY <1>3, SchedStep
  <1>4. ASSUME NEW s \in Slice, AddUe(s) \/ RemUe(s) PROVE IInv'
    <2>1. /\ dir' = dir /\ now' = now /\ rbs' = rbs /\ dedRbs' = dedRbs /\ queue' = queue
          /\ offer' = offer /\ granted' = granted /\ served' = served /\ due' = due /\ cfg' = cfg
      BY <1>4 DEF AddUe, RemUe
    <2>2. active' \in SUBSET Slice
      BY <1>4 DEF AddUe, RemUe, IInv, RestInv
    <2> QED
      BY <2>1, <2>2, QuietStep
  <1>5. ASSUME NEW s \in Slice, NEW lim \in Limits[s], ReconfSlice(s, lim) PROVE IInv'
    BY <1>5, ReconfStep
  <1>6. CASE UNCHANGED vars
    <2>1. /\ dir' = dir /\ now' = now /\ rbs' = rbs /\ dedRbs' = dedRbs /\ queue' = queue
          /\ offer' = offer /\ granted' = granted /\ served' = served /\ due' = due /\ cfg' = cfg
          /\ active' = active
      BY <1>6 DEF vars
    <2>2. active' \in SUBSET Slice
      BY <2>1 DEF IInv, RestInv
    <2> QED
      BY <2>1, <2>2, QuietStep
  <1> QED
    BY <1>1, <1>2, <1>3, <1>4, <1>5, <1>6 DEF Next

(***************************************************************************)
(* The ring of counters, the sorted queue and the offer stay consistent in *)
(* every step of the inter-slice scheduler.                                *)
(***************************************************************************)
THEOREM InterSliceInvariant == Spec => []IInv
  <1>1. Init => IInv
    BY InitInv
  <1>2. IInv /\ [Next]_vars => IInv'
    BY NextInv
  <1> QED
    BY <1>1, <1>2, PTL DEF Spec

\* The RBs of the last newTxs fit into the cell.
NewtxType == newtx \in 0 .. CellRbs

LEMMA NewtxTypeAlways == Spec => []NewtxType
  <1>1. Init => NewtxType
    BY Constants DEF Init, NewtxType
  <1>2. NewtxType /\ [Next]_vars => NewtxType'
    <2> SUFFICES ASSUME NewtxType, [Next]_vars PROVE NewtxType'
      OBVIOUS
    <2>1. ASSUME NEW r \in 0 .. CellRbs, NEW n \in 0 .. CellRbs, IntraSliceSched(r, n)
          PROVE  NewtxType'
      BY <2>1 DEF IntraSliceSched, NewtxType
    <2>2. ASSUME newtx' = 0 PROVE NewtxType'
      BY <2>2, Constants DEF NewtxType
    <2>3. ASSUME NEW skip, NEW blocked, NEW tie, SlotIndication(skip, blocked, tie)
          PROVE  NewtxType'
      BY <2>2, <2>3, Zenon DEF SlotIndication
    <2>4. CASE PopCandidate
      BY <2>2, <2>4, Zenon DEF PopCandidate
    <2>5. ASSUME NEW s \in Slice, AddUe(s) \/ RemUe(s) \/ (\E lim \in Limits[s] : ReconfSlice(s, lim))
          PROVE  NewtxType'
      BY <2>2, <2>5 DEF AddUe, RemUe, ReconfSlice
    <2>6. CASE UNCHANGED vars
      BY <2>6 DEF vars, NewtxType
    <2> QED
      BY <2>1, <2>3, <2>4, <2>5, <2>6 DEF Next
  <1> QED
    BY <1>1, <1>2, PTL DEF Spec

(***************************************************************************)
(* The state is of its type, and the counter a slice is limited by is what *)
(* was granted to it in the slot, for every TDD pattern, k2 table, size of *)
(* the ring and number of skipped slots (ran_slice_instance).              *)
(***************************************************************************)
THEOREM CountersExactAlways == Spec => []CountersExact
  <1>1. IInv /\ NewtxType => CountersExact
    <2> SUFFICES ASSUME IInv, NewtxType PROVE CountersExact
      OBVIOUS
    <2>1. CfgInv /\ RestInv /\ RingInv /\ QueueInv
      BY DEF IInv
    <2>2. \A s \in Slice, k \in Delays(now) : rbs[s][RingPos(now + k)] = granted[s][k]
      BY <2>1, Counters
    <2>3. TypeOK
      BY <2>1, Zenon DEF TypeOK, CfgInv, RestInv, QueueInv, OfferType, NewtxType
    <2> QED
      BY <2>2, <2>3 DEF CountersExact
  <1> QED
    BY <1>1, InterSliceInvariant, NewtxTypeAlways, PTL

(***************************************************************************)
(* RBs beyond a slice's minimum are offered only after every active slice  *)
(* below its minimum had its turn for that slot, for every set of slices   *)
(* and whatever the tie-breaking bits of get_prio say.                     *)
(***************************************************************************)
THEOREM MinimumBeforeSharedAlways == Spec => []MinimumBeforeShared
  <1>1. IInv => MinimumBeforeShared
    BY DEF IInv
  <1> QED
    BY <1>1, InterSliceInvariant, PTL

(***************************************************************************)
(* A slice is granted RBs only below its maximum, and newTxs never exceed  *)
(* it, for every k2 table, so however many PDCCH slots allocate into a     *)
(* slot: at most one call's reTxs do (schedule_dl_retx_candidates,         *)
(* schedule_ul_retx_candidates, remaining_rbs).                            *)
(***************************************************************************)
THEOREM MaximumKeptAlways == Spec => MaximumKept
  <1> DEFINE Kept == \A s \in Slice, k \in Ahead :
                       now' = now /\ granted'[s][k] > granted[s][k] =>
                         /\ granted[s][k] < cfg[s].max
                         /\ newtx' > 0 => granted'[s][k] <= cfg[s].max
  <1>1. IInv /\ [Next]_vars => [Kept]_vars
    <2> SUFFICES ASSUME IInv, Next PROVE Kept
      OBVIOUS
    <2>1. RestInv /\ granted \in [Slice -> [Ahead -> Nat]]
      BY DEF IInv, RestInv
    <2>2. ASSUME granted' = granted PROVE Kept
      <3> SUFFICES ASSUME NEW s \in Slice, NEW k \in Ahead, granted'[s][k] > granted[s][k] PROVE FALSE
        OBVIOUS
      <3>1. granted[s][k] \in Nat
        BY <2>1
      <3> QED
        BY <2>2, <3>1
    <2>3. ASSUME NEW skip \in 1 .. MaxSkip, NEW blocked, NEW tie, SlotIndication(skip, blocked, tie)
          PROVE  Kept
      <3>1. now' = (now + skip) % Slots
        BY <2>3 DEF SlotIndication
      <3>2. /\ now \in 0 .. Slots - 1 /\ Slots \in Nat \ {0} /\ skip \in Nat \ {0} /\ skip < Slots
        BY <2>1, Constants DEF RestInv
      <3>3. now' # now
        <4> DEFINE y == now + skip
        <4>1. now \in Int /\ y \in Int /\ now < y /\ y < now + Slots
          BY <3>2
        <4> HIDE DEF y
        <4>2. now % Slots # y % Slots
          BY <3>2, <4>1, ModDiffer
        <4>3. now % Slots = now
          BY <3>2
        <4> QED
          BY <3>1, <4>2, <4>3 DEF y
      <3> QED
        BY <3>3
    <2>4. ASSUME NEW r \in 0 .. CellRbs, NEW n \in 0 .. CellRbs, IntraSliceSched(r, n) PROVE Kept
      <3> DEFINE a == offer.id
                 b == offer.k
                 v == granted[offer.id][offer.k]
      <3>1. /\ a \in Slice /\ b \in Ahead /\ v \in Nat
            /\ r + n > 0 => v < offer.max
            /\ n > 0 => v + (r + n) <= offer.max
            /\ offer.max <= cfg[a].max /\ cfg[a].max \in Nat /\ offer.max \in 1 .. CellRbs
            /\ granted' = [granted EXCEPT ![a] = [granted[a] EXCEPT ![b] = v + (r + n)]]
            /\ newtx' = n
        BY <2>4, SchedValues
      <3>2. v = granted[a][b] /\ r \in Nat /\ n \in Nat /\ CellRbs \in Nat
        BY Constants
      <3> HIDE DEF a, b, v
      <3> SUFFICES ASSUME NEW s \in Slice, NEW k \in Ahead, granted'[s][k] > granted[s][k]
                   PROVE  /\ granted[s][k] < cfg[s].max
                          /\ newtx' > 0 => granted'[s][k] <= cfg[s].max
        OBVIOUS
      <3>3. granted'[s][k] = IF s = a /\ k = b THEN v + (r + n) ELSE granted[s][k]
        BY <2>1, <3>1
      <3>4. granted[s][k] \in Nat
        BY <2>1
      <3> QED
        BY <3>1, <3>2, <3>3, <3>4
    <2>5. CASE PopCandidate
      BY <2>2, <2>5 DEF PopCandidate
    <2>6. ASSUME NEW s \in Slice, AddUe(s) \/ RemUe(s) \/ (\E lim \in Limits[s] : ReconfSlice(s, lim))
          PROVE  Kept
      <3>1. granted' = granted
        BY <2>6 DEF AddUe, RemUe, ReconfSlice
      <3> QED
        BY <2>2, <3>1
    <2> HIDE DEF Kept
    <2> QED
      BY <2>3, <2>4, <2>5, <2>6 DEF Next
  <1> QED
    BY <1>1, InterSliceInvariant, PTL DEF Spec, MaximumKept

-----------------------------------------------------------------------------
(* DedicatedHonoured.  What the counter of dedicated RBs has to be is a    *)
(* sum over the slices.                                                    *)

SumOver(f, S) == MapThenSumSet(LAMBDA t : f[t], S)

Some(s) == CHOOSE x \in s : TRUE

\* g is the function that the sum over S is computed with.
Sums(g, f, S) ==
  g = [s \in SUBSET S |-> IF s = {} THEN 0 ELSE f[Some(s)] + g[s \ {Some(s)}]]

LEMMA SumIsLast ==
  ASSUME NEW f, NEW S, NEW g, g = CHOOSE h : Sums(h, f, S)
  PROVE  SumOver(f, S) = g[S]
  BY DEF SumOver, Sums, MapThenSumSet, MapThenFoldSet, Some

\* Among sets of subsets of a finite set there is a smallest one.
LEMMA Smallest ==
  ASSUME NEW S, IsFiniteSet(S), NEW B \in SUBSET (SUBSET S), B # {}
  PROVE  \E s \in B : \A x \in s : s \ {x} \notin B
  <1> DEFINE N == {Cardinality(s) : s \in B}
  <1>1. \A s \in SUBSET S : IsFiniteSet(s) /\ Cardinality(s) \in Nat
    BY FS_Subset, FS_CardinalityType
  <1>2. N \in SUBSET Nat /\ N # {}
    BY <1>1
  <1>3. PICK n \in N : \A m \in N : n <= m
    <2> HIDE DEF N
    <2> QED
      BY <1>2, Least
  <1>4. PICK s \in B : Cardinality(s) = n
    BY <1>3
  <1>5. ASSUME NEW x \in s, s \ {x} \in B PROVE FALSE
    <2>1. Cardinality(s \ {x}) = Cardinality(s) - 1
      BY <1>1, FS_RemoveElement
    <2>2. n <= Cardinality(s \ {x})
      BY <1>3, <1>5
    <2> QED
      BY <2>1, <2>2, <1>1, <1>4
  <1> QED
    BY <1>5

LEMMA SumsExist ==
  ASSUME NEW f, NEW S, IsFiniteSet(S)
  PROVE  \E g : Sums(g, f, S)
  <1> DEFINE Sub(n) == {s \in SUBSET S : Cardinality(s) <= n}
             Eq(g, n) == g = [s \in Sub(n) |-> IF s = {} THEN 0
                                               ELSE f[Some(s)] + g[s \ {Some(s)}]]
             Bad == {n \in Nat : ~ \E g : Eq(g, n)}
  <1>1. \A s \in SUBSET S : IsFiniteSet(s) /\ Cardinality(s) \in Nat
    BY FS_Subset, FS_CardinalityType
  <1>2. \A s \in SUBSET S : s # {} =>
          /\ Some(s) \in s /\ s \ {Some(s)} \in SUBSET S
          /\ Cardinality(s \ {Some(s)}) = Cardinality(s) - 1
    BY <1>1, FS_RemoveElement DEF Some
  <1>3. Bad = {}
    <2>1. SUFFICES ASSUME Bad # {} PROVE FALSE
      OBVIOUS
    <2>2. PICK m \in Bad : \A k \in Bad : m <= k
      BY <2>1, Least
    <2>3. m \in Nat
      BY <2>2
    <2>4. CASE m = 0
      <3>1. \A s \in Sub(0) : s = {}
        BY <1>1, FS_EmptySet
      <3>2. Eq([s \in Sub(0) |-> 0], 0)
        BY <3>1
      <3> QED
        BY <3>2, <2>2, <2>4
    <2>5. CASE m # 0
      <3>1. m - 1 \in Nat /\ ~(m <= m - 1)
        BY <2>3, <2>5
      <3>2. PICK g : Eq(g, m - 1)
        BY <3>1, <2>2
      <3> DEFINE h == [s \in Sub(m) |-> IF s = {} THEN 0 ELSE f[Some(s)] + g[s \ {Some(s)}]]
      <3>3. \A s \in Sub(m - 1) : s \in Sub(m) /\ h[s] = g[s]
        <4>1. \A s \in Sub(m - 1) : s \in Sub(m)
          BY <1>1, <2>3
        <4>2. \A s \in Sub(m - 1) : g[s] = IF s = {} THEN 0 ELSE f[Some(s)] + g[s \ {Some(s)}]
          <5> HIDE DEF Sub
          <5> QED
            BY <3>2
        <4> HIDE DEF Sub
        <4> QED
          BY <4>1, <4>2
      <3>4. \A s \in Sub(m) : s # {} => s \ {Some(s)} \in Sub(m - 1)
        BY <1>1, <1>2, <2>3
      <3>5. Eq(h, m)
        <4> HIDE DEF Sub
        <4>1. \A s \in Sub(m) : s # {} => h[s \ {Some(s)}] = g[s \ {Some(s)}]
          BY <3>3, <3>4
        <4> QED
          BY <4>1
      <3> QED
        BY <3>5, <2>2
    <2> QED
      BY <2>4, <2>5
  <1>4. Cardinality(S) \in Nat /\ Sub(Cardinality(S)) = SUBSET S
    BY FS_Subset, FS_CardinalityType, <1>1
  <1>5. PICK g : Eq(g, Cardinality(S))
    BY <1>3, <1>4
  <1> QED
    BY <1>4, <1>5 DEF Sums

LEMMA SumIs ==
  ASSUME NEW f, NEW S, IsFiniteSet(S)
  PROVE  \E g : Sums(g, f, S) /\ SumOver(f, S) = g[S]
  <1>1. PICK g : g = CHOOSE h : Sums(h, f, S)
    OBVIOUS
  <1>2. Sums(g, f, S)
    BY <1>1, SumsExist
  <1> QED
    BY <1>1, <1>2, SumIsLast

\* The sum over a set is that over the rest plus the element chosen first.
LEMMA SumRest ==
  ASSUME NEW f, NEW S, IsFiniteSet(S), S # {}
  PROVE  /\ Some(S) \in S
         /\ SumOver(f, S) = f[Some(S)] + SumOver(f, S \ {Some(S)})
  <1> DEFINE T == S \ {Some(S)}
  <1>1. Some(S) \in S
    BY DEF Some
  <1>2. IsFiniteSet(T)
    BY FS_Subset
  <1>3. PICK g : Sums(g, f, S) /\ SumOver(f, S) = g[S]
    BY SumIs
  <1>4. PICK h : Sums(h, f, T) /\ SumOver(f, T) = h[T]
    BY <1>2, SumIs
  <1> DEFINE B == {s \in SUBSET T : g[s] # h[s]}
  <1>5. B = {}
    <2>1. SUFFICES ASSUME B # {} PROVE FALSE
      OBVIOUS
    <2>2. B \in SUBSET (SUBSET T)
      OBVIOUS
    <2>3. PICK s \in B : \A x \in s : s \ {x} \notin B
      <3> HIDE DEF B, T
      <3> QED
        BY <1>2, <2>1, <2>2, Smallest
    <2>4. s \in SUBSET S /\ s \in SUBSET T /\ g[s] # h[s]
      BY <2>3
    <2>5. s # {} => Some(s) \in s
      BY DEF Some
    <2>6. s # {} => s \ {Some(s)} \in SUBSET T /\ s \ {Some(s)} \notin B
      BY <2>3, <2>4, <2>5
    <2>7. s # {} => g[s \ {Some(s)}] = h[s \ {Some(s)}]
      BY <2>6
    <2>8. g[s] = IF s = {} THEN 0 ELSE f[Some(s)] + g[s \ {Some(s)}]
      BY <1>3, <2>4 DEF Sums
    <2>9. h[s] = IF s = {} THEN 0 ELSE f[Some(s)] + h[s \ {Some(s)}]
      <3> HIDE DEF T
      <3> QED
        BY <1>4, <2>4 DEF Sums
    <2> QED
      BY <2>4, <2>7, <2>8, <2>9
  <1>6. g[T] = h[T]
    BY <1>5
  <1>7. g[S] = f[Some(S)] + g[T]
    BY <1>3 DEF Sums
  <1> QED
    BY <1>1, <1>3, <1>4, <1>6, <1>7

LEMMA SumEmpty ==
  ASSUME NEW f
  PROVE  SumOver(f, {}) = 0
  <1>1. IsFiniteSet({})
    BY FS_EmptySet
  <1>2. PICK g : Sums(g, f, {}) /\ SumOver(f, {}) = g[{}]
    BY <1>1, SumIs
  <1> QED
    BY <1>2 DEF Sums

LEMMA SumNat ==
  ASSUME NEW S, IsFiniteSet(S), NEW f, \A x \in S : f[x] \in Nat
  PROVE  SumOver(f, S) \in Nat
  <1> DEFINE B == {s \in SUBSET S : SumOver(f, s) \notin Nat}
  <1>1. SUFFICES ASSUME B # {} PROVE FALSE
    BY Zenon
  <1>2. PICK s \in B : \A x \in s : s \ {x} \notin B
    <2>1. B \in SUBSET (SUBSET S)
      OBVIOUS
    <2> HIDE DEF B
    <2> QED
      BY <1>1, <2>1, Smallest
  <1>3. s \in SUBSET S /\ IsFiniteSet(s) /\ SumOver(f, s) \notin Nat
    BY <1>2, FS_Subset
  <1>4. s # {}
    BY <1>3, SumEmpty
  <1>5. Some(s) \in s /\ SumOver(f, s) = f[Some(s)] + SumOver(f, s \ {Some(s)})
    BY <1>3, <1>4, SumRest
  <1>6. SumOver(f, s \ {Some(s)}) \in Nat
    BY <1>2, <1>3, <1>5
  <1>7. f[Some(s)] \in Nat
    BY <1>3, <1>5
  <1> QED
    BY <1>3, <1>5, <1>6, <1>7

\* Functions that agree on a set have the same sum over it.
LEMMA SumSame ==
  ASSUME NEW S, IsFiniteSet(S), NEW f, NEW g, \A x \in S : f[x] = g[x]
  PROVE  SumOver(f, S) = SumOver(g, S)
  <1> DEFINE B == {s \in SUBSET S : SumOver(f, s) # SumOver(g, s)}
  <1>1. SUFFICES ASSUME B # {} PROVE FALSE
    BY Zenon
  <1>2. PICK s \in B : \A x \in s : s \ {x} \notin B
    <2>1. B \in SUBSET (SUBSET S)
      OBVIOUS
    <2> HIDE DEF B
    <2> QED
      BY <1>1, <2>1, Smallest
  <1>3. s \in SUBSET S /\ IsFiniteSet(s) /\ SumOver(f, s) # SumOver(g, s)
    BY <1>2, FS_Subset
  <1>4. s # {}
    BY <1>3, SumEmpty
  <1>5. Some(s) \in s /\ SumOver(f, s) = f[Some(s)] + SumOver(f, s \ {Some(s)})
    BY <1>3, <1>4, SumRest
  <1>6. SumOver(g, s) = g[Some(s)] + SumOver(g, s \ {Some(s)})
    BY <1>3, <1>4, SumRest
  <1>7. SumOver(f, s \ {Some(s)}) = SumOver(g, s \ {Some(s)})
    BY <1>2, <1>3, <1>5
  <1>8. f[Some(s)] = g[Some(s)]
    BY <1>3, <1>5
  <1> QED
    BY <1>3, <1>5, <1>6, <1>7, <1>8

LEMMA SumZero ==
  ASSUME NEW S, IsFiniteSet(S), NEW f, \A x \in S : f[x] = 0
  PROVE  SumOver(f, S) = 0
  <1> DEFINE B == {s \in SUBSET S : SumOver(f, s) # 0}
  <1>1. SUFFICES ASSUME B # {} PROVE FALSE
    BY Zenon
  <1>2. PICK s \in B : \A x \in s : s \ {x} \notin B
    <2>1. B \in SUBSET (SUBSET S)
      OBVIOUS
    <2> HIDE DEF B
    <2> QED
      BY <1>1, <2>1, Smallest
  <1>3. s \in SUBSET S /\ IsFiniteSet(s) /\ SumOver(f, s) # 0
    BY <1>2, FS_Subset
  <1>4. s # {}
    BY <1>3, SumEmpty
  <1>5. Some(s) \in s /\ SumOver(f, s) = f[Some(s)] + SumOver(f, s \ {Some(s)})
    BY <1>3, <1>4, SumRest
  <1>6. SumOver(f, s \ {Some(s)}) = 0
    BY <1>2, <1>3, <1>5
  <1> QED
    BY <1>3, <1>5, <1>6

\* Any element may be the first.
LEMMA SumSplit ==
  ASSUME NEW S, IsFiniteSet(S), NEW f, \A x \in S : f[x] \in Nat, NEW e \in S
  PROVE  SumOver(f, S) = f[e] + SumOver(f, S \ {e})
  <1> DEFINE Split(s, x) == SumOver(f, s) = f[x] + SumOver(f, s \ {x})
             B == {s \in SUBSET S : \E x \in s : ~Split(s, x)}
  <1>1. SUFFICES ASSUME B # {} PROVE FALSE
    BY Zenon
  <1>2. PICK s \in B : \A x \in s : s \ {x} \notin B
    <2>1. B \in SUBSET (SUBSET S)
      OBVIOUS
    <2> HIDE DEF B
    <2> QED
      BY <1>1, <2>1, Smallest
  <1>3. s \in SUBSET S /\ IsFiniteSet(s) /\ \A x \in s : f[x] \in Nat
    BY <1>2, FS_Subset
  <1>4. PICK x \in s : ~Split(s, x)
    BY <1>2
  <1> DEFINE y == Some(s)
  <1>5. y \in s /\ Split(s, y)
    BY <1>3, <1>4, SumRest
  <1>6. x # y
    BY <1>4, <1>5
  <1>7. \A z \in s : s \ {z} \in SUBSET S /\ IsFiniteSet(s \ {z})
    BY <1>3, FS_Subset
  <1>8. \A z \in s : \A w \in s \ {z} : Split(s \ {z}, w)
    <2> HIDE DEF Split
    <2> QED
      BY <1>2, <1>7
  <1> HIDE DEF y
  <1>9. Split(s \ {y}, x) /\ Split(s \ {x}, y)
    BY <1>4, <1>5, <1>6, <1>8
  <1>10. (s \ {y}) \ {x} = (s \ {x}) \ {y}
    OBVIOUS
  <1>11. SumOver(f, (s \ {x}) \ {y}) \in Nat
    <2>1. IsFiniteSet((s \ {x}) \ {y})
      BY <1>3, FS_Subset
    <2> QED
      BY <1>3, <2>1, SumNat
  <1>12. f[x] \in Nat /\ f[y] \in Nat
    BY <1>3, <1>4, <1>5
  <1> QED
    BY <1>4, <1>5, <1>9, <1>10, <1>11, <1>12

-----------------------------------------------------------------------------
(* The counter of dedicated RBs of a slot.                                 *)

\* No PUSCH slot is the target of two PDCCH slots.
SingleTarget ==
  \A p, q \in DlSlots : \A k \in K2[p], l \in K2[q] :
    (p + k) % Period = (q + l) % Period => p = q /\ k = l

\* The dedicated RBs that a slice can have at some time.
DedOf(s) == {0} \cup {l.ded : l \in Limits[s]}

\* The dedicated RBs of all slices fit into the cell.
DedicatedFit ==
  /\ CellRbs < 65536
  /\ \A f \in [Slice -> 0 .. CellRbs] :
       (\A s \in Slice : f[s] \in DedOf(s)) => SumOver(f, Slice) <= CellRbs

\* The slots ahead that the PDCCH of slot p of the period can schedule.
Reached(p) == IF dir = "dl" THEN {0} ELSE K2[p]

\* RBs dedicated in slot now + l were dedicated by a PDCCH slot that targets it.
SourceInv ==
  \A l \in Ahead : served[l] # NoneServed =>
    \E p \in DlSlots : \E m \in Reached(p) : l <= m /\ (p + m) % Period = (now + l) % Period

\* A counter that is not zero was counted d slots ago for a slot at its place,
\* and that place has not been passed since.
DedRingInv ==
  \A x \in 0 .. Period - 1 : dedRbs[x] # 0 =>
    \E p \in DlSlots : \E m \in Reached(p) : \E d \in 0 .. m % Period :
      x = (p + m) % Period /\ (p + d) % Period = now % Period

\* The counter of a slot that is scheduled now is exact.
SumInv ==
  \A k \in Delays(now) : dedRbs[(now + k) % Period] = SumOver(served[k], Slice)

ServedInv == \A k \in Ahead : \A s \in Slice : served[k][s] \in DedOf(s)

BelowMin(c) == c.start < cfg[c.id].min

\* Each slice is counted once: what is below its minimum is one candidate, and
\* was not counted yet.
OnceInv ==
  /\ \A i \in 1 .. Len(queue) : BelowMin(queue[i]) => served[queue[i].k][queue[i].id] = 0
  /\ \A i, j \in 1 .. Len(queue) :
       queue[i].id = queue[j].id /\ queue[i].k = queue[j].k
       /\ BelowMin(queue[i]) /\ BelowMin(queue[j]) => i = j

DedInv ==
  /\ SourceInv /\ DedRingInv /\ SumInv /\ ServedInv /\ OnceInv /\ DedicatedHonoured

LEMMA PeriodMod ==
  ASSUME NEW n \in Nat, NEW k \in Nat
  PROVE  /\ n % Period \in 0 .. Period - 1
         /\ ((n % Period) + k) % Period = (n + k) % Period
  <1>1. Period \in Nat \ {0}
    BY Constants
  <1>2. Period % Period = 0
    <2>1. (Period * 1 + 0) % Period = 0
      BY <1>1, ModUnique
    <2>2. Period * 1 + 0 = Period
      BY <1>1
    <2> QED
      BY <2>1, <2>2
  <1>3. n % Period \in 0 .. Period - 1
    BY <1>1
  <1>4. \A S, P \in Nat \ {0} : S % P = 0 =>
          \A i, j \in Nat : ((i % S) + j) % P = (i + j) % P
    BY ModOfMod
  <1>5. \A i, j \in Nat : ((i % Period) + j) % Period = (i + j) % Period
    BY <1>1, <1>2, <1>4, Zenon
  <1> QED
    BY <1>3, <1>5, Zenon

LEMMA PlaceOf ==
  ASSUME NEW p \in 0 .. Period - 1
  PROVE  p % Period = p
  <1>1. Period \in Nat \ {0} /\ p \in Nat
    BY Constants
  <1>2. (Period * 0 + p) % Period = p
    BY <1>1, ModUnique
  <1> QED
    BY <1>1, <1>2

LEMMA ReachedIs ==
  ASSUME dir \in {"dl", "ul"}, NEW p \in DlSlots
  PROVE  p \in 0 .. Period - 1 /\ p \in Nat /\ Reached(p) \in SUBSET Ahead /\ Reached(p) \in SUBSET Nat
  <1>1. p \in 0 .. Period - 1
    BY SliceAssumption
  <1>2. Reached(p) \in SUBSET Ahead
    BY <1>1, K2Bounds, AheadIs DEF Reached
  <1>3. \A m \in Reached(p) : m \in Nat
    BY <1>2, AheadIs, Zenon
  <1>4. p \in Nat
    BY <1>1
  <1> QED
    BY <1>1, <1>2, <1>3, <1>4

LEMMA DelaysReach ==
  ASSUME dir \in {"dl", "ul"}, NEW n \in Nat, NEW k \in Delays(n)
  PROVE  n % Period \in DlSlots /\ k \in Reached(n % Period) /\ k \in Nat /\ k \in Ahead
         /\ ((n % Period) + k) % Period = (n + k) % Period
  <1>1. n % Period \in DlSlots /\ k \in Reached(n % Period)
    BY DEF Delays, Reached
  <1>2. k \in Nat /\ k \in Ahead
    BY DelaysIs
  <1> QED
    BY <1>1, <1>2, PeriodMod

\* The slot k ahead is the target of this slot only.
LEMMA OneSource ==
  ASSUME SingleTarget, dir \in {"dl", "ul"}, NEW n \in Nat, NEW k \in Delays(n),
         NEW p \in DlSlots, NEW m \in Reached(p), (p + m) % Period = (n + k) % Period
  PROVE  p = n % Period /\ m = k
  <1> DEFINE q == n % Period
  <1>1. q \in DlSlots /\ k \in Reached(q) /\ (q + k) % Period = (n + k) % Period
    BY DelaysReach
  <1>2. q \in 0 .. Period - 1 /\ p \in 0 .. Period - 1
    BY <1>1, ReachedIs
  <1> HIDE DEF q
  <1>3. CASE dir = "dl"
    <2>1. m = 0 /\ k = 0
      BY <1>1, <1>3 DEF Reached
    <2>2. p + m = p /\ q + k = q
      BY <1>2, <2>1
    <2>3. p % Period = p /\ q % Period = q
      BY <1>2, PlaceOf
    <2> QED
      BY <1>1, <2>1, <2>2, <2>3 DEF q
  <1>4. CASE dir = "ul"
    <2>1. m \in K2[p] /\ k \in K2[q]
      BY <1>1, <1>4 DEF Reached
    <2> QED
      BY <1>1, <2>1 DEF SingleTarget, q
  <1> QED
    BY <1>3, <1>4

\* slot_indication: the counters of the slots that are scheduled next are zero.
LEMMA DedRingStep ==
  ASSUME IInv, SingleTarget, DedRingInv, NEW skip \in 1 .. MaxSkip, NEW blocked, NEW tie,
         SlotIndication(skip, blocked, tie)
  PROVE  /\ DedRingInv'
         /\ \A k \in Delays(now)' : dedRbs'[(now' + k) % Period] = 0
  <1>1. /\ now' = SlotOf(skip) /\ dir' = dir
        /\ dedRbs' = [p \in DOMAIN dedRbs |->
             IF p \in {(now + i - 1) % Period : i \in 1 .. skip} THEN 0 ELSE dedRbs[p]]
    BY SlotIndicationIs
  <1>2. /\ dir \in {"dl", "ul"} /\ now \in Nat /\ skip \in Nat /\ skip >= 1
        /\ dedRbs \in [0 .. Period - 1 -> Nat] /\ Period \in Nat \ {0} /\ now + skip \in Nat
        /\ Slots \in Nat \ {0}
    BY Constants DEF IInv, RestInv
  <1>3. now' \in Nat /\ \A k \in Nat : (now' + k) % Period = (now + skip + k) % Period
    <2>1. now' \in Nat
      BY <1>1, <1>2 DEF SlotOf
    <2>2. \A n, k \in Nat : ((n % Slots) + k) % Period = (n + k) % Period
      BY SlotsWrap, Zenon
    <2> QED
      BY <1>1, <1>2, <2>1, <2>2, Zenon DEF SlotOf
  <1>4. now' % Period = (now + skip) % Period
    <2>1. (now' + 0) % Period = (now + skip + 0) % Period
      BY <1>3
    <2> QED
      BY <1>2, <1>3, <2>1
  \* What is left was counted before, and its place is still ahead.
  <1>5. ASSUME NEW x \in 0 .. Period - 1, dedRbs'[x] # 0
        PROVE  \E p \in DlSlots : \E m \in Reached(p) : \E d \in 1 .. m % Period :
                 x = (p + m) % Period /\ (p + d) % Period = now' % Period
    <2>1. dedRbs[x] # 0 /\ x \notin {(now + i - 1) % Period : i \in 1 .. skip}
      BY <1>1, <1>2, <1>5
    <2>2. PICK p, m, d :
            /\ p \in DlSlots /\ m \in Reached(p) /\ d \in 0 .. m % Period
            /\ x = (p + m) % Period /\ (p + d) % Period = now % Period
      BY <2>1 DEF DedRingInv
    <2>3. p \in Nat /\ m \in Nat
      BY <1>2, <2>2, ReachedIs
    <2> DEFINE e == m % Period
    <2>4. e \in Nat /\ d \in Nat /\ d <= e
      BY <1>2, <2>2, <2>3
    <2>5. (p + e) % Period = x
      <3>1. ((m % Period) + p) % Period = (m + p) % Period
        BY <2>3, PeriodMod
      <3>2. (m % Period) + p = p + e /\ m + p = p + m
        BY <2>3, <2>4
      <3> QED
        BY <2>2, <3>1, <3>2
    <2> HIDE DEF e
    <2>6. \A j \in Nat : (p + d + j) % Period = (now + j) % Period
      <3>1. p + d \in Nat
        BY <2>3, <2>4
      <3>2. \A j \in Nat : (((p + d) % Period) + j) % Period = (p + d + j) % Period
        BY <3>1, PeriodMod
      <3>3. \A j \in Nat : ((now % Period) + j) % Period = (now + j) % Period
        BY <1>2, PeriodMod
      <3> QED
        BY <2>2, <3>2, <3>3
    <2>7. d + skip <= e
      <3>1. SUFFICES ASSUME ~(d + skip <= e) PROVE FALSE
        OBVIOUS
      <3> DEFINE j == e - d
      <3>2. j \in Nat /\ p + d + j = p + e /\ j + 1 \in 1 .. skip /\ now + j = now + (j + 1) - 1
        BY <1>2, <2>3, <2>4, <3>1
      <3>3. x = (now + j) % Period
        BY <2>5, <2>6, <3>2
      <3> HIDE DEF j
      <3>4. x = (now + (j + 1) - 1) % Period
        BY <3>2, <3>3
      <3> QED
        BY <2>1, <3>2, <3>4
    <2>8. d + skip \in 1 .. m % Period
      BY <1>2, <2>4, <2>7 DEF e
    <2>9. (p + (d + skip)) % Period = now' % Period
      <3>1. p + d + skip = p + (d + skip)
        BY <1>2, <2>3, <2>4
      <3> QED
        BY <1>2, <1>4, <2>6, <3>1
    <2> QED
      BY <2>2, <2>8, <2>9
  <1>6. DedRingInv'
    <2>1. \A p : Reached(p)' = Reached(p)
      BY <1>1 DEF Reached
    <2>2. ASSUME NEW x \in 0 .. Period - 1, dedRbs'[x] # 0
          PROVE  \E p \in DlSlots : \E m \in Reached(p)' : \E d \in 0 .. m % Period :
                   x = (p + m) % Period /\ (p + d) % Period = now' % Period
      <3>1. PICK p, m, d :
              /\ p \in DlSlots /\ m \in Reached(p) /\ d \in 1 .. m % Period
              /\ x = (p + m) % Period /\ (p + d) % Period = now' % Period
        BY <1>5, <2>2
      <3>2. m \in Nat /\ m % Period \in Nat
        BY <1>2, <3>1, ReachedIs
      <3>3. d \in 0 .. m % Period
        BY <3>1, <3>2
      <3> QED
        BY <2>1, <3>1, <3>3
    <2> QED
      BY <2>2 DEF DedRingInv
  <1>7. ASSUME NEW k \in Delays(now)', dedRbs'[(now' + k) % Period] # 0
        PROVE  FALSE
    <2>1. k \in Delays(now') /\ k \in Nat
      <3>1. k \in Delays(now')
        BY <1>1 DEF Delays
      <3> QED
        BY <1>2, <1>3, <3>1, DelaysReach
    <2> DEFINE x == (now' + k) % Period
    <2>2. x \in 0 .. Period - 1
      <3>1. now' \in Nat /\ k \in Nat
        BY <1>3, <2>1, Zenon
      <3>2. \A i, j \in Nat : i + j \in Nat /\ 0 \in Nat
        OBVIOUS
      <3>3. now' + k \in Nat /\ 0 \in Nat
        BY <3>1, <3>2, Zenon
      <3>4. \A n \in Nat : n % Period \in 0 .. Period - 1
        BY Constants
      <3> QED
        BY <3>3, <3>4, Zenon
    <2>3. PICK p, m, d :
            /\ p \in DlSlots /\ m \in Reached(p) /\ d \in 1 .. m % Period
            /\ x = (p + m) % Period /\ (p + d) % Period = now' % Period
      <3> HIDE DEF x
      <3>1. dedRbs'[x] # 0
        BY <1>7 DEF x
      <3> QED
        BY <1>5, <2>2, <3>1
    <2>4. p = now' % Period
      BY <1>2, <1>3, <2>1, <2>3, OneSource
    <2>5. p \in 0 .. Period - 1 /\ p % Period = p /\ m \in Nat
      BY <1>2, <2>3, ReachedIs, PlaceOf
    <2>6. d \in Nat /\ 1 <= d /\ d < Period
      <3>1. m % Period \in 0 .. Period - 1
        BY <1>2, <2>5
      <3> QED
        BY <1>2, <2>3, <3>1
    <2>7. p % Period # (p + d) % Period
      <3>1. p \in Int /\ p + d \in Int /\ p < p + d /\ p + d < p + Period
        BY <1>2, <2>5, <2>6
      <3> QED
        BY <1>2, <3>1, ModDiffer
    <2> QED
      BY <2>3, <2>4, <2>5, <2>7
  <1> QED
    BY <1>6, <1>7

LEMMA SourceStep ==
  ASSUME IInv, SingleTarget, SourceInv, NEW skip \in 1 .. MaxSkip, NEW blocked, NEW tie,
         SlotIndication(skip, blocked, tie)
  PROVE  /\ SourceInv'
         /\ \A k \in Delays(now)' : k \in Ahead /\ served'[k] = NoneServed
  <1>1. /\ now' = SlotOf(skip) /\ dir' = dir /\ served' = Shifted(skip, served, NoneServed)
    BY SlotIndicationIs
  <1>2. /\ dir \in {"dl", "ul"} /\ now \in Nat /\ skip \in Nat /\ skip >= 1
        /\ Period \in Nat \ {0} /\ now + skip \in Nat /\ Slots \in Nat \ {0}
    BY Constants DEF IInv, RestInv
  <1>3. now' \in Nat /\ \A k \in Nat : (now' + k) % Period = (now + skip + k) % Period
    <2>1. now' \in Nat
      BY <1>1, <1>2 DEF SlotOf
    <2>2. \A n, k \in Nat : ((n % Slots) + k) % Period = (n + k) % Period
      BY SlotsWrap, Zenon
    <2> QED
      BY <1>1, <1>2, <2>1, <2>2, Zenon DEF SlotOf
  <1>4. ASSUME NEW l \in Ahead, served'[l] # NoneServed
        PROVE  \E p \in DlSlots : \E m \in Reached(p) :
                 l < m /\ (p + m) % Period = (now' + l) % Period
    <2>1. l \in Nat
      BY AheadIs
    <2>2. l + skip \in Ahead /\ served[l + skip] # NoneServed
      BY <1>1, <1>4 DEF Shifted
    <2>3. PICK p, m :
            /\ p \in DlSlots /\ m \in Reached(p)
            /\ l + skip <= m /\ (p + m) % Period = (now + (l + skip)) % Period
      BY <2>2 DEF SourceInv
    <2>4. m \in Nat
      BY <1>2, <2>3, ReachedIs
    <2>5. now + (l + skip) = now + skip + l /\ l < m
      BY <1>2, <2>1, <2>3, <2>4
    <2> QED
      BY <1>3, <2>1, <2>3, <2>5
  <1>5. SourceInv'
    <2>1. \A p : Reached(p)' = Reached(p)
      BY <1>1 DEF Reached
    <2>2. ASSUME NEW l \in Ahead, served'[l] # NoneServed
          PROVE  \E p \in DlSlots : \E m \in Reached(p)' :
                   l <= m /\ (p + m) % Period = (now' + l) % Period
      <3>1. PICK p, m :
              /\ p \in DlSlots /\ m \in Reached(p)
              /\ l < m /\ (p + m) % Period = (now' + l) % Period
        BY <1>4, <2>2
      <3>2. m \in Nat /\ l \in Nat
        BY <1>2, <3>1, ReachedIs, AheadIs
      <3>3. l <= m
        BY <3>1, <3>2
      <3> QED
        BY <2>1, <3>1, <3>3
    <2> QED
      BY <2>2 DEF SourceInv
  <1>6. ASSUME NEW k \in Delays(now)'
        PROVE  k \in Ahead /\ served'[k] = NoneServed
    <2>1. k \in Delays(now')
      BY <1>1 DEF Delays
    <2>2. k \in Nat /\ k \in Ahead
      BY <1>2, <1>3, <2>1, DelaysReach
    <2>3. ASSUME served'[k] # NoneServed PROVE FALSE
      <3>1. PICK p, m :
              /\ p \in DlSlots /\ m \in Reached(p)
              /\ k < m /\ (p + m) % Period = (now' + k) % Period
        BY <1>4, <2>2, <2>3
      <3>2. m = k
        BY <1>2, <1>3, <2>1, <3>1, OneSource
      <3> QED
        BY <2>2, <3>1, <3>2
    <2> QED
      BY <2>2, <2>3
  <1> QED
    BY <1>5, <1>6

\* A candidate that starts below the minimum has the flag of one.
LEMMA StartFlag ==
  ASSUME CfgInv, RestInv, NEW skip \in 1 .. MaxSkip, NEW delays \in SUBSET Ahead,
         NEW c \in Cands(skip, delays), BelowMin(c)
  PROVE  c.flag = 1
  <1>1. PICK x \in Below(skip, delays) : c \in SliceCandidates(x[1], x[2], Count(skip, x[1], x[2]))
    BY DEF Cands
  <1> DEFINE s == x[1]
             k == x[2]
             n == Count(skip, s, k)
             lim == cfg[s]
             cand(a, b) == [id |-> s, start |-> a, stop |-> b, k |-> k, flag |-> MinRbFlag(s, b)]
  <1>2. s \in active /\ k \in delays /\ n < lim.max
    BY DEF Below
  <1>3. s \in Slice /\ k \in Nat
    BY <1>2, AheadIs DEF RestInv
  <1>4. n \in Nat
    BY <1>3, CountIs
  <1>5. LimOK(lim)
    BY <1>3 DEF CfgInv
  <1>6. lim.min \in Nat /\ lim.max \in Nat /\ lim.min <= lim.max
    BY <1>5 DEF LimOK, Lim
  <1>7. c \in SliceCandidates(s, k, n)
    BY <1>1
  <1> HIDE DEF s, k, n
  <1>8. CASE n < lim.min /\ lim.max > lim.min
    <2>1. c = cand(n, lim.min) \/ c = cand(lim.min, lim.max)
      BY <1>7, <1>8 DEF SliceCandidates
    <2>2. c # cand(lim.min, lim.max)
      BY <1>6 DEF BelowMin
    <2>3. c.flag = MinRbFlag(s, lim.min)
      BY <2>1, <2>2
    <2> QED
      BY <1>4, <1>6, <1>8, <2>3 DEF MinRbFlag
  <1>9. CASE ~(n < lim.min /\ lim.max > lim.min)
    <2>1. c = cand(n, lim.max)
      BY <1>7, <1>9 DEF SliceCandidates
    <2>2. n < lim.min /\ c.flag = MinRbFlag(s, lim.max)
      BY <2>1 DEF BelowMin
    <2> QED
      BY <1>4, <1>6, <1>9, <2>2 DEF MinRbFlag
  <1> QED
    BY <1>8, <1>9

\* The new queue has one candidate below the minimum per slice and slot.
LEMMA OnceInQueue ==
  ASSUME IInv, NEW skip \in 1 .. MaxSkip, NEW blocked,
         NEW tie \in [Delays(now + skip) \X {0, 1} -> Ranks], SlotIndication(skip, blocked, tie)
  PROVE  \A i, j \in 1 .. Len(queue') :
           queue'[i].id = queue'[j].id /\ queue'[i].k = queue'[j].k
           /\ BelowMin(queue[i])' /\ BelowMin(queue[j])' => i = j
  <1> DEFINE slot == SlotOf(skip)
             delays == Delays(slot) \ blocked
             C == Cands(skip, delays)
             D == Delays(now + skip)
  <1>1. now' = slot /\ queue' = Sorted(C, tie) /\ cfg' = cfg
    BY SlotIndicationIs
  <1>2. CfgInv /\ RestInv
    BY DEF IInv
  <1>3. dir \in {"dl", "ul"} /\ now + skip \in Nat
    BY <1>2, Constants DEF RestInv
  <1>4. D \in SUBSET Ahead /\ D \in SUBSET Nat /\ Delays(slot) = D
    BY <1>3, DelaysIs DEF SlotOf
  <1>5. delays \in SUBSET Ahead /\ delays \in SUBSET D
    BY <1>4
  <1>6. TieOK(tie, D)
    BY <1>4 DEF TieOK
  <1> HIDE DEF delays, D
  <1>7. CandsOK(C, delays) /\ \A c \in C : BelowMin(c) => c.flag = 1
    BY <1>2, <1>5, CandsAre, StartFlag
  <1> HIDE DEF C
  <1>8. CandsOK(C, D)
    <2>1. \A k \in delays : k \in D
      BY <1>5
    <2> QED
      BY <1>7, <2>1 DEF CandsOK
  <1>9. /\ queue' \in Seq(C)
        /\ \A i, j \in 1 .. Len(queue') : i < j => Before(tie, queue'[i], queue'[j])
    <2> DEFINE q == Sorted(C, tie)
    <2>1. q \in Seq(C) /\ \A i, j \in 1 .. Len(q) : i < j => Before(tie, q[i], q[j])
      BY <1>6, <1>8, SortedLists
    <2>2. queue' = q
      BY <1>1
    <2> HIDE DEF q
    <2> QED
      BY <2>1, <2>2
  <1>10. \A i \in 1 .. Len(queue') : queue'[i] \in C /\ (BelowMin(queue[i])' => queue'[i].flag = 1)
    BY <1>1, <1>7, <1>9 DEF BelowMin
  <1> SUFFICES ASSUME NEW i \in 1 .. Len(queue'), NEW j \in 1 .. Len(queue'),
                      queue'[i].id = queue'[j].id, queue'[i].k = queue'[j].k,
                      BelowMin(queue[i])', BelowMin(queue[j])', i # j
               PROVE  FALSE
    OBVIOUS
  <1>11. queue'[i] = queue'[j] /\ queue'[i] \in C
    BY <1>8, <1>10 DEF CandsOK
  <1>12. Before(tie, queue'[i], queue'[i])
    <2>1. i \in Int /\ j \in Int
      BY <1>9
    <2>2. i < j \/ j < i
      BY <2>1
    <2> QED
      BY <1>9, <1>11, <2>2
  <1> QED
    BY <1>6, <1>8, <1>11, <1>12, BeforeOrder

LEMMA SlotDedStep ==
  ASSUME IInv, SingleTarget, DedInv, NEW skip \in 1 .. MaxSkip, NEW blocked,
         NEW tie \in [Delays(now + skip) \X {0, 1} -> Ranks], SlotIndication(skip, blocked, tie)
  PROVE  DedInv'
  <1>1. IInv'
    BY SlotIndicationStep
  <1>2. SourceInv' /\ \A k \in Delays(now)' : k \in Ahead /\ served'[k] = NoneServed
    BY SourceStep DEF DedInv
  <1>3. DedRingInv' /\ \A k \in Delays(now)' : dedRbs'[(now' + k) % Period] = 0
    BY DedRingStep DEF DedInv
  <1>4. served' = Shifted(skip, served, NoneServed) /\ offer' = None
    BY SlotIndicationIs
  <1>5. SumInv'
    <2>1. SumOver(NoneServed, Slice) = 0
      BY SumZero, Constants DEF NoneServed
    <2> QED
      BY <1>2, <1>3, <2>1 DEF SumInv
  <1>6. ServedInv'
    <2>1. \A s \in Slice : NoneServed[s] \in DedOf(s)
      BY DEF NoneServed, DedOf
    <2>2. \A k \in Ahead : \A s \in Slice : served[k][s] \in DedOf(s)
      BY DEF DedInv, ServedInv
    <2>3. \A k \in Ahead : served'[k] = IF k + skip \in Ahead THEN served[k + skip] ELSE NoneServed
      BY <1>4 DEF Shifted
    <2>4. \A k \in Ahead : \A s \in Slice : served'[k][s] \in DedOf(s)
      BY <2>1, <2>2, <2>3
    <2> QED
      BY <2>4 DEF ServedInv
  <1>7. OnceInv'
    <2>1. ASSUME NEW i \in 1 .. Len(queue') PROVE served'[queue'[i].k][queue'[i].id] = 0
      <3>1. CandOK(queue[i], Delays(now), cfg)'
        BY <1>1 DEF IInv, QueueInv
      <3>2. queue'[i].k \in Delays(now)' /\ queue'[i] \in Candidate
        BY <3>1 DEF CandOK
      <3>3. queue'[i].id \in Slice
        BY <3>2, CandFields
      <3> QED
        BY <1>2, <3>2, <3>3 DEF NoneServed
    <2> QED
      BY <2>1, OnceInQueue DEF OnceInv
  <1>8. DedicatedHonoured'
    BY <1>4 DEF DedicatedHonoured
  <1> QED
    BY <1>2, <1>3, <1>5, <1>6, <1>7, <1>8 DEF DedInv

\* A turn for a slice below its minimum takes the candidate that says so.
LEMMA TopStart ==
  ASSUME CfgInv, QueueInv, OrderInv, queue # <<>>, BelowMin(Top)
  PROVE  \E i \in 1 .. Popped : BelowMin(queue[i])
  <1>1. /\ Len(queue) \in Nat /\ Popped \in 1 .. Len(queue) /\ Top.id = queue[1].id
        /\ \A i \in 1 .. Popped : queue[i].id = Top.id
    BY TopIs
  <1>2. CASE ~Merged(queue)
    <2>1. Top = queue[1] /\ 1 \in 1 .. Popped
      BY <1>2 DEF Top, Popped
    <2> QED
      BY <2>1
  <1>3. CASE Merged(queue)
    <2> DEFINE a == queue[1]
               b == queue[2]
               x == Min({a.start, b.start})
               y == Max({a.stop, b.stop})
    <2>1. a \in Candidate /\ b \in Candidate
      BY <1>1, <1>3 DEF QueueInv, Merged
    <2>2. a.start \in Nat /\ b.start \in Nat
      BY <2>1, CandFields
    <2>3. x \in {a.start, b.start}
      BY <2>2, MaxMinTwo
    <2>4. Top = [a EXCEPT !.start = x, !.stop = y] /\ Popped = 2
      BY <1>3 DEF Top, Popped
    <2> HIDE DEF x, y
    <2>5. Top.start = x
      BY <2>1, <2>4 DEF Candidate
    <2>6. a.id = Top.id /\ b.id = Top.id /\ 1 \in 1 .. Popped /\ 2 \in 1 .. Popped
      <3>1. 1 \in 1 .. Popped /\ 2 \in 1 .. Popped
        BY <2>4
      <3> QED
        BY <1>1, <3>1
    <2> QED
      BY <2>3, <2>5, <2>6 DEF BelowMin
  <1> QED
    BY <1>2, <1>3

\* The dedicated RBs counted for a slot fit into the cell.
LEMMA ServedFit ==
  ASSUME CfgInv, RestInv, ServedInv, DedicatedFit, NEW k \in Ahead
  PROVE  SumOver(served[k], Slice) \in 0 .. CellRbs
  <1>1. served[k] \in [Slice -> Nat] /\ CellRbs \in Nat /\ IsFiniteSet(Slice)
    BY Constants DEF RestInv
  <1>2. \A s \in Slice : served[k][s] \in DedOf(s)
    BY DEF ServedInv
  <1>3. \A s \in Slice : \A d \in DedOf(s) : d \in 0 .. CellRbs
    <2> SUFFICES ASSUME NEW s \in Slice, NEW l \in Limits[s] PROVE l.ded \in 0 .. CellRbs
      BY <1>1 DEF DedOf
    <2>1. l \in Lim /\ l.ded <= l.min /\ l.min <= l.max /\ l.max <= CellRbs
      BY LimitsOK DEF LimOK
    <2> QED
      BY <1>1, <2>1 DEF Lim
  <1>4. served[k] \in [Slice -> 0 .. CellRbs]
    BY <1>1, <1>2, <1>3
  <1>5. SumOver(served[k], Slice) \in Nat
    BY <1>1, SumNat
  <1>6. SumOver(served[k], Slice) <= CellRbs
    BY <1>2, <1>4 DEF DedicatedFit
  <1> QED
    BY <1>1, <1>5, <1>6

\* rem_rbs, as long as no more RBs are dedicated than the cell has.
LEMMA RemIs ==
  ASSUME DedicatedFit, NEW d \in Nat, d <= CellRbs
  PROVE  RemRbs(d) = CellRbs - d
  <1>1. CellRbs \in Nat /\ CellRbs < 65536
    BY Constants DEF DedicatedFit
  <1>2. ASSUME NEW x \in Nat, x < 65536, d <= x PROVE (x - d) % 65536 = x - d
    BY <1>2, SMT
  <1> QED
    BY <1>1, <1>2, SMT DEF RemRbs

LEMMA PopDedStep ==
  ASSUME IInv, SingleTarget, DedicatedFit, DedInv, PopCandidate
  PROVE  DedInv'
  <1> DEFINE c == Top
             s == Top.id
             k == Top.k
             m == Popped
             pos == (now + Top.k) % Period
             ded == cfg[Top.id].ded
             below == Top.start < cfg[Top.id].min
             n == rbs[Top.id][RingPos(now + Top.k)]
             sum == SumOver(served[k], Slice)
             rest == SumOver(served[k], Slice \ {s})
  <1>1. /\ queue # <<>> /\ offer = None
        /\ dedRbs' = [dedRbs EXCEPT ![pos] = IF below THEN @ + ded ELSE @]
        /\ offer' = Offered(c, RemRbs(dedRbs[pos]), n)
        /\ served' = IF below THEN [served EXCEPT ![k][s] = ded] ELSE served
        /\ dir' = dir /\ now' = now /\ cfg' = cfg
    BY PopIs
  <1>2. CfgInv /\ RestInv /\ QueueInv /\ OrderInv
    BY DEF IInv
  <1>3. SourceInv /\ DedRingInv /\ SumInv /\ ServedInv /\ OnceInv
    BY DEF DedInv
  <1>4. /\ Len(queue) \in Nat /\ m \in 1 .. Len(queue)
        /\ c \in Candidate /\ k \in Delays(now) /\ c.stop <= cfg[s].max
        /\ \A i \in 1 .. m : queue[i].id = s /\ queue[i].k = k
    BY <1>1, <1>2, TopIs
  <1>5. s \in Slice /\ k \in Ahead /\ k \in Nat /\ c.start \in Nat /\ c.stop \in Nat
    BY <1>4, CandFields
  <1>6. ded \in Nat /\ ded \in DedOf(s)
    <2>1. cfg[s] \in Lim /\ cfg[s] \in Limits[s] \cup {NoDedicated(l) : l \in Limits[s]}
      BY <1>2, <1>5 DEF CfgInv
    <2>2. \A l \in Limits[s] : NoDedicated(l).ded = 0
      <3> SUFFICES ASSUME NEW l \in Limits[s] PROVE NoDedicated(l).ded = 0
        OBVIOUS
      <3>1. l \in Lim
        BY <1>5, LimitsOK DEF LimOK
      <3> QED
        BY <3>1 DEF NoDedicated, Lim
    <2> QED
      BY <2>1, <2>2 DEF Lim, DedOf
  <1>7. /\ dir \in {"dl", "ul"} /\ now \in Nat /\ Period \in Nat \ {0}
        /\ dedRbs \in [0 .. Period - 1 -> Nat] /\ served \in [Ahead -> [Slice -> Nat]]
        /\ IsFiniteSet(Slice) /\ CellRbs \in Nat
    BY <1>2, Constants DEF RestInv
  <1>8. /\ now % Period \in DlSlots /\ k \in Reached(now % Period)
        /\ ((now % Period) + k) % Period = pos
    BY <1>4, <1>7, DelaysReach
  <1>9. pos \in 0 .. Period - 1 /\ dedRbs[pos] = sum
    <2>1. now + k \in Nat /\ 0 \in Nat
      BY <1>5, <1>7
    <2>2. pos \in 0 .. Period - 1
      BY <2>1, PeriodMod
    <2> QED
      BY <1>3, <1>4, <2>2 DEF SumInv
  <1>10. sum \in 0 .. CellRbs /\ rest \in Nat /\ sum = served[k][s] + rest /\ served[k][s] \in Nat
    <2>1. \A t \in Slice : served[k][t] \in Nat
      BY <1>5, <1>7
    <2>2. sum \in 0 .. CellRbs
      BY <1>2, <1>3, <1>5, ServedFit
    <2>3. IsFiniteSet(Slice \ {s})
      BY <1>7, FS_Subset
    <2>4. rest \in Nat
      BY <2>1, <2>3, SumNat
    <2>5. sum = served[k][s] + rest
      BY <1>5, <1>7, <2>1, SumSplit
    <2> QED
      BY <1>5, <2>1, <2>2, <2>4, <2>5
  <1>11. below => served[k][s] = 0
    <2> SUFFICES ASSUME below PROVE served[k][s] = 0
      OBVIOUS
    <2>1. PICK i \in 1 .. m : BelowMin(queue[i])
      BY <1>1, <1>2, TopStart DEF BelowMin
    <2>2. i \in 1 .. Len(queue) /\ queue[i].id = s /\ queue[i].k = k
      BY <1>4
    <2> QED
      BY <1>3, <2>1, <2>2 DEF OnceInv
  <1> HIDE DEF c, s, k, m, pos, ded, n, sum, rest
  <1>12. /\ served' \in [Ahead -> [Slice -> Nat]]
         /\ \A l \in Ahead : \A t \in Slice :
              served'[l][t] = IF below /\ l = k /\ t = s THEN ded ELSE served[l][t]
         /\ \A l \in Ahead : l # k => served'[l] = served[l]
    <2>1. CASE below
      <3>1. served' = [served EXCEPT ![k] = [served[k] EXCEPT ![s] = ded]]
        BY <1>1, <2>1
      <3>2. [served[k] EXCEPT ![s] = ded] \in [Slice -> Nat]
        BY <1>5, <1>6, <1>7
      <3> QED
        BY <1>5, <1>7, <2>1, <3>1, <3>2
    <2>2. CASE ~below
      BY <1>1, <1>7, <2>2
    <2> QED
      BY <2>1, <2>2
  <1>13. \A x \in 0 .. Period - 1 :
           dedRbs'[x] = IF below /\ x = pos THEN dedRbs[x] + ded ELSE dedRbs[x]
    BY <1>1, <1>7, <1>9
  <1>14. SumOver(served'[k], Slice \ {s}) = rest
    <2>1. IsFiniteSet(Slice \ {s})
      BY <1>7, FS_Subset
    <2>2. \A t \in Slice \ {s} : served'[k][t] = served[k][t]
      BY <1>5, <1>12
    <2> QED
      BY <2>1, <2>2, SumSame DEF rest
  <1> HIDE DEF below
  <1>15. \A p : Reached(p)' = Reached(p)
    BY <1>1 DEF Reached
  <1>16. SourceInv'
    <2>1. ASSUME NEW l \in Ahead, served'[l] # NoneServed
          PROVE  \E p \in DlSlots : \E e \in Reached(p) :
                   l <= e /\ (p + e) % Period = (now + l) % Period
      <3>1. CASE l = k
        <4>1. k <= k /\ ((now % Period) + k) % Period = (now + k) % Period
          BY <1>5, <1>8 DEF pos, k
        <4> QED
          BY <1>8, <3>1, <4>1
      <3>2. CASE l # k
        BY <1>3, <1>12, <2>1, <3>2 DEF SourceInv
      <3> QED
        BY <3>1, <3>2
    <2> QED
      BY <1>1, <1>15, <2>1 DEF SourceInv
  <1>17. DedRingInv'
    <2>1. ASSUME NEW x \in 0 .. Period - 1, dedRbs'[x] # 0
          PROVE  \E p \in DlSlots : \E e \in Reached(p) : \E d \in 0 .. e % Period :
                   x = (p + e) % Period /\ (p + d) % Period = now % Period
      <3>1. CASE x = pos
        <4> DEFINE p == now % Period
        <4>1. p \in 0 .. Period - 1 /\ p % Period = p
          BY <1>7, <1>8, ReachedIs, PlaceOf
        <4>2. k % Period \in Nat
          BY <1>5, <1>7
        <4>3. 0 \in 0 .. k % Period
          BY <4>2
        <4> HIDE DEF p
        <4>4. (p + 0) % Period = now % Period
          <5>1. p + 0 = p
            BY <4>1, <1>7
          <5> QED
            BY <4>1, <5>1 DEF p
        <4>5. p \in DlSlots /\ k \in Reached(p) /\ x = (p + k) % Period
          BY <1>8, <3>1 DEF p
        <4> QED
          BY <4>3, <4>4, <4>5
      <3>2. CASE x # pos
        BY <1>3, <1>13, <2>1, <3>2 DEF DedRingInv
      <3> QED
        BY <3>1, <3>2
    <2> QED
      BY <1>1, <1>15, <2>1 DEF DedRingInv
  <1>18. SumInv'
    <2>1. ASSUME NEW l \in Delays(now) PROVE dedRbs'[(now + l) % Period] = SumOver(served'[l], Slice)
      <3>1. l \in Nat /\ l \in Ahead /\ dedRbs[(now + l) % Period] = SumOver(served[l], Slice)
        BY <1>3, <1>7, DelaysReach DEF SumInv
      <3>2. (now + l) % Period \in 0 .. Period - 1
        <4>1. now + l \in Nat /\ 0 \in Nat
          BY <1>7, <3>1
        <4> QED
          BY <4>1, PeriodMod
      <3>3. CASE l = k
        <4>1. (now + l) % Period = pos
          BY <3>3 DEF pos, k
        <4>2. CASE below
          <5>1. SumOver(served'[k], Slice) = served'[k][s] + SumOver(served'[k], Slice \ {s})
            <6>1. \A t \in Slice : served'[k][t] \in Nat
              BY <1>5, <1>12
            <6> QED
              BY <1>5, <1>7, <6>1, SumSplit
          <5>2. served'[k][s] = ded
            BY <1>5, <1>12, <4>2
          <5>3. dedRbs'[pos] = dedRbs[pos] + ded
            BY <1>9, <1>13, <4>2
          <5>4. dedRbs[pos] = rest
            BY <1>9, <1>10, <1>11, <4>2
          <5> QED
            BY <1>6, <1>10, <1>14, <3>3, <4>1, <5>1, <5>2, <5>3, <5>4
        <4>3. CASE ~below
          <5>1. served' = served /\ dedRbs'[pos] = dedRbs[pos]
            BY <1>1, <1>9, <1>13, <4>3
          <5> QED
            BY <3>1, <4>1, <5>1
        <4> QED
          BY <4>2, <4>3
      <3>4. CASE l # k
        <4>1. (now + l) % Period # pos
          <5>1. SUFFICES ASSUME (now + l) % Period = pos PROVE FALSE
            OBVIOUS
          <5>2. ((now % Period) + k) % Period = (now + l) % Period
            BY <1>8, <5>1
          <5>3. k = l
            BY <1>7, <1>8, <5>2, OneSource
          <5> QED
            BY <3>4, <5>3
        <4> QED
          BY <1>12, <1>13, <3>1, <3>2, <3>4, <4>1
      <3> QED
        BY <3>3, <3>4
    <2>2. Delays(now)' = Delays(now)
      BY <1>1 DEF Delays
    <2> QED
      BY <1>1, <2>1, <2>2 DEF SumInv
  <1>19. ServedInv'
    BY <1>3, <1>6, <1>12 DEF ServedInv
  <1>20. /\ Len(queue') = Len(queue) - m
         /\ \A i \in 1 .. Len(queue') : i + m \in 1 .. Len(queue) /\ queue'[i] = queue[i + m]
    BY <1>2, PopQueue DEF m
  <1>21. \A i : queue'[i] = queue[i + m] => (BelowMin(queue[i])' <=> BelowMin(queue[i + m]))
    BY <1>1 DEF BelowMin
  <1>22. OnceInv'
    <2>1. ASSUME NEW i \in 1 .. Len(queue'), BelowMin(queue[i])'
          PROVE  served'[queue'[i].k][queue'[i].id] = 0
      <3> DEFINE j == i + m
      <3>1. j \in 1 .. Len(queue) /\ queue'[i] = queue[j] /\ BelowMin(queue[j]) /\ j > m
        <4>1. j > m
          BY <1>4, <1>20
        <4> QED
          BY <1>20, <1>21, <2>1, <4>1
      <3> HIDE DEF j
      <3>2. served[queue[j].k][queue[j].id] = 0
        BY <1>3, <3>1 DEF OnceInv
      <3>3. queue[j].k \in Ahead /\ queue[j].id \in Slice
        <4>1. queue[j] \in Candidate
          BY <1>2, <3>1 DEF QueueInv, CandOK
        <4> QED
          BY <4>1, CandFields
      <3>4. ~(below /\ queue[j].k = k /\ queue[j].id = s)
        <4>1. SUFFICES ASSUME below, queue[j].k = k, queue[j].id = s PROVE FALSE
          OBVIOUS
        <4>2. BelowMin(Top)
          BY <4>1 DEF below, BelowMin
        <4>3. PICK i0 \in 1 .. m : BelowMin(queue[i0])
          BY <1>1, <1>2, <4>2, TopStart DEF m
        <4>4. i0 \in 1 .. Len(queue) /\ queue[i0].id = s /\ queue[i0].k = k /\ i0 < j
          BY <1>4, <3>1
        <4>5. i0 = j
          BY <1>3, <3>1, <4>1, <4>3, <4>4 DEF OnceInv
        <4> QED
          BY <4>4, <4>5
      <3> QED
        BY <1>12, <3>1, <3>2, <3>3, <3>4
    <2>2. ASSUME NEW i \in 1 .. Len(queue'), NEW j \in 1 .. Len(queue'),
                 queue'[i].id = queue'[j].id, queue'[i].k = queue'[j].k,
                 BelowMin(queue[i])', BelowMin(queue[j])'
          PROVE  i = j
      <3>1. /\ i + m \in 1 .. Len(queue) /\ queue'[i] = queue[i + m] /\ BelowMin(queue[i + m])
            /\ j + m \in 1 .. Len(queue) /\ queue'[j] = queue[j + m] /\ BelowMin(queue[j + m])
        BY <1>20, <1>21, <2>2
      <3>2. i + m = j + m
        BY <1>3, <2>2, <3>1 DEF OnceInv
      <3>3. i \in Int /\ j \in Int /\ m \in Int
        BY <1>4, <1>20
      <3> QED
        BY <3>2, <3>3
    <2> QED
      BY <2>1, <2>2 DEF OnceInv
  <1>23. DedicatedHonoured'
    <2> SUFFICES ASSUME offer' # None
                 PROVE  offer'.max + DedicatedToOthers(offer.k, offer.id)' <= CellRbs
      BY DEF DedicatedHonoured
    <2> DEFINE rem == RemRbs(dedRbs[pos])
    <2>1. rem = CellRbs - sum
      <3>1. sum \in Nat /\ sum <= CellRbs
        BY <1>7, <1>10
      <3>2. rem = RemRbs(sum)
        BY <1>9
      <3> QED
        BY <3>1, <3>2, RemIs, SMT
    <2>2. rem \in Nat
      BY <1>7, <1>10, <2>1
    <2> HIDE DEF rem
    <2>3. offer' = [id |-> s, k |-> k, max |-> Min({c.stop, rem})]
      BY <1>1 DEF Offered, rem, s, k, c
    <2>4. Min({c.stop, rem}) \in Nat /\ Min({c.stop, rem}) <= rem
      BY <1>5, <2>2, MaxMinTwo
    <2>5. offer'.id = s /\ offer'.k = k /\ offer'.max \in Nat /\ offer'.max <= rem
      BY <2>3, <2>4
    <2>6. DedicatedToOthers(offer.k, offer.id)' = SumOver(served'[k], Slice \ {s})
      BY <2>5 DEF DedicatedToOthers, SumOver, MapThenSumSet, MapThenFoldSet
    <2> QED
      BY <1>7, <1>10, <1>14, <2>1, <2>5, <2>6
  <1> QED
    BY <1>16, <1>17, <1>18, <1>19, <1>22, <1>23 DEF DedInv

\* A step that leaves the counters of dedicated RBs and the slot alone.
LEMMA DedQuiet ==
  ASSUME DedInv, dir' = dir, now' = now, dedRbs' = dedRbs, served' = served, queue' = queue,
         cfg' = cfg \/ queue = <<>>, offer' = offer \/ offer' = None
  PROVE  DedInv'
  <1>1. Delays(now)' = Delays(now) /\ \A p : Reached(p)' = Reached(p)
    BY DEF Delays, Reached
  <1>2. SourceInv' /\ DedRingInv' /\ SumInv' /\ ServedInv'
    BY <1>1 DEF DedInv, SourceInv, DedRingInv, SumInv, ServedInv
  <1>3. OnceInv'
    <2>1. CASE cfg' = cfg
      <3>1. \A i : BelowMin(queue[i])' <=> BelowMin(queue[i])
        BY <2>1 DEF BelowMin
      <3> QED
        BY <3>1 DEF DedInv, OnceInv
    <2>2. CASE queue = <<>>
      BY <2>2 DEF OnceInv
    <2> QED
      BY <2>1, <2>2
  <1>4. DedicatedHonoured'
    <2>1. CASE offer' = offer
      <3>1. offer # None => DedicatedToOthers(offer.k, offer.id)' = DedicatedToOthers(offer.k, offer.id)
        BY <2>1 DEF DedicatedToOthers, MapThenSumSet, MapThenFoldSet
      <3> QED
        BY <2>1, <3>1 DEF DedInv, DedicatedHonoured
    <2>2. CASE offer' = None
      BY <2>2 DEF DedicatedHonoured
    <2> QED
      BY <2>1, <2>2
  <1> QED
    BY <1>2, <1>3, <1>4 DEF DedInv

LEMMA DedInit ==
  ASSUME Init
  PROVE  DedInv
  <1>1. /\ queue = <<>> /\ offer = None /\ now = 0 /\ dir \in {"dl", "ul"}
        /\ served = [k \in Ahead |-> NoneServed] /\ dedRbs = [p \in 0 .. Period - 1 |-> 0]
    BY DEF Init
  <1>2. SourceInv /\ DedRingInv
    BY <1>1 DEF SourceInv, DedRingInv
  <1>3. SumInv
    <2>1. SumOver(NoneServed, Slice) = 0
      BY SumZero, Constants DEF NoneServed
    <2> SUFFICES ASSUME NEW k \in Delays(now)
                 PROVE  dedRbs[(now + k) % Period] = SumOver(served[k], Slice)
      BY DEF SumInv
    <2>2. k \in Ahead /\ now + k \in Nat /\ 0 \in Nat
      BY <1>1, DelaysReach
    <2>3. (now + k) % Period \in 0 .. Period - 1
      BY <2>2, PeriodMod
    <2> QED
      BY <1>1, <2>1, <2>2, <2>3
  <1>4. ServedInv
    BY <1>1 DEF ServedInv, NoneServed, DedOf
  <1>5. OnceInv /\ DedicatedHonoured
    BY <1>1 DEF OnceInv, DedicatedHonoured
  <1> QED
    BY <1>2, <1>3, <1>4, <1>5 DEF DedInv

LEMMA DedNext ==
  ASSUME IInv, SingleTarget, DedicatedFit, DedInv, [Next]_vars
  PROVE  DedInv'
  <1>1. ASSUME NEW skip \in 1 .. MaxSkip, NEW blocked \in SUBSET Delays(now + skip),
               NEW tie \in [Delays(now + skip) \X {0, 1} -> Ranks], SlotIndication(skip, blocked, tie)
        PROVE  DedInv'
    BY <1>1, SlotDedStep
  <1>2. CASE PopCandidate
    BY <1>2, PopDedStep
  <1>3. ASSUME NEW r \in 0 .. CellRbs, NEW n \in 0 .. CellRbs, IntraSliceSched(r, n) PROVE DedInv'
    BY <1>3, DedQuiet DEF IntraSliceSched
  <1>4. ASSUME NEW s \in Slice, AddUe(s) \/ RemUe(s) PROVE DedInv'
    BY <1>4, DedQuiet DEF AddUe, RemUe
  <1>5. ASSUME NEW s \in Slice, NEW lim \in Limits[s], ReconfSlice(s, lim) PROVE DedInv'
    BY <1>5, DedQuiet DEF ReconfSlice, BetweenSlots
  <1>6. CASE UNCHANGED vars
    BY <1>6, DedQuiet DEF vars
  <1> QED
    BY <1>1, <1>2, <1>3, <1>4, <1>5, <1>6 DEF Next

(***************************************************************************)
(* A slice is never offered RBs that are dedicated to slices scheduled     *)
(* before it in the slot (get_next_candidate), for every set of slices,    *)
(* every TDD pattern in which a PUSCH slot is scheduled from one PDCCH     *)
(* slot, any number of skipped slots and reconfigurations, if the          *)
(* dedicated RBs of all slices fit into the cell.                          *)
(***************************************************************************)
THEOREM DedicatedHonouredAlways ==
  ASSUME SingleTarget, DedicatedFit
  PROVE  Spec => []DedicatedHonoured
  <1>1. Init => IInv /\ DedInv
    BY InitInv, DedInit
  <1>2. IInv /\ DedInv /\ [Next]_vars => IInv' /\ DedInv'
    BY NextInv, DedNext
  <1>3. DedInv => DedicatedHonoured
    BY DEF DedInv
  <1> QED
    BY <1>1, <1>2, <1>3, PTL DEF Spec

=============================================================================
