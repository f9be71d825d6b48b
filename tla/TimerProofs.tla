----------------------------- MODULE TimerProofs -----------------------------
(***************************************************************************)
(* The list of the hard timers is in the order of the real times, no timer *)
(* is early or left, and a started timer is listed and active, for any     *)
(* timers, threads, times, lag and any width of the tick, wherever it      *)
(* wraps.  All that is used of 2^Width is that it is a number.             *)
(*                                                                         *)
(* The second part is about the heap of src/mem.c, which shares nothing    *)
(* with the timers: its chain stays tidy, its blocks stay with their users *)
(* and used_mem counts their units.                                        *)
(***************************************************************************)
EXTENDS Timer, SmallMem, KernelProofs

-----------------------------------------------------------------------------
(* Ticks *)

\* The tick is counted modulo Round.
Round == TickMax + 1

LEMMA TickNumbers ==
  /\ TickMax \in Nat /\ Round \in Nat \ {0} /\ Half \in Nat
  /\ 2 * Half < Round
  /\ Lag \in Nat
  /\ \A n \in Time : n \in Nat /\ 1 <= n /\ n < Half
  /\ \A n, m \in Time : n - m + Lag < Half
<1>1. \A n \in Nat : n \div 2 \in Nat /\ 2 * (n \div 2) <= n
  OBVIOUS
<1>2. TickMax \in Nat
  BY TimerType
<1>3. Half \in Nat /\ 2 * Half <= TickMax
  BY <1>1, <1>2 DEF Half
<1> QED BY <1>2, <1>3, TimerType DEF Round

\* The remainders the code computes.
LEMMA RoundMod ==
  \A n \in 1 - Round .. 2 * Round - 1 :
    n % Round = IF n < 0 THEN n + Round
                ELSE IF n < Round THEN n ELSE n - Round
<1>1. \A m \in Nat \ {0} : \A n \in 1 - m .. -1 : n % m = n + m
  OBVIOUS
<1>2. \A m \in Nat \ {0} : \A n \in 0 .. m - 1 : n % m = n
  OBVIOUS
<1>3. \A m \in Nat \ {0} : \A n \in m .. 2 * m - 1 : n % m = n - m
  OBVIOUS
<1> QED BY <1>1, <1>2, <1>3, TickNumbers

LEMMA TickSums ==
  /\ \A a, b \in Ticks : Minus(a, b) = IF a - b < 0 THEN a - b + Round ELSE a - b
  /\ \A a \in Ticks : \A n \in 0 .. Round :
       (a + n) % Round = IF a + n < Round THEN a + n ELSE a + n - Round
<1>1. Ticks = 0 .. Round - 1 /\ Round \in Nat \ {0}
  BY TickNumbers DEF Ticks, Round
<1>2. ASSUME NEW a \in Ticks, NEW b \in Ticks
      PROVE  Minus(a, b) = IF a - b < 0 THEN a - b + Round ELSE a - b
  <2> DEFINE x == a - b
  <2>1. x \in 1 - Round .. 2 * Round - 1 /\ x < Round
    BY <1>1
  <2> HIDE DEF x
  <2>2. x % Round = IF x < 0 THEN x + Round ELSE x
    BY <2>1, <1>1, RoundMod
  <2> QED BY <2>2 DEF x, Minus, Round
<1>3. ASSUME NEW a \in Ticks, NEW n \in 0 .. Round
      PROVE  (a + n) % Round = IF a + n < Round THEN a + n ELSE a + n - Round
  <2>0. PICK x : x = a + n
    OBVIOUS
  <2>1. x \in 1 - Round .. 2 * Round - 1 /\ x >= 0
    BY <1>1, <2>0
  <2>2. x % Round = IF x < 0 THEN x + Round
                    ELSE IF x < Round THEN x ELSE x - Round
    BY <2>1, RoundMod, Zenon
  <2>3. ~(x < 0)
    BY <2>1, <1>1
  <2>4. x % Round = IF x < Round THEN x ELSE x - Round
    BY <2>2, <2>3, Zenon
  <2>5. x \in Int /\ a \in Int /\ n \in Int /\ Round \in Int
    BY <1>1, <2>0
  <2> QED BY <2>0, <2>4, <2>5
<1> QED BY <1>2, <1>3

\* timeout, less the tick, is left up to a wrap.
Apart(timeout, tick, left) == timeout - tick - left \in {-Round, 0, Round}

\* A timer in the list has at most its time to wait; it is early by at most
\* the lag of its start, and is overdue only until the next rt_timer_check.
InRange(left, check) ==
  LET passed == IF check THEN 1 ELSE 0
  IN  /\ left \in Int
      /\ \E n \in Time : left <= n
      /\ left + passed >= 1 \/ \E n \in Time : left + passed >= n - Lag

\* A timer that is about to be linked, by a thread or by rt_timer_check.
LinkRange(left, check) ==
  /\ left \in Int
  /\ \E n \in Time : left <= n
  /\ IF check THEN left >= 1 ELSE \E n \in Time : left >= n - Lag

LEMMA LinkRangeInRange ==
  ASSUME NEW left, NEW check \in BOOLEAN, LinkRange(left, check)
  PROVE  InRange(left, check)
BY DEF LinkRange, InRange

LEMMA RangeBounds ==
  ASSUME NEW check \in BOOLEAN, NEW m, InRange(m, check)
  PROVE  /\ m \in Int /\ m < Half /\ m > -Half
         /\ \A n : LinkRange(n, check) =>
              n \in Int /\ n < Half /\ n > -Half /\ m - n < Half /\ m - n >= -Half
<1>1. PICK a \in Time : m <= a
  BY DEF InRange
<1>2. m \in Int /\ m < Half /\ m > -Half
  BY <1>1, TickNumbers DEF InRange
<1>3. ASSUME NEW n, LinkRange(n, check)
      PROVE  n \in Int /\ n < Half /\ n > -Half /\ m - n < Half /\ m - n >= -Half
  <2>1. PICK b \in Time : n <= b
    BY <1>3 DEF LinkRange
  <2>2. n \in Int /\ n < Half /\ n > -Half
    BY <1>3, <2>1, TickNumbers DEF LinkRange
  <2>3. CASE check
    BY <1>1, <1>2, <1>3, <2>1, <2>2, <2>3, TickNumbers DEF LinkRange, InRange
  <2>4. CASE ~check
    BY <1>1, <1>2, <1>3, <2>1, <2>2, <2>4, TickNumbers DEF LinkRange, InRange
  <2> QED BY <2>2, <2>3, <2>4
<1> QED BY <1>2, <1>3

(* Comparing two timeouts modulo the range of the tick compares the times   *)
(* the timers have to wait.                                                 *)
LEMMA LaterIsLonger ==
  ASSUME NEW tick \in Ticks, NEW a \in Ticks, NEW b \in Ticks, NEW check \in BOOLEAN,
         NEW m, NEW n, Apart(a, tick, m), Apart(b, tick, n),
         InRange(m, check), LinkRange(n, check)
  PROVE  Minus(a, b) \in 1 .. Half - 1 <=> m > n
<1>1. /\ m \in Int /\ n \in Int
      /\ m - n < Half /\ m - n >= -Half
  BY RangeBounds
<1>2. /\ a \in 0 .. TickMax /\ b \in 0 .. TickMax /\ tick \in 0 .. TickMax
      /\ a - b \in 1 - Round .. Round - 1
      /\ 2 * Half < Round /\ Half \in Nat /\ Round \in Nat /\ Round = TickMax + 1
  BY TickNumbers DEF Ticks, Round
<1>3. Minus(a, b) = IF a - b < 0 THEN a - b + Round ELSE a - b
  BY TickSums
<1>4. a - b - (m - n) \in {-2 * Round, -Round, 0, Round, 2 * Round}
  BY <1>1, <1>2 DEF Apart
<1>5. a - b - (m - n) \in {-Round, 0, Round}
  BY <1>1, <1>2, <1>4
<1>6. CASE a - b = m - n
  BY <1>1, <1>2, <1>3, <1>6
<1>7. CASE a - b = m - n + Round
  BY <1>1, <1>2, <1>3, <1>7
<1>8. CASE a - b = m - n - Round
  BY <1>1, <1>2, <1>3, <1>8
<1> QED BY <1>1, <1>2, <1>5, <1>6, <1>7, <1>8

(* A timer is due when it has nothing left to wait.                         *)
LEMMA DueIsOver ==
  ASSUME NEW tick \in Ticks, NEW a \in Ticks, NEW m, Apart(a, tick, m), InRange(m, TRUE)
  PROVE  Minus(tick, a) < Half <=> m <= 0
<1>1. m \in Int /\ m < Half /\ m > -Half
  BY RangeBounds
<1>2. /\ a \in 0 .. TickMax /\ tick \in 0 .. TickMax
      /\ tick - a \in 1 - Round .. Round - 1
      /\ 2 * Half < Round /\ Half \in Nat /\ Round \in Nat /\ Round = TickMax + 1
  BY TickNumbers DEF Ticks, Round
<1>3. Minus(tick, a) = IF tick - a < 0 THEN tick - a + Round ELSE tick - a
  BY TickSums
<1> QED BY <1>1, <1>2, <1>3 DEF Apart

(* The next tick takes one from what is left.                               *)
LEMMA TickPasses ==
  ASSUME NEW tick \in Ticks, NEW a \in Ticks, NEW m \in Int, Apart(a, tick, m),
         m < Half, m > -Half
  PROVE  Apart(a, (tick + 1) % Round, m - 1)
<1>1. (tick + 1) % Round = IF tick = TickMax THEN 0 ELSE tick + 1
  <2>1. (tick + 1) % Round = IF tick + 1 < Round THEN tick + 1 ELSE tick + 1 - Round
    <3>1. 1 \in 0 .. Round
      BY TickNumbers
    <3> QED BY <3>1, TickSums
  <2>2. tick \in 0 .. TickMax /\ TickMax \in Nat /\ Round = TickMax + 1
    BY TickNumbers DEF Ticks, Round
  <2> QED BY <2>1, <2>2
<1>2. a \in 0 .. TickMax /\ tick \in 0 .. TickMax /\ Round = TickMax + 1
  BY DEF Ticks, Round
<1> QED BY <1>1, <1>2, TickNumbers DEF Apart

(* A timeout that is set is as far away as the time of the timer.           *)
LEMMA TimeoutIsApart ==
  ASSUME NEW tick \in Ticks, NEW n \in Time
  PROVE  /\ (tick + n) % Round \in Ticks
         /\ Apart((tick + n) % Round, tick, n)
<1>1. /\ tick \in 0 .. TickMax /\ Round = TickMax + 1 /\ TickMax \in Nat
      /\ n \in Nat /\ n < Round /\ n \in 0 .. Round
  BY TickNumbers DEF Ticks, Round
<1>2. (tick + n) % Round = IF tick + n < Round THEN tick + n ELSE tick + n - Round
  BY <1>1, TickSums
<1> DEFINE sum == (tick + n) % Round
<1>3. sum = IF tick + n < Round THEN tick + n ELSE tick + n - Round
  BY <1>2, Zenon DEF sum
<1> HIDE DEF sum
<1>4. sum \in Ticks
  BY <1>1, <1>3 DEF Ticks
<1>5. sum - tick - n \in {-Round, 0, Round}
  BY <1>1, <1>3
<1> QED BY <1>4, <1>5, Zenon DEF sum, Apart


-----------------------------------------------------------------------------
(* The order of the list *)

\* n was put into the list before m.
Before(l, n, m) == \E i, j \in 1 .. Len(l) : i < j /\ l[i] = n /\ l[j] = m

\* The list l is in the order of what is left, and of two with the same time in
\* the order of their starts.
InOrder(l, left, run) ==
  \A i, j \in 1 .. Len(l) :
    i < j => \/ left[l[i]] < left[l[j]]
             \/ left[l[i]] = left[l[j]] /\ Before(run, l[i], l[j])

LEMMA RemoveKeepsBefore ==
  ASSUME NEW S, NEW l \in Seq(S), NoRepeat(l), NEW x, NEW n, NEW m,
         n # x, m # x, Before(l, n, m)
  PROVE  Before(rt_list_remove(l, x), n, m)
<1> DEFINE r == rt_list_remove(l, x)
<1>1. /\ r \in Seq(S) /\ ToSet(r) = ToSet(l) \ {x}
      /\ \A i, j \in 1 .. Len(r) : i <= j =>
           \E a, b \in 1 .. Len(l) : a <= b /\ r[i] = l[a] /\ r[j] = l[b]
  BY RemoveNode
<1> HIDE DEF r
<1>2. PICK p, q \in 1 .. Len(l) : p < q /\ l[p] = n /\ l[q] = m
  BY DEF Before
<1>3. \A i, j \in 1 .. Len(l) : l[i] = l[j] => i = j
  BY NodesOfList DEF NoRepeat
<1>4. n \in ToSet(r) /\ m \in ToSet(r)
  BY <1>1, <1>2, NodesOfList
<1>5. PICK i, j \in 1 .. Len(r) : r[i] = n /\ r[j] = m
  BY <1>1, <1>4, NodesOfList
<1>6. Len(r) \in Nat /\ Len(l) \in Nat
  BY <1>1, LenProperties
<1>7. i < j
  <2>1. SUFFICES ASSUME j <= i PROVE FALSE
    BY <1>6
  <2>2. PICK a, b \in 1 .. Len(l) : a <= b /\ r[j] = l[a] /\ r[i] = l[b]
    BY <1>1, <2>1
  <2>3. a = q /\ b = p
    BY <1>2, <1>3, <1>5, <2>2
  <2> QED BY <1>2, <1>6, <2>2, <2>3
<1> QED BY <1>5, <1>7 DEF Before, r

LEMMA AppendKeepsBefore ==
  ASSUME NEW S, NEW l \in Seq(S), NEW x \in S
  PROVE  /\ \A n, m : Before(l, n, m) => Before(Append(l, x), n, m)
         /\ \A n \in ToSet(l) : Before(Append(l, x), n, x)
<1> DEFINE r == Append(l, x)
<1>1. /\ r \in Seq(S) /\ Len(r) = Len(l) + 1 /\ Len(l) \in Nat
      /\ \A i \in 1 .. Len(l) : r[i] = l[i]
      /\ r[Len(l) + 1] = x
  BY AppendProperties, LenProperties
<1> HIDE DEF r
<1>2. ASSUME NEW n, NEW m, Before(l, n, m) PROVE Before(r, n, m)
  <2>1. PICK i, j \in 1 .. Len(l) : i < j /\ l[i] = n /\ l[j] = m
    BY <1>2 DEF Before
  <2> QED BY <1>1, <2>1 DEF Before
<1>3. ASSUME NEW n \in ToSet(l) PROVE Before(r, n, x)
  <2>1. PICK i \in 1 .. Len(l) : l[i] = n
    BY NodesOfList
  <2>2. i < Len(l) + 1 /\ i \in 1 .. Len(r) /\ Len(l) + 1 \in 1 .. Len(r)
    BY <1>1
  <2> QED BY <1>1, <2>1, <2>2 DEF Before
<1> QED BY <1>2, <1>3 DEF r

(* Removing a timer from the list, and from the started ones or not, keeps   *)
(* the order.                                                                *)
LEMMA RemoveKeepsInOrder ==
  ASSUME NEW S, NEW l \in Seq(S), NoRepeat(l), NEW left, NEW run \in Seq(S),
         NoRepeat(run), NEW x, InOrder(l, left, run)
  PROVE  /\ InOrder(rt_list_remove(l, x), left, run)
         /\ InOrder(rt_list_remove(l, x), left, rt_list_remove(run, x))
<1> DEFINE r == rt_list_remove(l, x)
<1>1. /\ r \in Seq(S) /\ ToSet(r) = ToSet(l) \ {x} /\ NoRepeat(r)
      /\ \A i, j \in 1 .. Len(r) : i <= j =>
           \E a, b \in 1 .. Len(l) : a <= b /\ r[i] = l[a] /\ r[j] = l[b]
  BY RemoveNode
<1> HIDE DEF r
<1>2. /\ DOMAIN r = 1 .. Len(r) /\ Len(r) \in Nat /\ Len(l) \in Nat
      /\ \A i \in 1 .. Len(r) : r[i] # x
  BY <1>1, LenProperties, NodesOfList
<1>3. ASSUME NEW i \in 1 .. Len(r), NEW j \in 1 .. Len(r), i < j
      PROVE  \/ left[r[i]] < left[r[j]]
             \/ left[r[i]] = left[r[j]] /\ Before(run, r[i], r[j])
  <2>1. PICK a, b \in 1 .. Len(l) : a <= b /\ r[i] = l[a] /\ r[j] = l[b]
    BY <1>1, <1>2, <1>3
  <2>2. r[i] # r[j]
    <3>1. \A p, q \in 1 .. Len(r) : r[p] = r[q] => p = q
      BY <1>1, <1>2 DEF NoRepeat
    <3> QED BY <1>2, <1>3, <3>1
  <2>3. a < b
    BY <1>2, <2>1, <2>2
  <2> QED BY <2>1, <2>3 DEF InOrder
<1>4. \A i, j \in 1 .. Len(r) : Before(run, r[i], r[j])
        => Before(rt_list_remove(run, x), r[i], r[j])
  BY <1>2, RemoveKeepsBefore
<1> QED BY <1>3, <1>4 DEF InOrder, r

\* What the search of rt_timer_start makes of the list.
Inserted(l, left, t) ==
  LET later == {i \in DOMAIN l : left[l[i]] > left[t]}
  IN  IF later = {} THEN Append(l, t)
      ELSE InsertBeforeNode(l, CHOOSE i \in later : \A j \in later : i <= j, t)

(* Linking a timer that was not linked behind those that wait no longer      *)
(* keeps the order, if it counts as the one that was started last.           *)
LEMMA InsertKeepsInOrder ==
  ASSUME NEW S, NEW l \in Seq(S), NoRepeat(l), NEW left \in [S -> Int],
         NEW run \in Seq(S), NoRepeat(run), NEW t \in S, t \notin ToSet(l),
         ToSet(l) \subseteq ToSet(run), InOrder(l, left, run)
  PROVE  LET r == Inserted(l, left, t)
         IN  /\ r \in Seq(S) /\ NoRepeat(r) /\ ToSet(r) = ToSet(l) \cup {t}
             /\ InOrder(r, left, Append(rt_list_remove(run, t), t))
<1>0. ASSUME NEW i \in 1 .. Len(l) + 1, NEW j \in 1 .. Len(l) + 1
      PROVE  InsertBeforeNode(l, i, t)[j] = IF j < i THEN l[j]
                                            ELSE IF j = i THEN t ELSE l[j - 1]
  BY InsertPlaces
<1> DEFINE r     == Inserted(l, left, t)
           run2  == Append(rt_list_remove(run, t), t)
           later == {i \in DOMAIN l : left[l[i]] > left[t]}
<1>1. /\ DOMAIN l = 1 .. Len(l) /\ Len(l) \in Nat
      /\ \A i \in 1 .. Len(l) : l[i] \in S /\ l[i] # t /\ l[i] \in ToSet(l)
  BY NodesOfList
<1>2. /\ \A i, j \in 1 .. Len(l) : Before(run, l[i], l[j]) => Before(run2, l[i], l[j])
      /\ \A i \in 1 .. Len(l) : Before(run2, l[i], t)
  <2> DEFINE rest == rt_list_remove(run, t)
  <2>1. rest \in Seq(S) /\ ToSet(rest) = ToSet(run) \ {t}
    BY RemoveNode
  <2>2. \A i, j \in 1 .. Len(l) : Before(run, l[i], l[j]) => Before(rest, l[i], l[j])
    BY <1>1, RemoveKeepsBefore
  <2>3. \A i \in 1 .. Len(l) : l[i] \in ToSet(rest)
    BY <1>1, <2>1
  <2> HIDE DEF rest
  <2>4. /\ \A n, m : Before(rest, n, m) => Before(Append(rest, t), n, m)
        /\ \A n \in ToSet(rest) : Before(Append(rest, t), n, t)
    BY <2>1, AppendKeepsBefore
  <2> QED BY <2>2, <2>3, <2>4 DEF rest
<1> HIDE DEF run2
<1>3. \A i \in 1 .. Len(l) : left[l[i]] \in Int /\ left[t] \in Int
  BY <1>1
<1>4. \A i, j \in 1 .. Len(l) : i < j =>
        \/ left[l[i]] < left[l[j]]
        \/ left[l[i]] = left[l[j]] /\ Before(run2, l[i], l[j])
  BY <1>2 DEF InOrder
<1>5. CASE later = {}
  <2>1. r = rt_list_insert_before(l, t)
    BY <1>5 DEF Inserted, rt_list_insert_before
  <2>2. /\ r \in Seq(S) /\ Len(r) = Len(l) + 1
        /\ \A i \in 1 .. Len(l) : r[i] = l[i]
        /\ r[Len(l) + 1] = t
        /\ ToSet(r) = ToSet(l) \cup {t} /\ NoRepeat(r)
    <3> DEFINE m == rt_list_insert_before(l, t)
    <3>1. m \in Seq(S) /\ Len(m) = Len(l) + 1 /\ m[Len(l) + 1] = t
      BY InsertLast
    <3>2. ToSet(m) = ToSet(l) \cup {t} /\ NoRepeat(m)
      BY InsertLast
    <3>3. \A i \in 1 .. Len(l) : m[i] = l[i]
      BY AppendProperties DEF rt_list_insert_before
    <3> HIDE DEF m, r
    <3> QED BY <2>1, <3>1, <3>2, <3>3 DEF m
  <2> HIDE DEF r
  <2>3. \A i \in 1 .. Len(l) : left[l[i]] <= left[t]
    BY <1>1, <1>3, <1>5
  <2>4. ASSUME NEW i \in 1 .. Len(r), NEW j \in 1 .. Len(r), i < j
        PROVE  \/ left[r[i]] < left[r[j]]
               \/ left[r[i]] = left[r[j]] /\ Before(run2, r[i], r[j])
    <3>1. i \in 1 .. Len(l) /\ r[i] = l[i]
      BY <1>1, <2>2, <2>4
    <3>2. CASE j = Len(l) + 1
      BY <1>2, <1>3, <2>2, <2>3, <3>1, <3>2
    <3>3. CASE j # Len(l) + 1
      <4>1. j \in 1 .. Len(l) /\ r[j] = l[j]
        BY <1>1, <2>2, <3>3
      <4> QED BY <1>4, <2>4, <3>1, <4>1
    <3> QED BY <3>2, <3>3
  <2> QED BY <2>2, <2>4 DEF InOrder, r, run2
<1>6. CASE later # {}
  <2> DEFINE f == CHOOSE i \in later : \A j \in later : i <= j
  <2>1. f \in later /\ \A j \in later : f <= j
    <3>1. later \subseteq Nat
      BY <1>1
    <3> HIDE DEF later
    <3>2. \E i \in later : \A j \in later : i <= j
      BY <1>6, <3>1, NaturalMinimum
    <3> QED BY <3>2
  <2>2. r = InsertBeforeNode(l, f, t)
    BY <1>6 DEF Inserted
  <2> HIDE DEF f
  <2>3. f \in 1 .. Len(l) /\ left[l[f]] > left[t]
    BY <1>1, <2>1
  <2>4. ASSUME NEW i \in 1 .. Len(l), i < f PROVE left[l[i]] <= left[t]
    <3>1. i \notin later
      <4> HIDE DEF later
      <4> QED BY <1>1, <2>1, <2>3, <2>4
    <3> QED BY <1>1, <1>3, <3>1
  <2>5. ASSUME NEW i \in 1 .. Len(l), i >= f PROVE left[l[i]] > left[t]
    <3>1. left[l[f]] \in Int /\ left[l[i]] \in Int /\ left[t] \in Int
      BY <1>3, <2>3
    <3>2. CASE f < i
      <4>1. left[l[f]] <= left[l[i]]
        BY <1>4, <2>3, <3>1, <3>2
      <4> QED BY <2>3, <3>1, <4>1
    <3>3. CASE i = f
      BY <2>3, <3>3
    <3>4. f < i \/ i = f
      BY <1>1, <2>3, <2>5
    <3> QED BY <3>2, <3>3, <3>4
  <2>6. /\ r \in Seq(S) /\ Len(r) = Len(l) + 1
        /\ \A j \in 1 .. Len(l) + 1 :
             r[j] = IF j < f THEN l[j] ELSE IF j = f THEN t ELSE l[j - 1]
        /\ ToSet(r) = ToSet(l) \cup {t} /\ NoRepeat(r)
    <3>1. f \in 1 .. Len(l) + 1
      BY <1>1, <2>3
    <3> DEFINE m == InsertBeforeNode(l, f, t)
    <3>2. m \in Seq(S) /\ Len(m) = Len(l) + 1
      BY <3>1, InsertInFront
    <3>3. ASSUME NEW j \in 1 .. Len(l) + 1
          PROVE  m[j] = IF j < f THEN l[j] ELSE IF j = f THEN t ELSE l[j - 1]
      BY <1>0, <3>1
    <3>4. ToSet(m) = ToSet(l) \cup {t} /\ NoRepeat(m)
      BY <3>1, InsertInFront
    <3> HIDE DEF m, r
    <3> QED BY <2>2, <3>2, <3>3, <3>4 DEF m
  <2> HIDE DEF r
  <2>7. ASSUME NEW i \in 1 .. Len(r), NEW j \in 1 .. Len(r), i < j
        PROVE  \/ left[r[i]] < left[r[j]]
               \/ left[r[i]] = left[r[j]] /\ Before(run2, r[i], r[j])
    <3>0. i \in Nat /\ j \in Nat /\ f \in Nat
      BY <1>1, <2>3, <2>6
    <3>1. CASE i = f
      <4>1. r[i] = t /\ j - 1 \in 1 .. Len(l) /\ r[j] = l[j - 1] /\ j - 1 >= f
        BY <1>1, <2>3, <2>6, <2>7, <3>0, <3>1
      <4> QED BY <1>3, <2>5, <4>1
    <3>2. CASE j = f
      <4>1. r[j] = t /\ i \in 1 .. Len(l) /\ r[i] = l[i] /\ i < f
        BY <1>1, <2>3, <2>6, <2>7, <3>0, <3>2
      <4> QED BY <1>2, <1>3, <2>4, <4>1
    <3>3. CASE i # f /\ j # f
      <4> DEFINE a == IF i < f THEN i ELSE i - 1
                 b == IF j < f THEN j ELSE j - 1
      <4>0. /\ Len(l) \in Nat /\ f \in 1 .. Len(l) /\ Len(r) = Len(l) + 1
            /\ i \in 1 .. Len(l) + 1 /\ j \in 1 .. Len(l) + 1
        BY <1>1, <2>3, <2>6
      <4>1. a \in 1 .. Len(l) /\ b \in 1 .. Len(l) /\ a < b
        BY <2>7, <3>3, <4>0
      <4>2. r[i] = l[a] /\ r[j] = l[b]
        BY <2>6, <3>3, <4>0
      <4> HIDE DEF a, b
      <4>3. \/ left[l[a]] < left[l[b]]
            \/ left[l[a]] = left[l[b]] /\ Before(run2, l[a], l[b])
        BY <1>4, <4>1
      <4> QED BY <4>2, <4>3
    <3> QED BY <3>1, <3>2, <3>3
  <2> QED BY <2>6, <2>7 DEF InOrder, r, run2
<1> QED BY <1>5, <1>6


-----------------------------------------------------------------------------
(* The sections of the timer functions *)

\* What every section keeps of the timers.
TimersOK(r, check) ==
  /\ r \in TimersType
  /\ NoRepeat(r.list) /\ NoRepeat(r.running)
  /\ ToSet(r.list) \subseteq ToSet(r.running) \cap r.live
  /\ \A t \in r.live : r.init_tick[t] \in Time
  /\ \A t \in ToSet(r.list) : /\ Apart(r.timeout_tick[t], rt_tick, r.left[t])
                              /\ InRange(r.left[t], check)
  /\ InOrder(r.list, r.left, r.running)

\* q is r but for what concerns the timer t.
OnlyAt(r, q, t) ==
  /\ q.live = r.live /\ q.init_tick = r.init_tick /\ q.periodic = r.periodic
  /\ \A u \in Timer \ {t} :
       /\ q.timeout_tick[u] = r.timeout_tick[u] /\ q.left[u] = r.left[u]
       /\ q.activated[u] = r.activated[u]
       /\ u \in ToSet(q.list) <=> u \in ToSet(r.list)
       /\ u \in ToSet(q.running) <=> u \in ToSet(r.running)

LEMMA RecordFields ==
  ASSUME NEW r \in TimersType
  PROVE  /\ r.live \in SUBSET Timer /\ r.list \in Seq(Timer)
         /\ r.timeout_tick \in [Timer -> Ticks]
         /\ r.init_tick \in [Timer -> Time \cup {0}]
         /\ r.periodic \in [Timer -> BOOLEAN] /\ r.activated \in [Timer -> BOOLEAN]
         /\ r.left \in [Timer -> Int] /\ r.running \in Seq(Timer)
BY DEF TimersType

\* q is r with t removed from the list, and from the started timers or not.
Dropped(r, q, t) ==
  /\ q \in TimersType /\ q.list = rt_list_remove(r.list, t)
  /\ q.running = r.running \/ q.running = rt_list_remove(r.running, t)
  /\ q.live = r.live /\ q.init_tick = r.init_tick /\ q.left = r.left
  /\ q.timeout_tick = r.timeout_tick /\ q.periodic = r.periodic
  /\ \A u \in Timer \ {t} : q.activated[u] = r.activated[u]

LEMMA DroppedOK ==
  ASSUME NEW check \in BOOLEAN, NEW r, TimersOK(r, check), NEW t \in Timer,
         NEW q, Dropped(r, q, t)
  PROVE  /\ TimersOK(q, check)
         /\ OnlyAt(r, q, t)
         /\ t \notin ToSet(q.list)
         /\ ToSet(q.running) = IF q.running = r.running THEN ToSet(r.running)
                               ELSE ToSet(r.running) \ {t}
<1>1. /\ r \in TimersType /\ NoRepeat(r.list) /\ NoRepeat(r.running)
      /\ InOrder(r.list, r.left, r.running)
      /\ r.list \in Seq(Timer) /\ r.running \in Seq(Timer)
  BY RecordFields DEF TimersOK
<1>2. ToSet(q.list) = ToSet(r.list) \ {t} /\ NoRepeat(q.list)
  BY <1>1, RemoveNode DEF Dropped
<1>3. /\ ToSet(rt_list_remove(r.running, t)) = ToSet(r.running) \ {t}
      /\ NoRepeat(rt_list_remove(r.running, t))
  BY <1>1, RemoveNode
<1>4. InOrder(q.list, q.left, q.running)
  BY <1>1, RemoveKeepsInOrder DEF Dropped
<1>5. /\ NoRepeat(q.running)
      /\ ToSet(q.running) = IF q.running = r.running THEN ToSet(r.running)
                            ELSE ToSet(r.running) \ {t}
  BY <1>1, <1>3 DEF Dropped
<1>6. TimersOK(q, check)
  BY <1>2, <1>4, <1>5 DEF TimersOK, Dropped
<1>7. OnlyAt(r, q, t)
  BY <1>2, <1>5 DEF OnlyAt, Dropped
<1> QED BY <1>2, <1>5, <1>6, <1>7

\* Sections that remove a timer.
LEMMA RemovalOK ==
  ASSUME NEW check \in BOOLEAN, NEW r, TimersOK(r, check), NEW t \in Timer
  PROVE  /\ \A q \in {Stopped(r, t), StopFirst(r, t), Deactivate(Stopped(r, t), t)} :
              /\ TimersOK(q, check) /\ OnlyAt(r, q, t)
              /\ t \notin ToSet(q.list) /\ t \notin ToSet(q.running)
         /\ Stopped(r, t).activated = r.activated
         /\ ~StopFirst(r, t).activated[t] /\ ~Deactivate(Stopped(r, t), t).activated[t]
         /\ LET q == Expired(r, t)
            IN  /\ TimersOK(q, check) /\ OnlyAt(r, q, t)
                /\ t \notin ToSet(q.list) /\ q.activated = r.activated
                /\ t \in ToSet(q.running) <=> t \in ToSet(r.running) /\ r.periodic[t]
<1>1. /\ r \in TimersType /\ NoRepeat(r.list) /\ NoRepeat(r.running)
      /\ r.list \in Seq(Timer) /\ r.running \in Seq(Timer)
      /\ r.activated \in [Timer -> BOOLEAN] /\ r.periodic \in [Timer -> BOOLEAN]
  BY RecordFields DEF TimersOK
<1> DEFINE l   == rt_list_remove(r.list, t)
           run == rt_list_remove(r.running, t)
<1>2. /\ l \in Seq(Timer) /\ run \in Seq(Timer)
      /\ ToSet(run) = ToSet(r.running) \ {t}
  BY <1>1, RemoveNode
<1> HIDE DEF l, run
<1>3. LET q == Stopped(r, t)
      IN  /\ q \in TimersType /\ q.list = l /\ q.running = run
          /\ q.live = r.live /\ q.init_tick = r.init_tick /\ q.left = r.left
          /\ q.timeout_tick = r.timeout_tick /\ q.periodic = r.periodic
          /\ q.activated = r.activated
  BY <1>1, <1>2 DEF Stopped, rt_timer_remove, TimersType, l, run
<1>4. LET q == Deactivate(Stopped(r, t), t)
      IN  /\ q \in TimersType /\ q.list = l /\ q.running = run
          /\ q.live = r.live /\ q.init_tick = r.init_tick /\ q.left = r.left
          /\ q.timeout_tick = r.timeout_tick /\ q.periodic = r.periodic
          /\ q.activated = [r.activated EXCEPT ![t] = FALSE]
  <2> DEFINE p == Stopped(r, t)
  <2>1. p \in TimersType /\ p.activated = r.activated
    BY <1>3
  <2> HIDE DEF p
  <2>2. LET q == Deactivate(p, t)
        IN  /\ q \in TimersType /\ q.list = p.list /\ q.running = p.running
            /\ q.live = p.live /\ q.init_tick = p.init_tick /\ q.left = p.left
            /\ q.timeout_tick = p.timeout_tick /\ q.periodic = p.periodic
            /\ q.activated = [p.activated EXCEPT ![t] = FALSE]
    BY <2>1 DEF Deactivate, TimersType
  <2> QED BY <1>3, <2>2 DEF p
<1>5. LET q == Expired(r, t)
      IN  /\ q \in TimersType /\ q.list = l
          /\ q.running = IF r.periodic[t] THEN r.running ELSE run
          /\ q.live = r.live /\ q.init_tick = r.init_tick /\ q.left = r.left
          /\ q.timeout_tick = r.timeout_tick /\ q.periodic = r.periodic
          /\ q.activated = r.activated
  BY <1>1, <1>2 DEF Expired, rt_timer_remove, TimersType, l, run
<1>6. ASSUME NEW q \in {Stopped(r, t), StopFirst(r, t), Deactivate(Stopped(r, t), t)}
      PROVE  /\ TimersOK(q, check) /\ OnlyAt(r, q, t)
             /\ t \notin ToSet(q.list) /\ t \notin ToSet(q.running)
  <2>1. /\ q \in TimersType /\ q.list = l /\ q.running = run
        /\ q.live = r.live /\ q.init_tick = r.init_tick /\ q.left = r.left
        /\ q.timeout_tick = r.timeout_tick /\ q.periodic = r.periodic
        /\ \A u \in Timer \ {t} : q.activated[u] = r.activated[u]
    BY <1>1, <1>3, <1>4 DEF StopFirst
  <2>2. Dropped(r, q, t)
    BY <2>1 DEF l, run, Dropped
  <2>3. TimersOK(q, check) /\ OnlyAt(r, q, t) /\ t \notin ToSet(q.list)
    BY <2>2, DroppedOK
  <2> QED BY <1>2, <2>1, <2>3
<1>7. LET q == Expired(r, t)
      IN  /\ TimersOK(q, check) /\ OnlyAt(r, q, t) /\ t \notin ToSet(q.list)
  <2> DEFINE q == Expired(r, t)
  <2>1. Dropped(r, q, t)
    BY <1>5 DEF l, run, Dropped
  <2> HIDE DEF q
  <2>2. TimersOK(q, check) /\ OnlyAt(r, q, t) /\ t \notin ToSet(q.list)
    BY <2>1, DroppedOK
  <2> QED BY <2>2 DEF q
<1>8. LET q == Expired(r, t)
      IN  t \in ToSet(q.running) <=> t \in ToSet(r.running) /\ r.periodic[t]
  BY <1>1, <1>2, <1>5
<1> QED BY <1>1, <1>3, <1>4, <1>5, <1>6, <1>7, <1>8 DEF StopFirst

LEMMA DeactivateOK ==
  ASSUME NEW check \in BOOLEAN, NEW r, TimersOK(r, check), NEW t \in Timer
  PROVE  LET q == Deactivate(r, t)
         IN  /\ TimersOK(q, check) /\ OnlyAt(r, q, t) /\ ~q.activated[t]
             /\ q.list = r.list /\ q.running = r.running
<1>1. r \in TimersType /\ r.activated \in [Timer -> BOOLEAN]
  BY RecordFields DEF TimersOK
<1> DEFINE q == Deactivate(r, t)
<1>2. /\ q \in TimersType /\ q.list = r.list /\ q.running = r.running
      /\ q.live = r.live /\ q.init_tick = r.init_tick /\ q.left = r.left
      /\ q.timeout_tick = r.timeout_tick /\ q.periodic = r.periodic
      /\ q.activated = [r.activated EXCEPT ![t] = FALSE]
  BY <1>1 DEF Deactivate, TimersType
<1> HIDE DEF q
<1>3. TimersOK(q, check)
  BY <1>2 DEF TimersOK
<1>4. OnlyAt(r, q, t) /\ ~q.activated[t]
  BY <1>1, <1>2 DEF OnlyAt
<1> QED BY <1>2, <1>3, <1>4 DEF q

\* timeout_tick is computed while the timer is not linked.
LEMMA SetTimeoutOK ==
  ASSUME NEW check \in BOOLEAN, NEW r, TimersOK(r, check), rt_tick \in Ticks,
         NEW t \in r.live, t \notin ToSet(r.list)
  PROVE  LET q == SetTimeout(r, t)
         IN  /\ TimersOK(q, check) /\ OnlyAt(r, q, t)
             /\ q.list = r.list /\ q.running = r.running /\ q.activated = r.activated
             /\ q.left[t] = r.init_tick[t] /\ q.left[t] \in Time
             /\ Apart(q.timeout_tick[t], rt_tick, q.left[t])
<1>1. /\ r \in TimersType /\ r.list \in Seq(Timer) /\ t \in Timer
      /\ r.timeout_tick \in [Timer -> Ticks] /\ r.left \in [Timer -> Int]
  BY RecordFields DEF TimersOK
<1>2. r.init_tick[t] \in Time /\ r.init_tick[t] \in Int
  BY TickNumbers DEF TimersOK
<1> DEFINE q    == SetTimeout(r, t)
           tick == (rt_tick + r.init_tick[t]) % (TickMax + 1)
<1>3. tick \in Ticks /\ Apart(tick, rt_tick, r.init_tick[t])
  BY <1>2, TimeoutIsApart DEF Round
<1>4. /\ q \in TimersType /\ q.list = r.list /\ q.running = r.running
      /\ q.live = r.live /\ q.init_tick = r.init_tick
      /\ q.periodic = r.periodic /\ q.activated = r.activated
      /\ q.timeout_tick = [r.timeout_tick EXCEPT ![t] = tick]
      /\ q.left = [r.left EXCEPT ![t] = r.init_tick[t]]
  <2> HIDE DEF tick
  <2>1. q = [r EXCEPT !.timeout_tick = [r.timeout_tick EXCEPT ![t] = tick],
                      !.left = [r.left EXCEPT ![t] = r.init_tick[t]]]
    BY <1>1 DEF SetTimeout, tick, TimersType
  <2> HIDE DEF q
  <2> QED BY <1>1, <1>2, <1>3, <2>1 DEF TimersType
<1> HIDE DEF q, tick
<1>5. \A u \in ToSet(r.list) : u \in Timer /\ u # t
  BY <1>1, NodesOfList
<1>6. \A u \in Timer \ {t} : /\ q.timeout_tick[u] = r.timeout_tick[u]
                             /\ q.left[u] = r.left[u]
  BY <1>1, <1>4
<1>7. InOrder(q.list, q.left, q.running)
  <2>1. \A i \in 1 .. Len(r.list) : r.list[i] \in ToSet(r.list)
    BY <1>1, NodesOfList
  <2>2. \A i \in 1 .. Len(r.list) : q.left[r.list[i]] = r.left[r.list[i]]
    BY <1>5, <1>6, <2>1
  <2> QED BY <1>4, <2>2 DEF TimersOK, InOrder
<1>8. TimersOK(q, check)
  BY <1>4, <1>5, <1>6, <1>7 DEF TimersOK
<1>9. OnlyAt(r, q, t)
  BY <1>4, <1>6 DEF OnlyAt
<1>10. q.timeout_tick[t] = tick /\ q.left[t] = r.init_tick[t]
  BY <1>1, <1>4
<1> QED BY <1>2, <1>3, <1>4, <1>8, <1>9, <1>10 DEF q

\* The second section of rt_timer_start finds the place by comparing timeouts.
LEMMA LinkOK ==
  ASSUME NEW check \in BOOLEAN, NEW r, TimersOK(r, check), rt_tick \in Ticks,
         NEW t \in r.live, t \notin ToSet(r.list),
         Apart(r.timeout_tick[t], rt_tick, r.left[t]), LinkRange(r.left[t], check)
  PROVE  LET q == Link(r, t)
         IN  /\ TimersOK(q, check) /\ OnlyAt(r, q, t)
             /\ t \in ToSet(q.list) /\ t \in ToSet(q.running) /\ q.activated[t]
<1>1. /\ r \in TimersType /\ r.list \in Seq(Timer) /\ t \in Timer
      /\ r.running \in Seq(Timer) /\ r.activated \in [Timer -> BOOLEAN]
      /\ r.timeout_tick \in [Timer -> Ticks] /\ r.left \in [Timer -> Int]
      /\ NoRepeat(r.list) /\ NoRepeat(r.running)
      /\ InOrder(r.list, r.left, r.running)
      /\ ToSet(r.list) \subseteq ToSet(r.running)
  BY RecordFields DEF TimersOK
<1> DEFINE q     == Link(r, t)
           l     == Inserted(r.list, r.left, t)
           run   == Append(rt_list_remove(r.running, t), t)
<1>2. Later(r, t) = {i \in DOMAIN r.list : r.left[r.list[i]] > r.left[t]}
  <2>1. ASSUME NEW i \in DOMAIN r.list
        PROVE  Minus(r.timeout_tick[r.list[i]], r.timeout_tick[t]) \in 1 .. Half - 1
               <=> r.left[r.list[i]] > r.left[t]
    <3>1. r.list[i] \in ToSet(r.list) /\ r.list[i] \in Timer
      BY <1>1, NodesOfList
    <3>2. /\ Apart(r.timeout_tick[r.list[i]], rt_tick, r.left[r.list[i]])
          /\ InRange(r.left[r.list[i]], check)
      BY <3>1 DEF TimersOK
    <3>3. r.timeout_tick[r.list[i]] \in Ticks /\ r.timeout_tick[t] \in Ticks
      BY <1>1, <3>1
    <3> QED BY <3>2, <3>3, LaterIsLonger
  <2> QED BY <2>1 DEF Later
<1>3. /\ l \in Seq(Timer) /\ NoRepeat(l) /\ ToSet(l) = ToSet(r.list) \cup {t}
      /\ InOrder(l, r.left, run)
  BY <1>1, InsertKeepsInOrder
<1>4. run \in Seq(Timer) /\ NoRepeat(run) /\ ToSet(run) = ToSet(r.running) \cup {t}
  <2> DEFINE rest == rt_list_remove(r.running, t)
  <2>1. /\ rest \in Seq(Timer) /\ ToSet(rest) = ToSet(r.running) \ {t}
        /\ NoRepeat(rest)
    BY <1>1, RemoveNode
  <2> HIDE DEF rest
  <2> DEFINE m == rt_list_insert_before(rest, t)
  <2>0. t \in Timer /\ t \notin ToSet(rest) /\ rest \in Seq(Timer) /\ NoRepeat(rest)
    BY <1>1, <2>1
  <2>2. m \in Seq(Timer)
    BY <2>0, InsertLast
  <2>3. ToSet(m) = ToSet(rest) \cup {t}
    BY <2>0, InsertLast
  <2>4. NoRepeat(m)
    BY <2>0, InsertLast
  <2>5. m = run
    BY DEF rest, rt_list_insert_before
  <2> HIDE DEF m, run
  <2> QED BY <1>1, <2>1, <2>2, <2>3, <2>4, <2>5
<1>5. /\ q \in TimersType /\ q.list = l /\ q.running = run
      /\ q.live = r.live /\ q.init_tick = r.init_tick
      /\ q.periodic = r.periodic /\ q.left = r.left
      /\ q.timeout_tick = r.timeout_tick
      /\ q.activated = [r.activated EXCEPT ![t] = TRUE]
  <2>1. q = [r EXCEPT !.list = l,
                      !.activated = [r.activated EXCEPT ![t] = TRUE],
                      !.running = run]
    BY <1>1, <1>2 DEF Link, Inserted, TimersType
  <2> HIDE DEF q, l, run
  <2> QED BY <1>1, <1>3, <1>4, <2>1 DEF TimersType
<1> HIDE DEF q, l, run
<1>6. InRange(r.left[t], check)
  BY LinkRangeInRange
<1>7. TimersOK(q, check)
  BY <1>3, <1>4, <1>5, <1>6 DEF TimersOK
<1>8. OnlyAt(r, q, t) /\ q.activated[t]
  BY <1>1, <1>3, <1>4, <1>5 DEF OnlyAt
<1> QED BY <1>3, <1>4, <1>5, <1>7, <1>8 DEF q


\* rt_timer_start and rt_timer_stop by a timeout function or rt_timer_check.
LEMMA StartOK ==
  ASSUME NEW r, TimersOK(r, TRUE), rt_tick \in Ticks, NEW t \in r.live
  PROVE  LET q == rt_timer_start(r, t)
         IN  /\ TimersOK(q, TRUE) /\ OnlyAt(r, q, t)
             /\ t \in ToSet(q.list) /\ t \in ToSet(q.running) /\ q.activated[t]
<1>0. t \in Timer
  BY RecordFields DEF TimersOK
<1> DEFINE a == StopFirst(r, t)
           b == SetTimeout(a, t)
           q == Link(b, t)
<1>1. TimersOK(a, TRUE) /\ OnlyAt(r, a, t) /\ t \notin ToSet(a.list)
  BY <1>0, RemovalOK
<1>2. t \in a.live
  BY <1>1 DEF OnlyAt
<1> HIDE DEF a
<1>3. /\ TimersOK(b, TRUE) /\ OnlyAt(a, b, t) /\ b.list = a.list
      /\ b.left[t] \in Time /\ Apart(b.timeout_tick[t], rt_tick, b.left[t])
  BY <1>1, <1>2, SetTimeoutOK
<1>4. t \in b.live /\ t \notin ToSet(b.list)
  BY <1>1, <1>2, <1>3 DEF OnlyAt
<1> HIDE DEF b
<1>5. LinkRange(b.left[t], TRUE)
  BY <1>3, TickNumbers DEF LinkRange
<1>6. /\ TimersOK(q, TRUE) /\ OnlyAt(b, q, t)
      /\ t \in ToSet(q.list) /\ t \in ToSet(q.running) /\ q.activated[t]
  BY <1>3, <1>4, <1>5, LinkOK
<1> HIDE DEF q
<1>7. OnlyAt(r, q, t)
  BY <1>1, <1>3, <1>6 DEF OnlyAt
<1> QED BY <1>6, <1>7 DEF rt_timer_start, a, b, q

LEMMA StopOK ==
  ASSUME NEW r, TimersOK(r, TRUE), NEW t \in Timer
  PROVE  LET q == rt_timer_stop(r, t)
         IN  /\ TimersOK(q, TRUE) /\ OnlyAt(r, q, t)
             /\ IF r.activated[t]
                THEN /\ t \notin ToSet(q.list) /\ t \notin ToSet(q.running)
                     /\ ~q.activated[t]
                ELSE q = r
<1>1. CASE r.activated[t]
  BY <1>1, RemovalOK DEF rt_timer_stop
<1>2. CASE ~r.activated[t]
  BY <1>2 DEF rt_timer_stop, OnlyAt
<1> QED BY <1>1, <1>2

-----------------------------------------------------------------------------
(* The invariant *)

\* A timer is in the list exactly when it is started, and is active then, and
\* a call for it that is interrupted has it or has removed it.
FitsIn(r, p, t) ==
  /\ t \in ToSet(r.running) <=> t \in ToSet(r.list)
  /\ t \in ToSet(r.list) => r.activated[t] /\ p[t] \in {"run", "remove"}
  /\ r.activated[t] /\ t \in r.live => t \in ToSet(r.list) \/ p[t] = "clear"
  /\ p[t] # "run" => t \in r.live /\ Owner[t] # Isr

\* A start that is interrupted before it links is late by at most the lag.
LinksIn(r, p, t) ==
  p[t] = "link" => /\ Apart(r.timeout_tick[t], rt_tick, r.left[t])
                   /\ r.left[t] <= r.init_tick[t]
                   /\ r.left[t] >= r.init_tick[t] - Lag

TimerInv ==
  /\ rt_tick \in Ticks /\ checking \in BOOLEAN /\ pc \in [Timer -> Label]
  /\ TimersOK(s, checking)
  /\ \A t \in Timer : FitsIn(s, pc, t) /\ LinksIn(s, pc, t)

LEMMA TimerInvImplies ==
  TimerInv => TypeOK /\ ListInOrder /\ RunningAreListed
<1> SUFFICES ASSUME TimerInv PROVE TypeOK /\ ListInOrder /\ RunningAreListed
  OBVIOUS
<1>1. /\ s \in TimersType /\ s.list \in Seq(Timer) /\ s.running \in Seq(Timer)
      /\ s.live \subseteq Timer /\ NoRepeat(s.running)
      /\ InOrder(s.list, s.left, s.running)
  BY RecordFields DEF TimerInv, TimersOK
<1>2. TypeOK
  BY <1>1 DEF TimerInv, TypeOK
<1>3. RunningAreListed
  BY <1>1 DEF TimerInv, FitsIn, RunningAreListed, Listed
<1>4. ListInOrder
  <2> SUFFICES ASSUME NEW i \in DOMAIN s.list, NEW j \in DOMAIN s.list, i < j
               PROVE  \/ s.left[s.list[i]] < s.left[s.list[j]]
                      \/ /\ s.left[s.list[i]] = s.left[s.list[j]]
                         /\ Position(s.running, s.list[i])
                              < Position(s.running, s.list[j])
    BY DEF ListInOrder
  <2>1. /\ i \in 1 .. Len(s.list) /\ j \in 1 .. Len(s.list)
        /\ DOMAIN s.running = 1 .. Len(s.running)
    BY <1>1, LenProperties
  <2>2. ASSUME Before(s.running, s.list[i], s.list[j])
        PROVE  Position(s.running, s.list[i]) < Position(s.running, s.list[j])
    <3>1. PICK a, b \in 1 .. Len(s.running) :
            a < b /\ s.running[a] = s.list[i] /\ s.running[b] = s.list[j]
      BY <2>2 DEF Before
    <3>2. \A n, m \in 1 .. Len(s.running) : s.running[n] = s.running[m] => n = m
      BY <1>1, <2>1 DEF NoRepeat
    <3>3. ASSUME NEW n \in 1 .. Len(s.running)
          PROVE  Position(s.running, s.running[n]) = n
      BY <2>1, <3>2 DEF Position
    <3> QED BY <3>1, <3>3
  <2> QED BY <1>1, <2>1, <2>2 DEF InOrder
<1> QED BY <1>2, <1>3, <1>4

\* What the check of the first timer says of the list.
LEMMA FirstTells ==
  ASSUME TimerInv, checking
  PROVE  /\ FirstIsDue => s.list # << >> /\ s.left[Head(s.list)] <= 0
         /\ ~FirstIsDue => \A t \in Listed : s.left[t] > 0
<1>1. /\ s \in TimersType /\ s.list \in Seq(Timer) /\ s.left \in [Timer -> Int]
      /\ s.timeout_tick \in [Timer -> Ticks] /\ rt_tick \in Ticks
      /\ InOrder(s.list, s.left, s.running) /\ TimersOK(s, TRUE)
  BY RecordFields DEF TimerInv, TimersOK
<1>2. CASE s.list = << >>
  <2>1. Listed = {}
    BY <1>1, <1>2, EmptyList DEF Listed
  <2> QED BY <1>2, <2>1 DEF FirstIsDue
<1>3. CASE s.list # << >>
  <2>1. /\ Head(s.list) = s.list[1] /\ 1 \in 1 .. Len(s.list)
        /\ s.list[1] \in ToSet(s.list) /\ s.list[1] \in Timer
    <3>1. Len(s.list) \in Nat \ {0}
      BY <1>1, <1>3, EmptySeq
    <3> QED BY <1>1, <1>3, <3>1, EmptyList
  <2>2. Due(Head(s.list)) <=> s.left[Head(s.list)] <= 0
    <3>1. /\ Apart(s.timeout_tick[s.list[1]], rt_tick, s.left[s.list[1]])
          /\ InRange(s.left[s.list[1]], TRUE)
          /\ s.timeout_tick[s.list[1]] \in Ticks
      BY <1>1, <2>1 DEF TimersOK
    <3> QED BY <1>1, <2>1, <3>1, DueIsOver DEF Due
  <2>3. ASSUME ~FirstIsDue, NEW t \in Listed
        PROVE  s.left[t] > 0
    <3>1. PICK i \in 1 .. Len(s.list) : s.list[i] = t
      BY <1>1, NodesOfList DEF Listed
    <3>2. s.left[s.list[1]] > 0 /\ s.left[s.list[1]] \in Int
      BY <1>1, <1>3, <2>1, <2>2, <2>3 DEF FirstIsDue
    <3>3. s.left[t] \in Int
      BY <1>1, <3>1, NodesOfList
    <3>4. CASE i = 1
      BY <3>1, <3>2, <3>4
    <3>5. CASE 1 < i
      BY <1>1, <2>1, <3>1, <3>2, <3>3, <3>5 DEF InOrder
    <3>6. i = 1 \/ 1 < i
      BY <3>1
    <3> QED BY <3>4, <3>5, <3>6
  <2> QED BY <1>3, <2>2, <2>3 DEF FirstIsDue
<1> QED BY <1>2, <1>3

LEMMA TimerInitInv == Init => TimerInv
<1> SUFFICES ASSUME Init PROVE TimerInv
  OBVIOUS
<1>1. /\ s.list = << >> /\ s.running = << >> /\ s.live = {}
      /\ s.activated = [t \in Timer |-> FALSE] /\ pc = [t \in Timer |-> "run"]
      /\ rt_tick \in Ticks /\ checking = FALSE
  BY DEF Init
<1>2. s \in TimersType
  <2>1. 0 \in Ticks /\ << >> \in Seq(Timer)
    BY TickNumbers DEF Ticks
  <2> QED BY <2>1 DEF Init, TimersType
<1>3. ToSet(s.list) = {} /\ ToSet(s.running) = {} /\ Len(s.list) = 0
  BY <1>1, EmptyList, EmptySeq
<1>4. NoRepeat(s.list) /\ NoRepeat(s.running)
  BY <1>1 DEF NoRepeat
<1>5. InOrder(s.list, s.left, s.running)
  BY <1>3 DEF InOrder
<1>6. TimersOK(s, checking)
  BY <1>1, <1>2, <1>3, <1>4, <1>5 DEF TimersOK
<1> QED BY <1>1, <1>3, <1>6 DEF TimerInv, FitsIn, LinksIn, Label

-----------------------------------------------------------------------------
(* The steps *)

\* q is r as far as the other timers are concerned.
Others(r, q, t) ==
  \A u \in Timer \ {t} :
    /\ u \in q.live <=> u \in r.live
    /\ q.init_tick[u] = r.init_tick[u] /\ q.periodic[u] = r.periodic[u]
    /\ q.timeout_tick[u] = r.timeout_tick[u] /\ q.left[u] = r.left[u]
    /\ q.activated[u] = r.activated[u]
    /\ u \in ToSet(q.list) <=> u \in ToSet(r.list)
    /\ u \in ToSet(q.running) <=> u \in ToSet(r.running)

LEMMA OnlyAtOthers ==
  \A r, q, t : OnlyAt(r, q, t) => Others(r, q, t)
BY DEF OnlyAt, Others

LEMMA OthersFit ==
  ASSUME NEW r, NEW q, NEW t, Others(r, q, t), NEW p, NEW p2,
         NEW u \in Timer \ {t}, p2[u] = p[u], FitsIn(r, p, u), LinksIn(r, p, u)
  PROVE  FitsIn(q, p2, u) /\ LinksIn(q, p2, u)
BY DEF Others, FitsIn, LinksIn

\* One section of a call for the timer t.
LEMMA CallKeepsInv ==
  ASSUME TimerInv, UNCHANGED <<rt_tick, checking>>, NEW t \in Timer,
         NEW label \in Label, pc' = [pc EXCEPT ![t] = label],
         TimersOK(s', checking), Others(s, s', t),
         FitsIn(s', pc', t), LinksIn(s', pc', t)
  PROVE  TimerInv'
<1>1. pc' \in [Timer -> Label] /\ pc'[t] = label /\ \A u \in Timer \ {t} : pc'[u] = pc[u]
  BY DEF TimerInv
<1>2. \A u \in Timer : FitsIn(s', pc', u) /\ LinksIn(s', pc', u)
  BY <1>1, OthersFit DEF TimerInv
<1>3. TimersOK(s, checking)'
  BY DEF TimersOK
<1>4. \A u \in Timer : FitsIn(s, pc, u)' /\ LinksIn(s, pc, u)'
  BY <1>2 DEF FitsIn, LinksIn
<1> QED BY <1>1, <1>3, <1>4 DEF TimerInv

\* A call begins where its owner is in no other, or goes on where it was.
LEMMA InCall ==
  ASSUME TimerInv, NEW t \in Timer
  PROVE  /\ s \in TimersType /\ s.list \in Seq(Timer)
         /\ s.live \subseteq Timer /\ s.activated \in [Timer -> BOOLEAN]
         /\ ToSet(s.list) \subseteq s.live
         /\ Free(t) => ~checking /\ pc[t] = "run"
         /\ \A label : At(t, label) => ~checking /\ pc[t] = label
         /\ FitsIn(s, pc, t) /\ LinksIn(s, pc, t)
         /\ \A label \in Label : [pc EXCEPT ![t] = label][t] = label
BY RecordFields DEF TimerInv, TimersOK, Free, At

LEMMA StartKeepsInv ==
  ASSUME TimerInv, NEW t \in Timer, StartFirst(t) \/ StartTick(t) \/ StartLink(t)
  PROVE  TimerInv'
<1>1. checking \in BOOLEAN /\ rt_tick \in Ticks /\ TimersOK(s, checking)
  BY DEF TimerInv
<1>2. CASE StartFirst(t)
  <2>1. t \in s.live /\ Owner[t] # Isr
    BY <1>2 DEF StartFirst, Callable
  <2> DEFINE q == StopFirst(s, t)
  <2>2. /\ TimersOK(q, checking) /\ OnlyAt(s, q, t)
        /\ t \notin ToSet(q.list) /\ t \notin ToSet(q.running) /\ ~q.activated[t]
    BY <1>1, RemovalOK
  <2>3. s' = q /\ pc' = [pc EXCEPT ![t] = "start"] /\ "start" \in Label
    BY <1>2 DEF StartFirst, Goto, Label
  <2> HIDE DEF q
  <2>4. pc'[t] = "start" /\ t \in q.live
    BY <2>1, <2>2, <2>3 DEF OnlyAt, TimerInv
  <2>5. FitsIn(q, pc', t) /\ LinksIn(q, pc', t)
    BY <2>1, <2>2, <2>4 DEF FitsIn, LinksIn
  <2>6. UNCHANGED <<rt_tick, checking>>
    BY <1>2 DEF StartFirst
  <2> QED BY <2>2, <2>3, <2>5, <2>6, OnlyAtOthers, CallKeepsInv
<1>3. CASE StartTick(t)
  <2>1. pc[t] = "start" /\ FitsIn(s, pc, t)
    BY <1>3, InCall DEF StartTick
  <2>2. t \in s.live /\ Owner[t] # Isr /\ t \notin ToSet(s.list)
    BY <2>1 DEF FitsIn
  <2> DEFINE q == SetTimeout(s, t)
  <2>3. /\ TimersOK(q, checking) /\ OnlyAt(s, q, t)
        /\ q.list = s.list /\ q.running = s.running /\ q.activated = s.activated
        /\ q.left[t] = s.init_tick[t] /\ q.left[t] \in Time
        /\ Apart(q.timeout_tick[t], rt_tick, q.left[t])
    BY <1>1, <2>2, SetTimeoutOK
  <2>4. s' = q /\ pc' = [pc EXCEPT ![t] = "link"] /\ "link" \in Label
    BY <1>3 DEF StartTick, Goto, Label
  <2> HIDE DEF q
  <2>5. pc'[t] = "link" /\ t \in q.live /\ q.init_tick = s.init_tick
    BY <2>2, <2>3, <2>4 DEF OnlyAt, TimerInv
  <2>6. FitsIn(q, pc', t)
    BY <2>1, <2>2, <2>3, <2>5 DEF FitsIn
  <2>7. LinksIn(q, pc', t)
    BY <2>3, <2>5, TickNumbers DEF LinksIn
  <2>8. UNCHANGED <<rt_tick, checking>>
    BY <1>3 DEF StartTick
  <2> QED BY <2>3, <2>4, <2>6, <2>7, <2>8, OnlyAtOthers, CallKeepsInv
<1>4. CASE StartLink(t)
  <2>1. pc[t] = "link" /\ ~checking /\ FitsIn(s, pc, t) /\ LinksIn(s, pc, t)
    BY <1>4, InCall DEF StartLink
  <2>2. /\ t \in s.live /\ Owner[t] # Isr /\ t \notin ToSet(s.list)
        /\ Apart(s.timeout_tick[t], rt_tick, s.left[t])
    BY <2>1 DEF FitsIn, LinksIn
  <2>3. LinkRange(s.left[t], checking)
    <3>1. s.init_tick[t] \in Time /\ s.left[t] \in Int
      BY <1>1, <2>2, RecordFields DEF TimersOK
    <3> QED BY <2>1, <3>1, TickNumbers DEF LinksIn, LinkRange
  <2> DEFINE q == Link(s, t)
  <2>4. /\ TimersOK(q, checking) /\ OnlyAt(s, q, t)
        /\ t \in ToSet(q.list) /\ t \in ToSet(q.running) /\ q.activated[t]
    BY <1>1, <2>2, <2>3, LinkOK
  <2>5. s' = q /\ pc' = [pc EXCEPT ![t] = "run"] /\ "run" \in Label
    BY <1>4 DEF StartLink, Goto, Label
  <2> HIDE DEF q
  <2>6. pc'[t] = "run"
    BY <2>5 DEF TimerInv
  <2>7. FitsIn(q, pc', t) /\ LinksIn(q, pc', t)
    BY <2>4, <2>6 DEF FitsIn, LinksIn
  <2>8. UNCHANGED <<rt_tick, checking>>
    BY <1>4 DEF StartLink
  <2> QED BY <2>4, <2>5, <2>7, <2>8, OnlyAtOthers, CallKeepsInv
<1> QED BY <1>2, <1>3, <1>4

LEMMA StopKeepsInv ==
  ASSUME TimerInv, NEW t \in Timer, StopTest(t) \/ StopRemove(t) \/ StopClear(t)
  PROVE  TimerInv'
<1>1. checking \in BOOLEAN /\ TimersOK(s, checking)
  BY DEF TimerInv
<1>2. CASE StopTest(t)
  <2>1. /\ t \in s.live /\ Owner[t] # Isr /\ s.activated[t] /\ pc[t] = "run"
        /\ FitsIn(s, pc, t)
    BY <1>2, InCall DEF StopTest, Callable
  <2>2. s' = s /\ pc' = [pc EXCEPT ![t] = "remove"] /\ "remove" \in Label
    BY <1>2 DEF StopTest, Goto, Label
  <2>3. pc'[t] = "remove"
    BY <2>2 DEF TimerInv
  <2>4. FitsIn(s', pc', t) /\ LinksIn(s', pc', t)
    BY <2>1, <2>2, <2>3 DEF FitsIn, LinksIn
  <2>5. UNCHANGED <<rt_tick, checking>> /\ Others(s, s', t) /\ TimersOK(s', checking)
    BY <1>1, <1>2, <2>2 DEF StopTest, Others
  <2> QED BY <2>2, <2>4, <2>5, CallKeepsInv
<1>3. CASE StopRemove(t)
  <2>1. pc[t] = "remove" /\ FitsIn(s, pc, t)
    BY <1>3, InCall DEF StopRemove
  <2>2. t \in s.live /\ Owner[t] # Isr
    BY <2>1 DEF FitsIn
  <2> DEFINE q == Stopped(s, t)
  <2>3. /\ TimersOK(q, checking) /\ OnlyAt(s, q, t)
        /\ t \notin ToSet(q.list) /\ t \notin ToSet(q.running)
    BY <1>1, RemovalOK
  <2>4. s' = q /\ pc' = [pc EXCEPT ![t] = "clear"] /\ "clear" \in Label
    BY <1>3 DEF StopRemove, Goto, Label
  <2> HIDE DEF q
  <2>5. pc'[t] = "clear" /\ t \in q.live
    BY <2>2, <2>3, <2>4 DEF OnlyAt, TimerInv
  <2>6. FitsIn(q, pc', t) /\ LinksIn(q, pc', t)
    BY <2>2, <2>3, <2>5 DEF FitsIn, LinksIn
  <2>7. UNCHANGED <<rt_tick, checking>>
    BY <1>3 DEF StopRemove
  <2> QED BY <2>3, <2>4, <2>6, <2>7, OnlyAtOthers, CallKeepsInv
<1>4. CASE StopClear(t)
  <2>1. pc[t] = "clear" /\ FitsIn(s, pc, t)
    BY <1>4, InCall DEF StopClear
  <2>2. t \notin ToSet(s.list) /\ t \notin ToSet(s.running)
    BY <2>1 DEF FitsIn
  <2> DEFINE q == Deactivate(s, t)
  <2>3. /\ TimersOK(q, checking) /\ OnlyAt(s, q, t) /\ ~q.activated[t]
        /\ q.list = s.list /\ q.running = s.running
    BY <1>1, DeactivateOK
  <2>4. s' = q /\ pc' = [pc EXCEPT ![t] = "run"] /\ "run" \in Label
    BY <1>4 DEF StopClear, Goto, Label
  <2> HIDE DEF q
  <2>5. pc'[t] = "run"
    BY <2>4 DEF TimerInv
  <2>6. FitsIn(q, pc', t) /\ LinksIn(q, pc', t)
    BY <2>2, <2>3, <2>5 DEF FitsIn, LinksIn
  <2>7. UNCHANGED <<rt_tick, checking>>
    BY <1>4 DEF StopClear
  <2> QED BY <2>3, <2>4, <2>6, <2>7, OnlyAtOthers, CallKeepsInv
<1> QED BY <1>2, <1>3, <1>4

\* rt_timer_init, rt_timer_detach and rt_timer_control are one section.
LEMMA OneSectionKeepsInv ==
  ASSUME TimerInv, NEW t \in Timer, UNCHANGED <<rt_tick, checking, pc>>, pc[t] = "run",
         TimersOK(s', checking), Others(s, s', t), FitsIn(s', pc, t)
  PROVE  TimerInv'
<1>1. "run" \in Label /\ pc' = [pc EXCEPT ![t] = "run"]
  BY DEF Label, TimerInv
<1>2. LinksIn(s', pc', t)
  BY DEF LinksIn
<1> QED BY <1>1, <1>2, CallKeepsInv

LEMMA InitKeepsInv ==
  ASSUME TimerInv, NEW t \in Timer, NEW time \in Time, NEW flag \in BOOLEAN,
         TimerInit(t, time, flag)
  PROVE  TimerInv'
<1>1. /\ t \notin s.live /\ t \notin ToSet(s.list) /\ pc[t] = "run"
      /\ t \notin ToSet(s.running) /\ s \in TimersType
      /\ UNCHANGED <<rt_tick, checking, pc>>
  BY InCall DEF TimerInit, FitsIn
<1>2. /\ s' \in TimersType /\ s'.list = s.list /\ s'.running = s.running
      /\ s'.left = s.left /\ s'.live = s.live \cup {t}
      /\ s'.init_tick = [s.init_tick EXCEPT ![t] = time]
      /\ s'.periodic = [s.periodic EXCEPT ![t] = flag]
      /\ s'.activated = [s.activated EXCEPT ![t] = FALSE]
      /\ s'.timeout_tick = [s.timeout_tick EXCEPT ![t] = 0]
  <2>1. 0 \in Ticks
    BY TickNumbers DEF Ticks
  <2>2. s' = [s EXCEPT !.live = s.live \cup {t},
                       !.init_tick = [s.init_tick EXCEPT ![t] = time],
                       !.periodic = [s.periodic EXCEPT ![t] = flag],
                       !.activated = [s.activated EXCEPT ![t] = FALSE],
                       !.timeout_tick = [s.timeout_tick EXCEPT ![t] = 0]]
    BY <1>1 DEF TimerInit, TimersType
  <2> QED BY <1>1, <2>1, <2>2 DEF TimersType
<1>3. Others(s, s', t)
  BY <1>1, <1>2, RecordFields DEF Others
<1>4. TimersOK(s', checking)
  <2>1. \A u \in s'.live : s'.init_tick[u] \in Time
    BY <1>1, <1>2, RecordFields DEF TimerInv, TimersOK
  <2>2. \A u \in ToSet(s'.list) : /\ u # t /\ u \in Timer
                                  /\ s'.timeout_tick[u] = s.timeout_tick[u]
    BY <1>1, <1>2, NodesOfList, RecordFields
  <2>3. \A u \in ToSet(s'.list) : /\ Apart(s'.timeout_tick[u], rt_tick, s'.left[u])
                                  /\ InRange(s'.left[u], checking)
    BY <1>2, <2>2 DEF TimerInv, TimersOK
  <2> QED BY <1>2, <2>1, <2>3 DEF TimerInv, TimersOK
<1>5. FitsIn(s', pc, t)
  BY <1>1, <1>2, RecordFields DEF FitsIn
<1> QED BY <1>1, <1>3, <1>4, <1>5, OneSectionKeepsInv

LEMMA DetachKeepsInv ==
  ASSUME TimerInv, NEW t \in Timer, Detach(t)
  PROVE  TimerInv'
<1>1. /\ pc[t] = "run" /\ UNCHANGED <<rt_tick, checking, pc>>
      /\ checking \in BOOLEAN /\ TimersOK(s, checking)
  BY InCall DEF TimerInv, Detach, Callable
<1> DEFINE q == Stopped(s, t)
<1>2. /\ TimersOK(q, checking) /\ OnlyAt(s, q, t)
      /\ t \notin ToSet(q.list) /\ t \notin ToSet(q.running)
  BY <1>1, RemovalOK
<1>3. s' = [q EXCEPT !.live = q.live \ {t}]
  <2>1. s' = [q EXCEPT !.live = @ \ {t}]
    BY DEF Detach
  <2> QED BY <2>1
<1> HIDE DEF q
<1>4. /\ s' \in TimersType /\ s'.list = q.list /\ s'.running = q.running
      /\ s'.left = q.left /\ s'.live = q.live \ {t} /\ s'.init_tick = q.init_tick
      /\ s'.periodic = q.periodic /\ s'.activated = q.activated
      /\ s'.timeout_tick = q.timeout_tick
  <2>1. q \in TimersType
    BY <1>2 DEF TimersOK
  <2> QED BY <1>3, <2>1 DEF TimersType
<1>5. TimersOK(s', checking)
  BY <1>2, <1>4 DEF TimersOK
<1>6. Others(s, s', t)
  BY <1>2, <1>4 DEF OnlyAt, Others
<1>7. FitsIn(s', pc, t)
  BY <1>1, <1>2, <1>4 DEF FitsIn
<1> QED BY <1>1, <1>5, <1>6, <1>7, OneSectionKeepsInv

LEMMA ControlKeepsInv ==
  ASSUME TimerInv, NEW t \in Timer, Control(t)
  PROVE  TimerInv'
<1>1. /\ pc[t] = "run" /\ UNCHANGED <<rt_tick, checking, pc>> /\ t \in s.live
      /\ s \in TimersType /\ FitsIn(s, pc, t)
  BY InCall DEF Control, Callable
<1>2. /\ s' \in TimersType /\ s'.list = s.list /\ s'.running = s.running
      /\ s'.left = s.left /\ s'.live = s.live /\ s'.activated = s.activated
      /\ s'.timeout_tick = s.timeout_tick
      /\ s'.init_tick = s.init_tick
           \/ \E time \in Time : s'.init_tick = [s.init_tick EXCEPT ![t] = time]
      /\ \A u \in Timer \ {t} : s'.periodic[u] = s.periodic[u]
  <2>1. CASE \E time \in Time : s' = [s EXCEPT !.init_tick[t] = time]
    <3>1. PICK time \in Time : s' = [s EXCEPT !.init_tick[t] = time]
      BY <2>1
    <3>2. s' = [s EXCEPT !.init_tick = [s.init_tick EXCEPT ![t] = time]]
      BY <1>1, <3>1 DEF TimersType
    <3> QED BY <1>1, <3>2 DEF TimersType
  <2>2. CASE \E flag \in BOOLEAN : s' = [s EXCEPT !.periodic[t] = flag]
    <3>1. PICK flag \in BOOLEAN : s' = [s EXCEPT !.periodic[t] = flag]
      BY <2>2
    <3>2. s' = [s EXCEPT !.periodic = [s.periodic EXCEPT ![t] = flag]]
      BY <1>1, <3>1 DEF TimersType
    <3> QED BY <1>1, <3>2 DEF TimersType
  <2> QED BY <2>1, <2>2 DEF Control
<1>3. /\ \A u \in Timer \ {t} : s'.init_tick[u] = s.init_tick[u]
      /\ \A u \in s'.live : s'.init_tick[u] \in Time
  BY <1>1, <1>2, RecordFields DEF TimerInv, TimersOK
<1>4. Others(s, s', t)
  BY <1>2, <1>3 DEF Others
<1>5. TimersOK(s', checking)
  BY <1>2, <1>3 DEF TimerInv, TimersOK
<1>6. FitsIn(s', pc, t)
  BY <1>1, <1>2 DEF FitsIn
<1> QED BY <1>1, <1>4, <1>5, <1>6, OneSectionKeepsInv

\* rt_tick_increase takes one from what every started timer has left.
LEMMA TickKeepsInv ==
  ASSUME TimerInv, Tick
  PROVE  TimerInv'
<1>1. /\ s \in TimersType /\ s.left \in [Timer -> Int] /\ s.list \in Seq(Timer)
      /\ s.timeout_tick \in [Timer -> Ticks]
      /\ rt_tick \in Ticks /\ TimersOK(s, FALSE)
      /\ ~checking /\ checking' = TRUE /\ pc' = pc
  BY RecordFields DEF TimerInv, TimersOK, Tick
<1>2. rt_tick' = (rt_tick + 1) % Round /\ rt_tick' \in Ticks
  <2>1. rt_tick' = (rt_tick + 1) % Round
    BY DEF Tick, Round
  <2>2. rt_tick + 1 \in Nat /\ Round \in Nat \ {0} /\ Round - 1 = TickMax
    BY <1>1, TickNumbers DEF Ticks, Round
  <2> QED BY <2>1, <2>2 DEF Ticks
<1> DEFINE new == [t \in Timer |-> IF t \in Listed \/ pc[t] = "link"
                                   THEN s.left[t] - 1 ELSE s.left[t]]
<1>3. /\ s' \in TimersType /\ s'.list = s.list /\ s'.running = s.running
      /\ s'.left = new /\ s'.live = s.live /\ s'.activated = s.activated
      /\ s'.timeout_tick = s.timeout_tick /\ s'.init_tick = s.init_tick
  <2>1. new \in [Timer -> Int]
    BY <1>1
  <2>2. s' = [s EXCEPT !.left = new]
    BY DEF Tick
  <2> HIDE DEF new
  <2> QED BY <1>1, <2>1, <2>2 DEF TimersType
<1>4. \A t \in Timer : t \in Listed \/ pc[t] = "link" => new[t] = s.left[t] - 1
  OBVIOUS
<1> HIDE DEF new
<1>5. ASSUME NEW t \in ToSet(s'.list)
      PROVE  Apart(s'.timeout_tick[t], rt_tick', s'.left[t]) /\ InRange(s'.left[t], TRUE)
  <2>1. /\ t \in Timer /\ Apart(s.timeout_tick[t], rt_tick, s.left[t])
        /\ InRange(s.left[t], FALSE) /\ s'.left[t] = s.left[t] - 1
    BY <1>1, <1>3, <1>4, NodesOfList DEF TimersOK, Listed
  <2>2. s.left[t] \in Int /\ s.left[t] < Half /\ s.left[t] > -Half
    BY <2>1, RangeBounds
  <2>3. Apart(s.timeout_tick[t], rt_tick', s.left[t] - 1)
    BY <1>1, <1>2, <2>1, <2>2, TickPasses
  <2>4. InRange(s.left[t] - 1, TRUE)
    BY <2>1, <2>2, TickNumbers DEF InRange
  <2> QED BY <1>3, <2>1, <2>3, <2>4
<1>6. InOrder(s'.list, s'.left, s'.running)
  <2>1. \A i \in 1 .. Len(s.list) :
          new[s.list[i]] = s.left[s.list[i]] - 1 /\ s.left[s.list[i]] \in Int
    BY <1>1, <1>4, NodesOfList DEF Listed
  <2>2. InOrder(s.list, new, s.running)
    <3>1. InOrder(s.list, s.left, s.running)
      BY <1>1 DEF TimersOK
    <3> QED BY <2>1, <3>1 DEF InOrder
  <2> QED BY <1>3, <2>2
<1>7. TimersOK(s, checking)'
  BY <1>1, <1>3, <1>5, <1>6 DEF TimersOK
<1>8. \A t \in Timer : FitsIn(s, pc, t)'
  BY <1>1, <1>3 DEF TimerInv, FitsIn
<1>9. ASSUME NEW t \in Timer, pc[t] = "link"
      PROVE  /\ Apart(s.timeout_tick[t], rt_tick', s'.left[t])
             /\ s'.left[t] <= s.init_tick[t] /\ s'.left[t] >= s.init_tick[t] - Lag
  <2>1. /\ Apart(s.timeout_tick[t], rt_tick, s.left[t])
        /\ s.left[t] <= s.init_tick[t] /\ s.left[t] >= s.init_tick[t] - Lag
        /\ s.init_tick[t] - s.left[t] < Lag /\ t \in s.live
    BY <1>9 DEF TimerInv, LinksIn, FitsIn, Tick
  <2>2. s.init_tick[t] \in Time /\ s.left[t] \in Int /\ s'.left[t] = s.left[t] - 1
    BY <1>1, <1>3, <1>4, <1>9, <2>1 DEF TimersOK
  <2>3. s.left[t] < Half /\ s.left[t] > -Half
    <3>1. s.init_tick[t] - s.init_tick[t] + Lag < Half /\ s.init_tick[t] < Half
          /\ s.init_tick[t] \in Nat /\ Lag \in Nat /\ Half \in Nat
          /\ 1 <= s.init_tick[t]
      BY <2>2, TickNumbers
    <3> QED BY <2>1, <2>2, <3>1
  <2>4. Apart(s.timeout_tick[t], rt_tick', s.left[t] - 1)
    BY <1>1, <1>2, <2>1, <2>2, <2>3, TickPasses
  <2> QED BY <2>1, <2>2, <2>4, TickNumbers
<1>10. \A t \in Timer : LinksIn(s, pc, t)'
  BY <1>1, <1>3, <1>9 DEF LinksIn
<1> QED BY <1>1, <1>2, <1>7, <1>8, <1>10 DEF TimerInv

\* rt_timer_check ends when no timer in the list is due.
LEMMA CheckEndKeepsInv ==
  ASSUME TimerInv, CheckEnd
  PROVE  TimerInv'
<1>1. /\ checking /\ checking' = FALSE /\ UNCHANGED <<rt_tick, s, pc>>
      /\ TimersOK(s, TRUE) /\ s \in TimersType /\ s.list \in Seq(Timer)
  BY RecordFields DEF TimerInv, TimersOK, CheckEnd
<1>2. \A t \in ToSet(s.list) : s.left[t] > 0
  BY <1>1, FirstTells DEF CheckEnd, Listed
<1>3. \A t \in ToSet(s.list) : InRange(s.left[t], FALSE)
  BY <1>1, <1>2 DEF TimersOK, InRange
<1>4. TimersOK(s, checking)'
  BY <1>1, <1>3 DEF TimersOK
<1>5. \A t \in Timer : FitsIn(s, pc, t)' /\ LinksIn(s, pc, t)'
  BY <1>1 DEF TimerInv, FitsIn, LinksIn
<1> QED BY <1>1, <1>4, <1>5 DEF TimerInv

\* While the timeout function of t runs, t is a started timer only if it is
\* periodic and active, and rt_timer_check will start it again.
InTurn(r, t) ==
  /\ TimersOK(r, TRUE)
  /\ \A u \in Timer \ {t} : FitsIn(r, pc, u) /\ LinksIn(r, pc, u)
  /\ t \in r.live /\ pc[t] \in {"run", "remove"} /\ (pc[t] # "run" => Owner[t] # Isr)
  /\ t \in ToSet(r.running) <=> r.periodic[t] /\ r.activated[t]
  /\ t \in ToSet(r.list) => r.periodic[t] /\ r.activated[t]

\* A stop or a start of the timer u in the timeout function of t.
LEMMA FunctionKeepsInTurn ==
  ASSUME NEW r, NEW t \in Timer, InTurn(r, t), rt_tick \in Ticks, ~RestartsOneShot,
         NEW u \in r.live, u = t \/ Owner[u] = Isr
  PROVE  /\ InTurn(rt_timer_stop(r, u), t)
         /\ (u = t => r.periodic[u]) => InTurn(rt_timer_start(r, u), t)
<1>0. u \in Timer /\ TimersOK(r, TRUE)
  BY RecordFields DEF InTurn, TimersOK
<1>1. u # t => pc[u] = "run"
  BY <1>0 DEF InTurn, FitsIn
<1>2. InTurn(rt_timer_stop(r, u), t)
  <2> DEFINE q == rt_timer_stop(r, u)
  <2>1. /\ TimersOK(q, TRUE) /\ OnlyAt(r, q, u)
        /\ IF r.activated[u]
           THEN u \notin ToSet(q.list) /\ u \notin ToSet(q.running) /\ ~q.activated[u]
           ELSE q = r
    BY <1>0, StopOK
  <2> HIDE DEF q
  <2>2. CASE ~r.activated[u]
    BY <2>1, <2>2 DEF q
  <2>3. CASE r.activated[u]
    <3>1. \A v \in Timer \ {u, t} : FitsIn(q, pc, v) /\ LinksIn(q, pc, v)
      BY <2>1, OnlyAtOthers, OthersFit DEF InTurn
    <3>2. u # t => FitsIn(q, pc, u) /\ LinksIn(q, pc, u)
      BY <1>1, <2>1, <2>3 DEF FitsIn, LinksIn
    <3>3. /\ t \in q.live
          /\ t \in ToSet(q.running) <=> q.periodic[t] /\ q.activated[t]
          /\ t \in ToSet(q.list) => q.periodic[t] /\ q.activated[t]
      BY <2>1, <2>3 DEF InTurn, OnlyAt
    <3> QED BY <2>1, <3>1, <3>2, <3>3 DEF InTurn, q
  <2> QED BY <2>2, <2>3
<1>3. ASSUME u = t => r.periodic[u]
      PROVE  InTurn(rt_timer_start(r, u), t)
  <2> DEFINE q == rt_timer_start(r, u)
  <2>1. /\ TimersOK(q, TRUE) /\ OnlyAt(r, q, u)
        /\ u \in ToSet(q.list) /\ u \in ToSet(q.running) /\ q.activated[u]
    BY <1>0, StartOK
  <2> HIDE DEF q
  <2>2. \A v \in Timer \ {u, t} : FitsIn(q, pc, v) /\ LinksIn(q, pc, v)
    BY <2>1, OnlyAtOthers, OthersFit DEF InTurn
  <2>3. u # t => FitsIn(q, pc, u) /\ LinksIn(q, pc, u)
    BY <1>1, <2>1 DEF FitsIn, LinksIn
  <2>4. /\ t \in q.live
        /\ t \in ToSet(q.running) <=> q.periodic[t] /\ q.activated[t]
        /\ t \in ToSet(q.list) => q.periodic[t] /\ q.activated[t]
    BY <1>3, <2>1 DEF InTurn, OnlyAt
  <2> QED BY <2>1, <2>2, <2>3, <2>4 DEF InTurn, q
<1> QED BY <1>2, <1>3

\* One turn of rt_timer_check: the timeout function, and the timer again.
LEMMA TurnKeepsInv ==
  ASSUME TimerInv, CheckTurn, ~RestartsOneShot
  PROVE  TimerInv'
<1> DEFINE t == Head(s.list)
<1>1. /\ checking = TRUE /\ TimersOK(s, TRUE) /\ rt_tick \in Ticks /\ s.list # << >>
      /\ UNCHANGED <<rt_tick, checking, pc>>
  BY DEF TimerInv, CheckTurn, FirstIsDue
<1>2. t \in ToSet(s.list) /\ t \in Timer
  <2>1. s.list \in Seq(Timer)
    BY <1>1, RecordFields DEF TimersOK
  <2> QED BY <1>1, <2>1, EmptyList, EmptySeq
<1>3. PICK r \in TimeoutFunction(Expired(s, t), t) : s' = Restart(r, t)
  BY DEF CheckTurn
<1> HIDE DEF t
<1>4. InTurn(Expired(s, t), t)
  <2> DEFINE q == Expired(s, t)
  <2>1. /\ TimersOK(q, TRUE) /\ OnlyAt(s, q, t)
        /\ t \notin ToSet(q.list) /\ q.activated = s.activated
        /\ t \in ToSet(q.running) <=> t \in ToSet(s.running) /\ s.periodic[t]
    BY <1>1, <1>2, RemovalOK
  <2> HIDE DEF q
  <2>2. \A u \in Timer \ {t} : FitsIn(q, pc, u) /\ LinksIn(q, pc, u)
    BY <2>1, OnlyAtOthers, OthersFit DEF TimerInv
  <2>3. FitsIn(s, pc, t) /\ t \in s.live
    BY <1>1, <1>2 DEF TimerInv, TimersOK
  <2>4. /\ t \in q.live /\ pc[t] \in {"run", "remove"}
        /\ (pc[t] # "run" => Owner[t] # Isr)
        /\ t \in ToSet(q.running) <=> q.periodic[t] /\ q.activated[t]
    BY <1>2, <2>1, <2>3 DEF FitsIn, OnlyAt
  <2> QED BY <2>1, <2>2, <2>4 DEF InTurn, q
<1>5. InTurn(r, t)
  <2> DEFINE a == Expired(s, t)
  <2>1. InTurn(a, t)
    BY <1>4
  <2>2. r \in TimeoutFunction(a, t)
    BY <1>3
  <2> HIDE DEF a
  <2> QED BY <1>1, <1>2, <2>1, <2>2, FunctionKeepsInTurn DEF TimeoutFunction
<1>6. /\ TimersOK(s', TRUE) /\ OnlyAt(r, s', t)
      /\ FitsIn(s', pc, t) /\ LinksIn(s', pc, t)
  <2> DEFINE a == Deactivate(r, t)
             b == rt_timer_start(a, t)
  <2>1. /\ TimersOK(a, TRUE) /\ OnlyAt(r, a, t) /\ ~a.activated[t]
        /\ a.list = r.list /\ a.running = r.running
    BY <1>2, <1>5, DeactivateOK DEF InTurn
  <2>2. CASE ~(r.periodic[t] /\ r.activated[t])
    <3>1. s' = a
      BY <1>3, <2>2 DEF Restart
    <3> HIDE DEF a
    <3>2. t \notin ToSet(a.list) /\ t \notin ToSet(a.running)
      BY <1>5, <2>1, <2>2 DEF InTurn
    <3>3. FitsIn(a, pc, t) /\ LinksIn(a, pc, t)
      BY <1>5, <2>1, <3>2 DEF InTurn, FitsIn, LinksIn, OnlyAt
    <3> QED BY <2>1, <3>1, <3>3
  <2>3. CASE r.periodic[t] /\ r.activated[t]
    <3>1. s' = b
      BY <1>3, <2>3 DEF Restart
    <3> HIDE DEF a
    <3>2. t \in a.live
      BY <1>5, <2>1 DEF InTurn, OnlyAt
    <3>3. /\ TimersOK(b, TRUE) /\ OnlyAt(a, b, t)
          /\ t \in ToSet(b.list) /\ t \in ToSet(b.running) /\ b.activated[t]
      BY <1>1, <2>1, <3>2, StartOK
    <3> HIDE DEF b
    <3>4. OnlyAt(r, b, t)
      BY <2>1, <3>3 DEF OnlyAt
    <3>5. FitsIn(b, pc, t) /\ LinksIn(b, pc, t)
      BY <1>5, <3>2, <3>3 DEF InTurn, FitsIn, LinksIn, OnlyAt
    <3> QED BY <3>1, <3>3, <3>4, <3>5
  <2> QED BY <2>2, <2>3
<1>7. \A u \in Timer : FitsIn(s', pc, u) /\ LinksIn(s', pc, u)
  <2>1. \A u \in Timer \ {t} : FitsIn(s', pc, u) /\ LinksIn(s', pc, u)
    BY <1>5, <1>6, OnlyAtOthers, OthersFit DEF InTurn
  <2> QED BY <1>6, <2>1
<1>8. TimersOK(s, checking)'
  BY <1>1, <1>6 DEF TimersOK
<1>9. \A u \in Timer : FitsIn(s, pc, u)' /\ LinksIn(s, pc, u)'
  BY <1>1, <1>7 DEF FitsIn, LinksIn
<1> QED BY <1>1, <1>8, <1>9 DEF TimerInv

-----------------------------------------------------------------------------
(* The theorems *)

LEMMA TimerNextInv ==
  ASSUME TimerInv, [Next]_vars, ~RestartsOneShot
  PROVE  TimerInv'
<1>1. CASE \E t \in Timer : \E time \in Time, flag \in BOOLEAN : TimerInit(t, time, flag)
  BY <1>1, InitKeepsInv
<1>2. CASE \E t \in Timer : StartFirst(t) \/ StartTick(t) \/ StartLink(t)
  BY <1>2, StartKeepsInv
<1>3. CASE \E t \in Timer : StopTest(t) \/ StopRemove(t) \/ StopClear(t)
  BY <1>3, StopKeepsInv
<1>4. CASE \E t \in Timer : Detach(t) \/ Control(t)
  BY <1>4, DetachKeepsInv, ControlKeepsInv
<1>5. CASE Tick \/ CheckTurn \/ CheckEnd
  BY <1>5, TickKeepsInv, TurnKeepsInv, CheckEndKeepsInv
<1>6. CASE UNCHANGED vars
  <2>1. UNCHANGED <<rt_tick, s, checking, pc>>
    BY <1>6 DEF vars
  <2> QED BY <2>1 DEF TimerInv, TimersOK, FitsIn, LinksIn
<1> QED BY <1>1, <1>2, <1>3, <1>4, <1>5, <1>6 DEF Next

\* In every reachable state the list, the flags and the calls that are
\* interrupted agree, wherever the clock interrupt comes between the sections
\* of rt_timer_start and rt_timer_stop; unless a one-shot timer is started by
\* its own timeout function, whose flag rt_timer_check clears afterwards
\* (timer.c:535).
THEOREM TimerInvariance ==
  ASSUME ~RestartsOneShot
  PROVE  Spec => [](TypeOK /\ TimerInv)
<1>1. Init => TimerInv
  BY TimerInitInv
<1>2. TimerInv /\ [Next]_vars => TimerInv'
  BY TimerNextInv
<1>3. TimerInv => TypeOK
  BY TimerInvImplies
<1> QED BY <1>1, <1>2, <1>3, PTL DEF Spec

\* rt_timer_list is in the order of the real times and, for equal times, of
\* the starts, across any wrap of the tick.
THEOREM TimerListInOrder ==
  ASSUME ~RestartsOneShot
  PROVE  Spec => []ListInOrder
<1>1. TimerInv => ListInOrder
  BY TimerInvImplies
<1> QED BY <1>1, TimerInvariance, PTL

\* A started timer is in the list and ACTIVATED, and only such a timer.
THEOREM TimerRunningAreListed ==
  ASSUME ~RestartsOneShot
  PROVE  Spec => []RunningAreListed
<1>1. TimerInv => RunningAreListed
  BY TimerInvImplies
<1> QED BY <1>1, TimerInvariance, PTL

\* No timeout function is called early, and rt_timer_check leaves none that is
\* due.
THEOREM TimerOnTime ==
  ASSUME ~RestartsOneShot
  PROVE  Spec => OnTime
<1> DEFINE A == checking => IF checking' THEN s.left[Head(s.list)] <= 0
                            ELSE \A t \in Listed : s.left[t] > 0
<1>1. TimerInv /\ [Next]_vars => [A]_vars
  <2> SUFFICES ASSUME TimerInv, Next, checking PROVE A
    OBVIOUS
  <2>1. CheckTurn \/ CheckEnd
    BY DEF Next, TimerInit, StartFirst, StartTick, StartLink, StopTest, StopRemove,
           StopClear, Detach, Control, Tick, Callable, Free, At
  <2>2. CASE CheckTurn
    <3>1. checking' /\ FirstIsDue
      BY <2>2 DEF CheckTurn
    <3> QED BY <3>1, FirstTells
  <2>3. CASE CheckEnd
    <3>1. ~checking' /\ ~FirstIsDue
      BY <2>3 DEF CheckEnd
    <3> QED BY <3>1, FirstTells
  <2> QED BY <2>1, <2>2, <2>3
<1>2. Spec => [][A]_vars
  BY <1>1, TimerInvariance, PTL DEF Spec
<1> QED BY <1>2 DEF OnTime

-----------------------------------------------------------------------------
(* The heap *)

LEMMA FirstIs ==
  ASSUME NEW P, P \subseteq Nat, NEW n \in P, \A q \in P : n <= q
  PROVE  First(P) = n
<1>1. \A m \in P : (\A q \in P : m <= q) => m = n
  OBVIOUS
<1> QED BY <1>1 DEF First

LEMMA FirstIsLeast ==
  ASSUME NEW P, P \subseteq Nat, P # {}
  PROVE  First(P) \in P /\ \A q \in P : First(P) <= q
<1>1. \E p \in P : \A q \in P : p <= q
  BY NaturalMinimum
<1> QED BY <1>1 DEF First

MemHeader == [used : BOOLEAN, next : 1 .. heap_end, prev : 0 .. heap_end]

\* The header behind p is the next one of the chain.
Followed(h, p) ==
  /\ h[p].next \in DOMAIN h /\ p + Header <= h[p].next
  /\ \A q \in DOMAIN h : q <= p \/ h[p].next <= q
  /\ h[p].next # heap_end => h[h[p].next].prev = p

\* And the one in front of it the previous one.
Preceded(h, p) ==
  h[p].prev \in DOMAIN h \ {heap_end} /\ h[h[p].prev].next = p

HeapChain(h) ==
  /\ h \in [DOMAIN h -> MemHeader]
  /\ DOMAIN h \subseteq 0 .. heap_end /\ 0 \in DOMAIN h /\ heap_end \in DOMAIN h
  /\ h[heap_end].used /\ h[heap_end].next = heap_end /\ h[0].prev = 0
  /\ \A p \in DOMAIN h \ {heap_end} : Followed(h, p)
  /\ \A p \in DOMAIN h \ {0, heap_end} : Preceded(h, p)

LEMMA HeapNumbers ==
  /\ heap_end \in Nat \ {0} /\ Header \in Nat \ {0} /\ MinSize \in Nat \ {0}
  /\ mem_size \in Nat /\ heap_end = mem_size + Header
BY SmallMemType DEF heap_end

\* Addresses are numbers, and grow along the chain.
LEMMA ChainNumbers ==
  ASSUME NEW h, HeapChain(h), NEW p \in DOMAIN h
  PROVE  /\ p \in Nat /\ p <= heap_end /\ h[p] \in MemHeader
         /\ h[p].used \in BOOLEAN /\ h[p].next \in Nat /\ h[p].prev \in Nat
         /\ p # heap_end => p < h[p].next /\ h[p].next <= heap_end /\ p < heap_end
<1>1. p \in 0 .. heap_end /\ h[p] \in MemHeader
  BY DEF HeapChain
<1>2. h[p].used \in BOOLEAN /\ h[p].next \in 1 .. heap_end /\ h[p].prev \in 0 .. heap_end
  BY <1>1 DEF MemHeader
<1>3. p # heap_end => p + Header <= h[p].next
  BY DEF HeapChain, Followed
<1> QED BY <1>1, <1>2, <1>3, HeapNumbers

\* The block at p of h is used or free in j.
Marked(h, j, p, b) ==
  /\ DOMAIN j = DOMAIN h /\ j[p].used = b
  /\ \A q \in DOMAIN h : j[q].next = h[q].next /\ (q # p => j[q].used = h[q].used)

LEMMA MarkKeepsChain ==
  ASSUME NEW h, HeapChain(h), NEW p \in DOMAIN h \ {heap_end}, NEW b \in BOOLEAN,
         NEW j, j = [h EXCEPT ![p].used = b]
  PROVE  HeapChain(j) /\ Marked(h, j, p, b)
<1>1. h \in [DOMAIN h -> MemHeader] /\ h[p] \in MemHeader
  BY DEF HeapChain
<1>2. DOMAIN j = DOMAIN h /\ j = [h EXCEPT ![p] = [h[p] EXCEPT !.used = b]]
  OBVIOUS
<1>3. PICK r : r = [h[p] EXCEPT !.used = b]
  OBVIOUS
<1>4. r \in MemHeader /\ r.used = b /\ r.next = h[p].next /\ r.prev = h[p].prev
  BY <1>1, <1>3 DEF MemHeader
<1>5. j[p] = r /\ \A q \in DOMAIN h : q # p => j[q] = h[q]
  BY <1>1, <1>2, <1>3
<1>6. \A q \in DOMAIN h : /\ j[q].next = h[q].next /\ j[q].prev = h[q].prev
                          /\ q # p => j[q].used = h[q].used
  BY <1>4, <1>5
<1>7. j \in [DOMAIN j -> MemHeader]
  BY <1>1, <1>2, <1>3, <1>4
<1>8. \A q \in DOMAIN j \ {heap_end} : Followed(j, q)
  BY <1>2, <1>6 DEF HeapChain, Followed
<1>9. \A q \in DOMAIN j \ {0, heap_end} : Preceded(j, q)
  BY <1>2, <1>6 DEF HeapChain, Preceded
<1> QED BY <1>2, <1>4, <1>5, <1>6, <1>7, <1>8, <1>9 DEF HeapChain, Marked

\* The heap j is h with the free block at rest cut off behind p.
SplitAt(h, j, p, rest) ==
  /\ DOMAIN j = DOMAIN h \cup {rest} /\ rest \notin DOMAIN h
  /\ ~j[rest].used /\ j[rest].next = h[p].next
  /\ \A q \in DOMAIN h : /\ j[q].used = h[q].used
                         /\ j[q].next = IF q = p THEN rest ELSE h[q].next

LEMMA SplitKeepsChain ==
  ASSUME NEW h, HeapChain(h), NEW p \in DOMAIN h \ {heap_end}, NEW size \in Nat,
         NEW rest, rest = p + Header + size, rest + Header <= h[p].next,
         NEW j, j = Split(h, p, size)
  PROVE  HeapChain(j) /\ SplitAt(h, j, p, rest)
<1> DEFINE D == DOMAIN h
           after == h[p].next
<1>1. /\ p \in Nat /\ p < after /\ after <= heap_end /\ p < heap_end
      /\ rest \in Nat /\ p < rest /\ rest < after /\ rest # heap_end /\ rest # 0
      /\ rest \in 0 .. heap_end /\ rest \in 1 .. heap_end
      /\ after \in Nat /\ heap_end \in Nat
  BY ChainNumbers, HeapNumbers
<1>2. /\ h \in [D -> MemHeader] /\ D \subseteq 0 .. heap_end
      /\ 0 \in D /\ heap_end \in D /\ after \in D
      /\ h[heap_end].used /\ h[heap_end].next = heap_end /\ h[0].prev = 0
      /\ p + Header <= after
      /\ \A q \in D : q <= p \/ after <= q
      /\ after # heap_end => h[after].prev = p
  BY DEF HeapChain, Followed
<1>3. rest \notin D
  <2>1. ~(rest <= p \/ after <= rest)
    BY <1>1
  <2> QED BY <1>2, <2>1
<1> DEFINE new == [used |-> FALSE, next |-> after, prev |-> p]
           F(q) == CASE q = rest -> new
                     [] q = p -> [h[p] EXCEPT !.next = rest]
                     [] q = after /\ q # heap_end -> [h[q] EXCEPT !.prev = rest]
                     [] OTHER -> h[q]
<1>4. j = [q \in D \cup {rest} |-> F(q)]
  BY DEF Split
<1>5. j[rest] = new
  <2>1. rest # p /\ rest # after
    BY <1>1
  <2>2. F(rest) = new
    BY <2>1
  <2> QED BY <1>4, <2>2
<1>6. j[p] = [h[p] EXCEPT !.next = rest] /\ p # rest /\ p # after
  BY <1>1, <1>4
<1>7. after # heap_end => j[after] = [h[after] EXCEPT !.prev = rest]
  BY <1>1, <1>2, <1>4
<1>8. \A q \in D : q # p /\ ~(q = after /\ q # heap_end) => j[q] = h[q]
  BY <1>3, <1>4
<1>9. DOMAIN j = D \cup {rest}
  BY <1>4
<1> HIDE DEF F, D, after
<1>10. /\ new \in MemHeader /\ ~new.used /\ new.next = after /\ new.prev = p
  <2>1. after \in 1 .. heap_end /\ p \in 0 .. heap_end
    BY <1>1
  <2> QED BY <2>1 DEF MemHeader
<1> HIDE DEF new
<1>11. /\ j[p] \in MemHeader /\ j[p].used = h[p].used /\ j[p].next = rest
       /\ j[p].prev = h[p].prev
  <2>1. h[p] \in MemHeader
    BY <1>2 DEF D
  <2> QED BY <1>1, <1>6, <2>1 DEF MemHeader
<1>12. after # heap_end =>
         /\ j[after] \in MemHeader /\ j[after].used = h[after].used
         /\ j[after].next = h[after].next /\ j[after].prev = rest
  <2>1. h[after] \in MemHeader
    BY <1>2
  <2> QED BY <1>1, <1>7, <2>1 DEF MemHeader
<1>13. \A q \in D : /\ j[q] \in MemHeader /\ j[q].used = h[q].used
                    /\ j[q].next = IF q = p THEN rest ELSE h[q].next
                    /\ j[q].prev = IF q = after /\ q # heap_end THEN rest ELSE h[q].prev
  <2> TAKE q \in D
  <2>1. CASE q = p
    BY <1>6, <1>11, <2>1
  <2>2. CASE q = after /\ q # heap_end
    BY <1>6, <1>12, <2>2
  <2>3. CASE q # p /\ ~(q = after /\ q # heap_end)
    BY <1>2, <1>8, <2>3
  <2> QED BY <2>1, <2>2, <2>3
<1>14. /\ ~j[rest].used /\ j[rest].next = after /\ j[rest].prev = p
       /\ j[rest] \in MemHeader
  BY <1>5, <1>10
<1>15. SplitAt(h, j, p, rest)
  BY <1>3, <1>9, <1>13, <1>14 DEF SplitAt, D, after
<1>16. j \in [DOMAIN j -> MemHeader]
  <2>1. \A q \in DOMAIN j : j[q] \in MemHeader
    BY <1>9, <1>13, <1>14
  <2>2. j = [q \in DOMAIN j |-> j[q]]
    BY <1>4
  <2> QED BY <2>1, <2>2
<1>17. p \in D /\ D \subseteq Nat
  BY <1>2 DEF D
<1>18. ASSUME NEW q \in DOMAIN j \ {heap_end}
       PROVE  Followed(j, q)
  <2>1. CASE q = p
    <3>1. j[q].next = rest /\ rest \in DOMAIN j /\ q + Header <= rest
      BY <1>1, <1>9, <1>11, <2>1, HeapNumbers
    <3>2. ASSUME NEW x \in DOMAIN j
          PROVE  x <= p \/ rest <= x
      <4>1. CASE x = rest
        BY <1>1, <4>1
      <4>2. CASE x # rest
        <5>1. x \in D /\ x \in Nat
          BY <1>9, <1>17, <4>2
        <5>2. x <= p \/ after <= x
          BY <1>2, <5>1
        <5> QED BY <1>1, <5>1, <5>2
      <4> QED BY <4>1, <4>2
    <3> QED BY <1>14, <2>1, <3>1, <3>2 DEF Followed
  <2>2. CASE q = rest
    <3>1. j[q].next = after /\ after \in DOMAIN j /\ q + Header <= after
      BY <1>2, <1>9, <1>14, <2>2 DEF after
    <3>2. ASSUME NEW x \in DOMAIN j
          PROVE  x <= rest \/ after <= x
      <4>1. CASE x = rest
        BY <1>1, <4>1
      <4>2. CASE x # rest
        <5>1. x \in D /\ x \in Nat
          BY <1>9, <1>17, <4>2
        <5>2. x <= p \/ after <= x
          BY <1>2, <5>1
        <5> QED BY <1>1, <5>1, <5>2
      <4> QED BY <4>1, <4>2
    <3>3. after # heap_end => j[after].prev = rest
      BY <1>12
    <3> QED BY <2>2, <3>1, <3>2, <3>3 DEF Followed
  <2>3. CASE q # p /\ q # rest
    <3>1. q \in D /\ q # heap_end /\ j[q].next = h[q].next
      BY <1>9, <1>13, <2>3
    <3>2. Followed(h, q)
      BY <3>1 DEF HeapChain, D
    <3>3. h[q].next \in D /\ q + Header <= h[q].next
      BY <3>2 DEF Followed, D
    <3>4. \A x \in D : x <= q \/ h[q].next <= x
      BY <3>2 DEF Followed, D
    <3>5. rest <= q \/ h[q].next <= rest
      <4>1. q <= p \/ after <= q
        BY <1>2, <3>1
      <4>2. p <= q \/ h[q].next <= p
        BY <1>17, <3>4, <2>3, <3>1
      <4>3. p \in Nat /\ q \in Nat /\ after \in Nat /\ h[q].next \in Nat
        BY <1>2, <1>17, <3>1, <3>3
      <4> HIDE DEF after
      <4> QED BY <1>1, <2>3, <4>1, <4>2, <4>3
    <3>6. h[q].next # heap_end => j[h[q].next].prev = q
      <4>1. SUFFICES ASSUME h[q].next # heap_end PROVE j[h[q].next].prev = q
        OBVIOUS
      <4>2. h[h[q].next].prev = q
        BY <3>2, <4>1 DEF Followed
      <4>3. h[q].next # after
        BY <1>2, <2>3, <4>1, <4>2
      <4> QED BY <1>13, <3>3, <4>2, <4>3
    <3> QED BY <1>9, <3>1, <3>3, <3>4, <3>5, <3>6 DEF Followed
  <2> QED BY <2>1, <2>2, <2>3
<1>19. ASSUME NEW q \in DOMAIN j \ {0, heap_end}
       PROVE  Preceded(j, q)
  <2>1. CASE q = rest
    BY <1>1, <1>9, <1>11, <1>14, <1>17, <2>1 DEF Preceded
  <2>2. CASE q = after
    <3>1. j[q].prev = rest
      BY <1>12, <2>2
    <3> QED BY <1>1, <1>9, <1>14, <2>2, <3>1 DEF Preceded
  <2>3. CASE q # rest /\ q # after
    <3>1. q \in D /\ q \notin {0, heap_end} /\ j[q].prev = h[q].prev
      BY <1>9, <1>13, <2>3
    <3>2. Preceded(h, q)
      BY <3>1 DEF HeapChain, D
    <3>3. h[q].prev \in D \ {heap_end} /\ h[h[q].prev].next = q
      BY <3>2 DEF Preceded, D
    <3>4. h[q].prev # p
      BY <2>3, <3>3 DEF after
    <3> QED BY <1>9, <1>13, <3>1, <3>3, <3>4 DEF Preceded
  <2> QED BY <2>1, <2>2, <2>3
<1>20. /\ DOMAIN j \subseteq 0 .. heap_end /\ 0 \in DOMAIN j /\ heap_end \in DOMAIN j
       /\ j[heap_end].used /\ j[heap_end].next = heap_end /\ j[0].prev = 0
  <2>1. heap_end # p /\ after # 0
    BY <1>1
  <2>2. j[heap_end].used /\ j[heap_end].next = heap_end
    BY <1>2, <1>13, <2>1
  <2>3. j[0].prev = 0
    BY <1>2, <1>13, <2>1
  <2> QED BY <1>1, <1>2, <1>9, <2>2, <2>3
<1> QED BY <1>15, <1>16, <1>18, <1>19, <1>20 DEF HeapChain

\* The heap j is h with the block at n joined to the one at p.
JoinedAt(h, j, p, n) ==
  /\ DOMAIN j = DOMAIN h \ {n}
  /\ \A q \in DOMAIN j : /\ j[q].used = h[q].used
                         /\ j[q].next = IF q = p THEN h[n].next ELSE h[q].next

LEMMA JoinKeepsChain ==
  ASSUME NEW w, NEW h, h = w.heap, HeapChain(h), NEW p \in DOMAIN h \ {heap_end},
         NEW n, n = h[p].next, n # heap_end, NEW j, j = Joined(w, p, n).heap
  PROVE  HeapChain(j) /\ JoinedAt(h, j, p, n) /\ j[p].prev = h[p].prev
<1> DEFINE D == DOMAIN h
           after == h[n].next
<1>1. /\ h \in [D -> MemHeader] /\ D \subseteq 0 .. heap_end
      /\ 0 \in D /\ heap_end \in D /\ p \in D
      /\ h[heap_end].used /\ h[heap_end].next = heap_end /\ h[0].prev = 0
      /\ n \in D /\ p + Header <= n /\ h[n].prev = p
      /\ \A q \in D : q <= p \/ n <= q
  BY DEF HeapChain, Followed
<1>2. /\ after \in D /\ n + Header <= after
      /\ \A q \in D : q <= n \/ after <= q
      /\ after # heap_end => h[after].prev = n
  BY <1>1 DEF HeapChain, Followed
<1> HIDE DEF after
<1>3. /\ p \in Nat /\ n \in Nat /\ after \in Nat /\ p < n /\ n < after
      /\ after <= heap_end /\ heap_end \in Nat /\ D \subseteq Nat
      /\ p # heap_end /\ p # n /\ p # after /\ n # 0 /\ after # 0 /\ n # after
      /\ after \in 1 .. heap_end /\ p \in 0 .. heap_end /\ p + Header <= after
  BY <1>1, <1>2, HeapNumbers
<1> DEFINE F(q) == CASE q = p -> [h[q] EXCEPT !.next = after]
                     [] q = after -> [h[q] EXCEPT !.prev = p]
                     [] OTHER -> h[q]
<1>4. j = [q \in D \ {n} |-> F(q)]
  BY DEF Joined, after
<1>5. p \in D \ {n} /\ after \in D \ {n}
  BY <1>1, <1>2, <1>3
<1>6. j[p] = [h[p] EXCEPT !.next = after] /\ j[after] = [h[after] EXCEPT !.prev = p]
  <2>1. F(p) = [h[p] EXCEPT !.next = after] /\ F(after) = [h[after] EXCEPT !.prev = p]
    BY <1>3
  <2> QED BY <1>4, <1>5, <2>1
<1>7. \A q \in D \ {n} : q # p /\ q # after => j[q] = h[q]
  BY <1>4
<1>8. DOMAIN j = D \ {n}
  BY <1>4
<1>9. j = [q \in DOMAIN j |-> j[q]]
  BY <1>4
<1> HIDE DEF F, D
<1>10. /\ j[p] \in MemHeader /\ j[p].used = h[p].used /\ j[p].next = after
       /\ j[p].prev = h[p].prev
  <2>1. h[p] \in MemHeader
    BY <1>1
  <2> QED BY <1>3, <1>6, <2>1 DEF MemHeader
<1>11. /\ j[after] \in MemHeader /\ j[after].used = h[after].used
       /\ j[after].next = h[after].next /\ j[after].prev = p
  <2>1. h[after] \in MemHeader
    BY <1>1, <1>2
  <2> QED BY <1>3, <1>6, <2>1 DEF MemHeader
<1>12. \A q \in D \ {n} :
         /\ j[q] \in MemHeader /\ j[q].used = h[q].used
         /\ j[q].next = IF q = p THEN after ELSE h[q].next
         /\ j[q].prev = IF q = after THEN p ELSE h[q].prev
  <2> TAKE q \in D \ {n}
  <2>1. CASE q = p
    BY <1>3, <1>10, <2>1
  <2>2. CASE q = after
    BY <1>3, <1>11, <2>2
  <2>3. CASE q # p /\ q # after
    BY <1>1, <1>7, <2>3
  <2> QED BY <2>1, <2>2, <2>3
<1>13. JoinedAt(h, j, p, n)
  BY <1>8, <1>12 DEF JoinedAt, D, after
<1>14. j \in [DOMAIN j -> MemHeader]
  BY <1>8, <1>9, <1>12
<1>15. ASSUME NEW q \in DOMAIN j \ {heap_end}
       PROVE  Followed(j, q)
  <2>1. q \in D /\ q # n /\ q # heap_end
    BY <1>8
  <2>2. CASE q = p
    <3>1. ASSUME NEW x \in DOMAIN j
          PROVE  x <= p \/ after <= x
      <4>1. x \in D /\ x # n /\ x \in Nat
        BY <1>3, <1>8
      <4>2. x <= p \/ n <= x
        BY <1>1, <4>1
      <4>3. x <= n \/ after <= x
        BY <1>2, <4>1
      <4> QED BY <1>3, <4>1, <4>2, <4>3
    <3> QED BY <1>3, <1>5, <1>8, <1>10, <1>11, <2>2, <3>1 DEF Followed
  <2>3. CASE q # p
    <3>1. j[q].next = h[q].next
      BY <1>12, <2>1, <2>3
    <3>2. Followed(h, q)
      BY <2>1 DEF HeapChain, D
    <3>3. /\ h[q].next \in D /\ q + Header <= h[q].next
          /\ \A x \in D : x <= q \/ h[q].next <= x
          /\ h[q].next # heap_end => h[h[q].next].prev = q
      BY <3>2 DEF Followed, D
    <3>4. h[q].next # n
      BY <1>1, <2>3, <3>3
    <3>5. h[q].next = after => after = heap_end
      BY <1>2, <2>1, <3>3
    <3>6. h[q].next # heap_end => j[h[q].next].prev = q
      BY <1>12, <3>3, <3>4, <3>5
    <3> QED BY <1>8, <3>1, <3>3, <3>4, <3>6 DEF Followed
  <2> QED BY <2>2, <2>3
<1>16. ASSUME NEW q \in DOMAIN j \ {0, heap_end}
       PROVE  Preceded(j, q)
  <2>1. q \in D /\ q # n /\ q # heap_end /\ q # 0
    BY <1>8
  <2>2. CASE q = after
    BY <1>3, <1>5, <1>8, <1>10, <1>11, <2>2 DEF Preceded
  <2>3. CASE q # after
    <3>1. j[q].prev = h[q].prev
      BY <1>12, <2>1, <2>3
    <3>2. Preceded(h, q)
      BY <2>1 DEF HeapChain, D
    <3>3. h[q].prev \in D \ {heap_end} /\ h[h[q].prev].next = q
      BY <3>2 DEF Preceded, D
    <3>4. h[q].prev # n /\ h[q].prev # p
      BY <2>1, <2>3, <3>3 DEF after
    <3>5. j[h[q].prev].next = q
      BY <1>12, <3>3, <3>4
    <3> QED BY <1>8, <3>1, <3>3, <3>4, <3>5 DEF Preceded
  <2> QED BY <2>2, <2>3
<1>17. /\ DOMAIN j \subseteq 0 .. heap_end /\ 0 \in DOMAIN j /\ heap_end \in DOMAIN j
       /\ j[heap_end].used /\ j[heap_end].next = heap_end /\ j[0].prev = 0
  <2>1. 0 \in D \ {n} /\ heap_end \in D \ {n} /\ 0 # after /\ heap_end # p
    BY <1>1, <1>3
  <2>2. j[heap_end].used /\ j[heap_end].next = heap_end
    BY <1>1, <1>12, <2>1
  <2>3. j[0].prev = 0
    BY <1>1, <1>12, <2>1
  <2> QED BY <1>1, <1>8, <2>1, <2>2, <2>3
<1> QED BY <1>10, <1>13, <1>14, <1>15, <1>16, <1>17 DEF HeapChain

-----------------------------------------------------------------------------
(* plug_holes *)

UsedIn(h) == {p \in DOMAIN h \ {heap_end} : h[p].used}

\* The used blocks are the same, with the same room.
SameUsed(h, j) ==
  /\ UsedIn(j) = UsedIn(h)
  /\ \A p \in UsedIn(h) : j[p].next = h[p].next

\* The block at p and the next one are not both free.
NotBothFree(h, p) == h[p].used \/ h[h[p].next].used

\* Where a search starts.
LfreeOK(w) == w.lfree \in DOMAIN w.heap
              /\ (w.lfree = heap_end \/ ~w.heap[w.lfree].used)
LfreeLowest(w) == \A p \in DOMAIN w.heap : p >= w.lfree \/ w.heap[p].used

\* What joining two free blocks keeps.
Kept(w, u) ==
  /\ HeapChain(u.heap) /\ LfreeOK(u) /\ SameUsed(w.heap, u.heap)
  /\ LfreeLowest(w) => LfreeLowest(u)

LEMMA JoinIsSound ==
  ASSUME NEW w, HeapChain(w.heap), LfreeOK(w),
         NEW p \in DOMAIN w.heap \ {heap_end}, NEW n, n = w.heap[p].next,
         n # heap_end, ~w.heap[p].used, ~w.heap[n].used,
         NEW u, u = Joined(w, p, n)
  PROVE  Kept(w, u) /\ JoinedAt(w.heap, u.heap, p, n) /\ u.heap[p].prev = w.heap[p].prev
<1>1. /\ HeapChain(u.heap) /\ JoinedAt(w.heap, u.heap, p, n)
      /\ u.heap[p].prev = w.heap[p].prev
  BY JoinKeepsChain
<1>2. u.lfree = IF w.lfree = n THEN p ELSE w.lfree
  BY DEF Joined
<1> DEFINE h == w.heap
           j == u.heap
<1>3. p \in Nat /\ n \in Nat /\ p < n /\ DOMAIN h \subseteq Nat
  BY ChainNumbers DEF HeapChain, Followed
<1>4. /\ DOMAIN j = DOMAIN h \ {n}
      /\ \A q \in DOMAIN j : /\ j[q].used = h[q].used
                             /\ j[q].next = IF q = p THEN h[n].next ELSE h[q].next
  BY <1>1 DEF JoinedAt
<1> HIDE DEF h, j
<1>5. p \in DOMAIN j /\ p # heap_end /\ ~j[p].used /\ ~h[n].used /\ ~h[p].used
  BY <1>3, <1>4 DEF h
<1>6. LfreeOK(u)
  <2>1. CASE w.lfree = n
    BY <1>2, <1>5, <2>1 DEF LfreeOK, j
  <2>2. CASE w.lfree # n
    BY <1>2, <1>4, <2>2 DEF LfreeOK, h, j
  <2> QED BY <2>1, <2>2
<1>7. SameUsed(h, j)
  BY <1>4, <1>5 DEF SameUsed, UsedIn
<1>8. ASSUME LfreeLowest(w)
      PROVE  LfreeLowest(u)
  <2> SUFFICES ASSUME NEW q \in DOMAIN j PROVE q >= u.lfree \/ j[q].used
    BY DEF LfreeLowest, j
  <2>1. q \in DOMAIN h /\ q \in Nat /\ j[q].used = h[q].used
    BY <1>3, <1>4
  <2>2. q >= w.lfree \/ h[q].used
    BY <1>8, <2>1 DEF LfreeLowest, h
  <2> QED BY <1>2, <1>3, <2>1, <2>2
<1> QED BY <1>1, <1>6, <1>7, <1>8 DEF Kept, h, j

\* Outside of p no two free blocks follow each other.
PluggedBut(h, p) ==
  \A q \in DOMAIN h \ {heap_end} : q # p /\ h[q].next # p => NotBothFree(h, q)
Plugged(h) == \A q \in DOMAIN h \ {heap_end} : NotBothFree(h, q)

\* A free block with a free one behind it, or not.
LEMMA ForwardIsSound ==
  ASSUME NEW w, HeapChain(w.heap), LfreeOK(w),
         NEW p \in DOMAIN w.heap \ {heap_end}, ~w.heap[p].used,
         PluggedBut(w.heap, p), NEW u, u = PlugForward(w, p)
  PROVE  /\ Kept(w, u) /\ p \in DOMAIN u.heap \ {heap_end} /\ ~u.heap[p].used
         /\ PluggedBut(u.heap, p) /\ NotBothFree(u.heap, p)
<1> DEFINE h == w.heap
           j == u.heap
           n == h[p].next
<1>1. /\ n \in DOMAIN h /\ p \in Nat /\ n \in Nat /\ p < n
      /\ \A q \in DOMAIN h \ {heap_end} : h[q].next # heap_end => h[h[q].next].prev = q
  BY ChainNumbers DEF HeapChain, Followed
<1>2. h[heap_end].used
  BY DEF HeapChain
<1>3. CASE n # p /\ ~h[n].used /\ n # heap_end
  <2>1. u = Joined(w, p, n)
    BY <1>3 DEF PlugForward
  <2>2. Kept(w, u) /\ JoinedAt(h, j, p, n)
    BY <1>3, <2>1, JoinIsSound
  <2> HIDE DEF j, h
  <2>3. /\ DOMAIN j = DOMAIN h \ {n}
        /\ \A q \in DOMAIN j : /\ j[q].used = h[q].used
                               /\ j[q].next = IF q = p THEN h[n].next ELSE h[q].next
    BY <2>2 DEF JoinedAt
  <2>4. HeapChain(h) /\ HeapChain(j) /\ PluggedBut(h, p)
    BY <2>2 DEF Kept, h, j
  <2>5. h[n].next \in DOMAIN h /\ h[n].next # n /\ h[n].next # p /\ n # p
    <3>1. n < h[n].next /\ h[n].next \in Nat
      BY <1>1, <1>3, <2>4, ChainNumbers
    <3>2. h[n].next \in DOMAIN h
      BY <1>1, <1>3, <2>4 DEF HeapChain, Followed
    <3> HIDE DEF n
    <3> QED BY <1>1, <3>1, <3>2
  <2>6. p \in DOMAIN j \ {heap_end} /\ ~j[p].used
    BY <2>3, <2>5 DEF h
  <2>7. NotBothFree(j, p)
    <3>1. NotBothFree(h, n)
      BY <1>1, <1>3, <2>4, <2>5 DEF PluggedBut
    <3> QED BY <1>3, <2>3, <2>5, <2>6, <3>1 DEF NotBothFree
  <2>8. PluggedBut(j, p)
    <3> SUFFICES ASSUME NEW q \in DOMAIN j \ {heap_end}, q # p, j[q].next # p
                 PROVE  NotBothFree(j, q)
      BY DEF PluggedBut
    <3>1. q \in DOMAIN h \ {heap_end} /\ j[q].next = h[q].next /\ j[q].used = h[q].used
      BY <2>3
    <3>2. NotBothFree(h, q)
      BY <2>4, <3>1 DEF PluggedBut
    <3>3. j[q].next \in DOMAIN j
      BY <2>4 DEF HeapChain, Followed
    <3> QED BY <2>3, <3>1, <3>2, <3>3 DEF NotBothFree
  <2> QED BY <2>2, <2>6, <2>7, <2>8 DEF j, h
<1>4. CASE ~(n # p /\ ~h[n].used /\ n # heap_end)
  <2>1. u = w
    BY <1>4 DEF PlugForward
  <2>2. h[n].used
    <3> HIDE DEF n, h
    <3> QED BY <1>1, <1>2, <1>4
  <2>3. SameUsed(h, h)
    BY DEF SameUsed
  <2> QED BY <2>1, <2>2, <2>3 DEF Kept, NotBothFree
<1> QED BY <1>3, <1>4

LEMMA KeptTwice ==
  ASSUME NEW w, NEW u, NEW v, Kept(w, u), Kept(u, v)
  PROVE  Kept(w, v)
BY DEF Kept, SameUsed

LEMMA BackwardIsSound ==
  ASSUME NEW w, HeapChain(w.heap), LfreeOK(w),
         NEW p \in DOMAIN w.heap \ {heap_end}, ~w.heap[p].used,
         PluggedBut(w.heap, p), NotBothFree(w.heap, p), NEW u, u = PlugBackward(w, p)
  PROVE  Kept(w, u) /\ Plugged(u.heap)
<1> DEFINE h == w.heap
           j == u.heap
           before == h[p].prev
<1>1. SameUsed(h, h)
  BY DEF SameUsed
<1>2. CASE p = 0
  <2>1. before = p
    BY <1>2 DEF HeapChain
  <2>2. u = w
    BY <2>1 DEF PlugBackward
  <2>3. ASSUME NEW q \in DOMAIN h \ {heap_end}
        PROVE  NotBothFree(h, q)
    <3>1. q \in Nat /\ h[q].next \in Nat /\ q < h[q].next
      BY ChainNumbers
    <3> HIDE DEF h
    <3>2. h[q].next # p
      BY <1>2, <3>1
    <3> QED BY <3>2 DEF PluggedBut, h
  <2> QED BY <1>1, <2>2, <2>3 DEF Kept, Plugged
<1>3. CASE p # 0
  <2>1. before \in DOMAIN h \ {heap_end} /\ h[before].next = p
    BY <1>3 DEF HeapChain, Preceded
  <2>2. before # p /\ \A q \in DOMAIN h \ {heap_end} : h[q].next = p => q = before
    <3>1. before < h[before].next /\ before \in Nat
      BY <2>1, ChainNumbers
    <3>2. \A q \in DOMAIN h \ {heap_end} : h[q].next = p => h[p].prev = q
      BY DEF HeapChain, Followed
    <3>3. before # p
      <4> HIDE DEF before
      <4> QED BY <2>1, <3>1
    <3> QED BY <3>2, <3>3
  <2>3. CASE h[before].used
    <3>1. u = w
      BY <2>3 DEF PlugBackward
    <3>2. Plugged(h)
      BY <2>2, <2>3 DEF PluggedBut, Plugged, NotBothFree
    <3> QED BY <1>1, <3>1, <3>2 DEF Kept
  <2>4. CASE ~h[before].used
    <3>1. u = Joined(w, before, p)
      BY <2>2, <2>4 DEF PlugBackward
    <3>2. Kept(w, u) /\ JoinedAt(h, j, before, p)
      BY <2>1, <2>4, <3>1, JoinIsSound
    <3>3. HeapChain(h) /\ HeapChain(j) /\ PluggedBut(h, p) /\ NotBothFree(h, p) /\ ~h[p].used
      BY <3>2 DEF Kept
    <3> HIDE DEF before, h, j
    <3>4. /\ DOMAIN j = DOMAIN h \ {p}
          /\ \A q \in DOMAIN j : /\ j[q].used = h[q].used
                                 /\ j[q].next = IF q = before THEN h[p].next ELSE h[q].next
      BY <3>2 DEF JoinedAt
    <3>5. ASSUME NEW q \in DOMAIN j \ {heap_end}
          PROVE  NotBothFree(j, q)
      <4>1. q \in DOMAIN h \ {heap_end} /\ q # p /\ j[q].used = h[q].used
        BY <3>4
      <4>2. j[q].next \in DOMAIN j
        BY <3>3 DEF HeapChain, Followed
      <4>3. CASE q = before
        BY <3>3, <3>4, <4>1, <4>2, <4>3 DEF NotBothFree
      <4>4. CASE q # before
        <5>1. h[q].next # p
          BY <2>2, <4>1, <4>4
        <5>2. NotBothFree(h, q)
          BY <3>3, <4>1, <5>1 DEF PluggedBut
        <5> QED BY <3>4, <4>1, <4>2, <4>4, <5>2 DEF NotBothFree
      <4> QED BY <4>3, <4>4
    <3> QED BY <3>2, <3>5 DEF Plugged, j
  <2> QED BY <2>3, <2>4
<1> QED BY <1>2, <1>3

\* plug_holes keeps what is used, and leaves no two free blocks together.
LEMMA PlugHolesIsSound ==
  ASSUME NEW w, HeapChain(w.heap), LfreeOK(w),
         NEW p \in DOMAIN w.heap \ {heap_end}, ~w.heap[p].used,
         PluggedBut(w.heap, p), NEW v, v = plug_holes(w, p)
  PROVE  Kept(w, v) /\ Plugged(v.heap)
<1>1. PICK u : u = PlugForward(w, p)
  OBVIOUS
<1>2. /\ Kept(w, u) /\ p \in DOMAIN u.heap \ {heap_end} /\ ~u.heap[p].used
      /\ PluggedBut(u.heap, p) /\ NotBothFree(u.heap, p)
  BY <1>1, ForwardIsSound
<1>3. v = PlugBackward(u, p) /\ HeapChain(u.heap) /\ LfreeOK(u)
  BY <1>1, <1>2 DEF plug_holes, Kept
<1>4. Kept(u, v) /\ Plugged(v.heap)
  BY <1>2, <1>3, BackwardIsSound
<1> QED BY <1>2, <1>4, KeptTwice

-----------------------------------------------------------------------------
(* The units of the used blocks *)

UnitsOf(h) == UNION {p .. h[p].next - 1 : p \in UsedIn(h)}

LEMMA UsedUnitsAreUnits ==
  Used = UsedIn(heap) /\ UsedUnits = UnitsOf(heap)
BY DEF Used, UsedIn, UsedUnits, UnitsOf

LEMMA BlocksDisjoint ==
  ASSUME NEW h, HeapChain(h), NEW p \in UsedIn(h), NEW q \in UsedIn(h), p # q,
         NEW i \in p .. h[p].next - 1
  PROVE  i \notin q .. h[q].next - 1
<1>1. p \in DOMAIN h \ {heap_end} /\ q \in DOMAIN h \ {heap_end}
  BY DEF UsedIn
<1>2. (q <= p \/ h[p].next <= q) /\ (p <= q \/ h[q].next <= p)
  BY <1>1 DEF HeapChain, Followed
<1>3. p \in Nat /\ q \in Nat /\ h[p].next \in Nat /\ h[q].next \in Nat
  BY <1>1, ChainNumbers
<1> QED BY <1>2, <1>3

LEMMA UnitsAreFinite ==
  ASSUME NEW h, HeapChain(h)
  PROVE  /\ UnitsOf(h) \subseteq 0 .. heap_end - 1 /\ IsFiniteSet(UnitsOf(h))
         /\ Cardinality(UnitsOf(h)) \in 0 .. heap_end
<1>1. heap_end \in Nat /\ heap_end - 1 \in Int
  BY HeapNumbers
<1>2. UnitsOf(h) \subseteq 0 .. heap_end - 1
  <2> SUFFICES ASSUME NEW p \in UsedIn(h), NEW i \in p .. h[p].next - 1
               PROVE  i \in 0 .. heap_end - 1
    BY DEF UnitsOf
  <2>1. p \in Nat /\ h[p].next \in Nat /\ h[p].next <= heap_end
    BY ChainNumbers DEF UsedIn
  <2> QED BY <1>1, <2>1
<1>3. PICK n : n = heap_end - 1
  OBVIOUS
<1>4. IsFiniteSet(0 .. n) /\ Cardinality(0 .. n) = heap_end
  <2>1. n \in Int /\ IF 0 > n THEN heap_end = 0 ELSE heap_end = n - 0 + 1
    BY <1>1, <1>3
  <2> QED BY <2>1, FS_Interval
<1>5. /\ IsFiniteSet(UnitsOf(h))
      /\ Cardinality(UnitsOf(h)) <= Cardinality(0 .. n)
  BY <1>2, <1>3, <1>4, FS_Subset
<1>6. Cardinality(UnitsOf(h)) \in Nat
  BY <1>5, FS_CardinalityType
<1> QED BY <1>1, <1>2, <1>4, <1>5, <1>6

LEMMA MoreUnits ==
  ASSUME NEW A, IsFiniteSet(A), NEW a \in Nat, NEW b \in Nat, a <= b,
         NEW B, B = A \cup a .. b - 1, A \cap a .. b - 1 = {}
  PROVE  Cardinality(B) = Cardinality(A) + (b - a)
<1>1. PICK n : n = b - 1
  OBVIOUS
<1>2. IsFiniteSet(a .. n) /\ Cardinality(a .. n) = b - a
  <2>1. a \in Int /\ n \in Int /\ IF a > n THEN b - a = 0 ELSE b - a = n - a + 1
    BY <1>1
  <2> QED BY <2>1, FS_Interval
<1>3. A \cap (a .. n) = {} /\ B = A \cup (a .. n)
  BY <1>1
<1>4. Cardinality(B) = Cardinality(A) + Cardinality(a .. n) - Cardinality(A \cap (a .. n))
  BY <1>2, <1>3, FS_Union
<1>5. Cardinality(A \cap (a .. n)) = 0
  BY <1>3, FS_EmptySet
<1>6. Cardinality(A) \in Nat /\ b - a \in Nat
  BY FS_CardinalityType
<1> QED BY <1>2, <1>4, <1>5, <1>6

\* The block at p is used in j, and not in h.
LEMMA UnitsOfOneMore ==
  ASSUME NEW h, NEW j, HeapChain(h), HeapChain(j), NEW p, p \notin UsedIn(h),
         UsedIn(j) = UsedIn(h) \cup {p},
         \A q \in UsedIn(h) : j[q].next = h[q].next
  PROVE  Cardinality(UnitsOf(j)) = Cardinality(UnitsOf(h)) + (j[p].next - p)
<1>1. p \in UsedIn(j) /\ p \in Nat /\ j[p].next \in Nat /\ p <= j[p].next
  BY ChainNumbers DEF UsedIn
<1>2. UnitsOf(j) = UnitsOf(h) \cup p .. j[p].next - 1
  BY DEF UnitsOf
<1>3. UnitsOf(h) \cap p .. j[p].next - 1 = {}
  <2> SUFFICES ASSUME NEW q \in UsedIn(h), NEW i \in q .. h[q].next - 1
               PROVE  i \notin p .. j[p].next - 1
    BY DEF UnitsOf
  <2>1. q \in UsedIn(j) /\ q # p /\ j[q].next = h[q].next
    OBVIOUS
  <2> QED BY <1>1, <2>1, BlocksDisjoint
<1>4. IsFiniteSet(UnitsOf(h))
  BY UnitsAreFinite
<1> QED BY <1>1, <1>2, <1>3, <1>4, MoreUnits

\* The block at p is shorter in j than in h.
LEMMA UnitsOfShorter ==
  ASSUME NEW h, NEW j, HeapChain(h), HeapChain(j), UsedIn(j) = UsedIn(h),
         NEW p \in UsedIn(h), j[p].next <= h[p].next,
         \A q \in UsedIn(h) : q # p => j[q].next = h[q].next
  PROVE  Cardinality(UnitsOf(h)) = Cardinality(UnitsOf(j)) + (h[p].next - j[p].next)
<1>1. p \in Nat /\ j[p].next \in Nat /\ h[p].next \in Nat /\ p <= j[p].next
  BY ChainNumbers DEF UsedIn
<1> DEFINE cut == j[p].next .. h[p].next - 1
<1>2. cut \subseteq p .. h[p].next - 1 /\ cut \cap p .. j[p].next - 1 = {}
      /\ p .. h[p].next - 1 = cut \cup p .. j[p].next - 1
  BY <1>1
<1> HIDE DEF cut
<1>3. UnitsOf(h) = UnitsOf(j) \cup cut
  <2>1. \A i : i \in UnitsOf(h) => i \in UnitsOf(j) \cup cut
    <3> SUFFICES ASSUME NEW q \in UsedIn(h), NEW i \in q .. h[q].next - 1
                 PROVE  i \in UnitsOf(j) \cup cut
      BY DEF UnitsOf
    <3>1. q = p => i \in cut \/ i \in q .. j[q].next - 1
      BY <1>2
    <3>2. q # p => i \in q .. j[q].next - 1
      OBVIOUS
    <3> QED BY <3>1, <3>2 DEF UnitsOf
  <2>2. \A i : i \in UnitsOf(j) \cup cut => i \in UnitsOf(h)
    <3>1. cut \subseteq UnitsOf(h)
      BY <1>2 DEF UnitsOf
    <3>2. ASSUME NEW q \in UsedIn(j), NEW i \in q .. j[q].next - 1
          PROVE  i \in UnitsOf(h)
      <4>1. q = p => i \in q .. h[q].next - 1
        BY <1>2
      <4>2. q # p => i \in q .. h[q].next - 1
        OBVIOUS
      <4> QED BY <4>1, <4>2 DEF UnitsOf
    <3>3. UnitsOf(j) \subseteq UnitsOf(h)
      BY <3>2 DEF UnitsOf
    <3> QED BY <3>1, <3>3
  <2> QED BY <2>1, <2>2
<1>4. UnitsOf(j) \cap cut = {}
  <2> SUFFICES ASSUME NEW q \in UsedIn(j), NEW i \in q .. j[q].next - 1
               PROVE  i \notin cut
    BY DEF UnitsOf
  <2>1. CASE q = p
    BY <1>2, <2>1
  <2>2. CASE q # p
    <3>1. i \in q .. h[q].next - 1 /\ q \in UsedIn(h)
      BY <2>2
    <3>2. i \notin p .. h[p].next - 1
      BY <2>2, <3>1, BlocksDisjoint
    <3> QED BY <1>2, <3>2
  <2> QED BY <2>1, <2>2
<1>5. IsFiniteSet(UnitsOf(j))
  BY UnitsAreFinite
<1> QED BY <1>1, <1>3, <1>4, <1>5, MoreUnits DEF cut

-----------------------------------------------------------------------------
(* The sections of mem.c *)

\* The chain, the place where a search starts and the account of the units.
HeapOK ==
  /\ HeapChain(heap) /\ Plugged(heap)
  /\ LfreeOK([heap |-> heap, lfree |-> lfree])
  /\ shrunk \/ LfreeLowest([heap |-> heap, lfree |-> lfree])
  /\ shrunk \in BOOLEAN
  /\ used_mem = Cardinality(UnitsOf(heap))

LEMMA LfreeFacts ==
  ASSUME NEW h, NEW l
  PROVE  /\ LfreeOK([heap |-> h, lfree |-> l])
              <=> l \in DOMAIN h /\ (l = heap_end \/ ~h[l].used)
         /\ LfreeLowest([heap |-> h, lfree |-> l])
              <=> \A q \in DOMAIN h : q >= l \/ h[q].used
BY DEF LfreeOK, LfreeLowest

\* The heap j has the used blocks of h and the one at p.
OneMore(h, j, p) ==
  /\ UsedIn(j) = UsedIn(h) \cup {p} /\ p \notin UsedIn(h)
  /\ \A q \in UsedIn(h) : j[q].next = h[q].next

\* The heap j in which size units of the free block at p are allocated.
LEMMA HeapWithIsSound ==
  ASSUME HeapChain(heap), Plugged(heap), NEW p \in DOMAIN heap, ~heap[p].used,
         NEW size \in Nat, Room(heap, p) >= size, NEW j, j = HeapWith(p, size)
  PROVE  /\ HeapChain(j) /\ Plugged(j) /\ OneMore(heap, j, p) /\ Room(j, p) >= size
         /\ DOMAIN heap \subseteq DOMAIN j
         /\ \A q \in DOMAIN heap : j[q].used = (heap[q].used \/ q = p)
         /\ \A q \in DOMAIN j : q \in DOMAIN heap \/ q > p
<1>1. p \in DOMAIN heap \ {heap_end} /\ p \in Nat /\ heap[p].next \in Nat
  BY ChainNumbers DEF HeapChain
<1>2. heap[p].next \in DOMAIN heap /\ heap[heap[p].next].used
  BY <1>1 DEF HeapChain, Followed, Plugged, NotBothFree
<1>3. PICK i : i = IF Room(heap, p) >= size + Header + MinSize
                   THEN Split(heap, p, size) ELSE heap
  OBVIOUS
<1>4. j = [i EXCEPT ![p].used = TRUE]
  BY <1>3 DEF HeapWith
<1>5. /\ HeapChain(i) /\ Room(i, p) >= size
      /\ \A q \in DOMAIN i \ {heap_end} : q # p => NotBothFree(i, q)
      /\ DOMAIN heap \subseteq DOMAIN i
      /\ UsedIn(i) = UsedIn(heap)
      /\ \A q \in DOMAIN heap : i[q].used = heap[q].used
      /\ \A q \in UsedIn(heap) : i[q].next = heap[q].next
      /\ \A q \in DOMAIN i : q \in DOMAIN heap \/ q > p
  <2>1. CASE Room(heap, p) >= size + Header + MinSize
    <3> DEFINE rest == p + Header + size
    <3>1. i = Split(heap, p, size)
      BY <1>3, <2>1
    <3>2. rest + Header <= heap[p].next /\ rest > p /\ rest \in Nat
      BY <1>1, <2>1, HeapNumbers DEF Room
    <3>3. HeapChain(i) /\ SplitAt(heap, i, p, rest)
      BY <1>1, <3>1, <3>2, SplitKeepsChain
    <3> HIDE DEF rest
    <3>4. /\ DOMAIN i = DOMAIN heap \cup {rest} /\ rest \notin DOMAIN heap
          /\ ~i[rest].used /\ i[rest].next = heap[p].next
          /\ \A q \in DOMAIN heap : /\ i[q].used = heap[q].used
                                    /\ i[q].next = IF q = p THEN rest ELSE heap[q].next
      BY <3>3 DEF SplitAt
    <3>5. Room(i, p) >= size
      BY <1>1, <3>4, HeapNumbers DEF Room, rest
    <3>6. UsedIn(i) = UsedIn(heap) /\ \A q \in UsedIn(heap) : i[q].next = heap[q].next
      BY <1>1, <3>4 DEF UsedIn
    <3>7. ASSUME NEW q \in DOMAIN i \ {heap_end}, q # p
          PROVE  NotBothFree(i, q)
      <4>1. CASE q = rest
        BY <1>2, <3>4, <4>1 DEF NotBothFree
      <4>2. CASE q # rest
        <5>1. q \in DOMAIN heap \ {heap_end} /\ i[q].next = heap[q].next
          BY <3>4, <3>7, <4>2
        <5>2. heap[q].next \in DOMAIN heap /\ NotBothFree(heap, q)
          BY <5>1 DEF Plugged, HeapChain, Followed
        <5> QED BY <3>4, <5>1, <5>2 DEF NotBothFree
      <4> QED BY <4>1, <4>2
    <3> QED BY <3>2, <3>3, <3>4, <3>5, <3>6, <3>7
  <2>2. CASE ~(Room(heap, p) >= size + Header + MinSize)
    BY <1>3, <2>2 DEF Plugged
  <2> QED BY <2>1, <2>2
<1>6. /\ HeapChain(j) /\ DOMAIN j = DOMAIN i /\ j[p].used
      /\ \A q \in DOMAIN i : /\ j[q].next = i[q].next
                             /\ q # p => j[q].used = i[q].used
  <2>1. HeapChain(j) /\ Marked(i, j, p, TRUE)
    BY <1>1, <1>4, <1>5, MarkKeepsChain
  <2> QED BY <2>1 DEF Marked
<1>7. Plugged(j)
  <2> SUFFICES ASSUME NEW q \in DOMAIN j \ {heap_end} PROVE NotBothFree(j, q)
    BY DEF Plugged
  <2>1. i[q].next \in DOMAIN i /\ (q # p => NotBothFree(i, q))
    BY <1>5, <1>6 DEF HeapChain, Followed
  <2> QED BY <1>6, <2>1 DEF NotBothFree
<1>8. OneMore(heap, j, p)
  <2>1. UsedIn(j) = UsedIn(i) \cup {p}
    BY <1>1, <1>5, <1>6 DEF UsedIn
  <2>2. \A q \in UsedIn(heap) : q \in DOMAIN i /\ q # p
    BY <1>5 DEF UsedIn
  <2> QED BY <1>5, <1>6, <2>1, <2>2 DEF OneMore
<1>9. Room(j, p) >= size
  BY <1>1, <1>5, <1>6 DEF Room
<1>10. \A q \in DOMAIN heap : j[q].used = (heap[q].used \/ q = p)
  <2> SUFFICES ASSUME NEW q \in DOMAIN heap
               PROVE  j[q].used = (heap[q].used \/ q = p)
    OBVIOUS
  <2>1. heap[q].used \in BOOLEAN /\ q \in DOMAIN i
    BY <1>5, ChainNumbers
  <2> QED BY <1>5, <1>6, <2>1
<1> QED BY <1>5, <1>6, <1>7, <1>8, <1>9, <1>10

LEMMA FirstOfSearch ==
  ASSUME HeapOK, NEW size \in Nat, Fitting(size) # {}, NEW p, p = First(Fitting(size))
  PROVE  /\ p \in DOMAIN heap /\ p \in Nat /\ p >= lfree /\ p < mem_size - size
         /\ ~heap[p].used /\ Room(heap, p) >= size
<1>1. Fitting(size) \subseteq Nat
  BY ChainNumbers DEF HeapOK, Fitting
<1>2. p \in Fitting(size)
  BY <1>1, FirstIsLeast
<1> QED BY <1>1, <1>2 DEF Fitting

\* rt_malloc, as far as it is not refused.
LEMMA AllocateIsSound ==
  ASSUME HeapOK, NEW size \in Nat, Granted(size), Allocate(size), shrunk' = shrunk
  PROVE  /\ HeapOK' /\ OneMore(heap, heap', Place(size))
         /\ Room(heap', Place(size)) >= size
         /\ Place(size) \in 0 .. mem_size /\ size \in 0 .. mem_size
<1> DEFINE want == Wanted(size)
           p == Place(size)
           j == HeapWith(p, want)
<1>1. want \in Nat /\ want >= size /\ size <= mem_size
  BY HeapNumbers DEF Wanted, Granted
<1>2. Fitting(want) # {} /\ p = First(Fitting(want))
  BY DEF Granted, Place
<1> HIDE DEF p, want
<1>3. /\ p \in DOMAIN heap /\ p \in Nat /\ p >= lfree /\ p < mem_size - want
      /\ ~heap[p].used /\ Room(heap, p) >= want
  BY <1>1, <1>2, FirstOfSearch
<1>4. /\ heap' = j /\ used_mem' = used_mem + (j[p].next - p)
      /\ lfree' = IF p # lfree THEN lfree
                  ELSE First({q \in DOMAIN j :
                                q >= lfree /\ (q = heap_end \/ ~j[q].used)})
  BY DEF Allocate, p, want
<1>5. PICK g : g = j
  OBVIOUS
<1>6. /\ HeapChain(g) /\ Plugged(g) /\ OneMore(heap, g, p) /\ Room(g, p) >= want
      /\ DOMAIN heap \subseteq DOMAIN g
      /\ \A q \in DOMAIN heap : g[q].used = (heap[q].used \/ q = p)
      /\ \A q \in DOMAIN g : q \in DOMAIN heap \/ q > p
  BY <1>1, <1>3, <1>5, HeapWithIsSound DEF HeapOK
<1> HIDE DEF j
<1>7. /\ lfree \in DOMAIN heap /\ (lfree = heap_end \/ ~heap[lfree].used)
      /\ (shrunk \/ \A q \in DOMAIN heap : q >= lfree \/ heap[q].used)
  BY LfreeFacts DEF HeapOK
<1>8. /\ lfree' \in DOMAIN g /\ (lfree' = heap_end \/ ~g[lfree'].used)
      /\ (shrunk \/ \A q \in DOMAIN g : q >= lfree' \/ g[q].used)
  <2>1. CASE p # lfree
    <3>1. lfree' = lfree
      BY <1>4, <2>1
    <3>2. ASSUME NEW q \in DOMAIN g, ~shrunk
          PROVE  q >= lfree \/ g[q].used
      <4>1. lfree \in Nat /\ q \in Nat
        BY <1>6, <1>7, ChainNumbers
      <4>2. CASE q \in DOMAIN heap
        BY <1>6, <1>7, <3>2, <4>2
      <4>3. CASE q > p
        BY <1>3, <4>1, <4>3
      <4> QED BY <1>6, <4>2, <4>3
    <3> QED BY <1>6, <1>7, <2>1, <3>1, <3>2
  <2>2. CASE p = lfree
    <3> DEFINE free == {q \in DOMAIN g : q >= lfree /\ (q = heap_end \/ ~g[q].used)}
    <3>1. lfree' = First(free)
      BY <1>4, <1>5, <2>2
    <3>2. DOMAIN g \subseteq Nat
      BY <1>6, ChainNumbers
    <3>3. heap_end \in free
      BY <1>3, <1>6, <2>2, <3>2, HeapNumbers DEF HeapChain
    <3>4. lfree' \in free /\ \A q \in free : lfree' <= q
      <4>1. free \subseteq Nat /\ free # {}
        BY <3>2, <3>3
      <4> HIDE DEF free
      <4> QED BY <3>1, <4>1, FirstIsLeast
    <3>5. ASSUME NEW q \in DOMAIN g, ~shrunk
          PROVE  q >= lfree' \/ g[q].used
      <4>1. q \in Nat /\ lfree' \in Nat
        BY <3>2, <3>4
      <4>2. CASE q >= lfree
        <5>1. g[q].used \/ q \in free
          BY <4>2
        <5> QED BY <3>4, <4>1, <5>1
      <4>3. CASE ~(q >= lfree)
        <5>1. lfree \in Nat /\ ~(q > p)
          BY <1>3, <2>2, <4>1, <4>3
        <5>2. q \in DOMAIN heap /\ heap[q].used
          BY <1>6, <1>7, <3>5, <4>3, <5>1
        <5> QED BY <1>6, <5>2
      <4> QED BY <4>2, <4>3
    <3> QED BY <3>4, <3>5
  <2> QED BY <2>1, <2>2
<1>9. used_mem' = Cardinality(UnitsOf(g))
  <2>1. Cardinality(UnitsOf(g)) = Cardinality(UnitsOf(heap)) + (g[p].next - p)
    BY <1>6, UnitsOfOneMore DEF HeapOK, OneMore
  <2> QED BY <1>4, <1>5, <2>1 DEF HeapOK
<1>10. heap' = g
  BY <1>4, <1>5
<1>11. HeapOK'
  <2>1. LfreeOK([heap |-> heap', lfree |-> lfree'])
    BY <1>8, <1>10, LfreeFacts
  <2>2. shrunk \/ LfreeLowest([heap |-> heap', lfree |-> lfree'])
    BY <1>8, <1>10, LfreeFacts
  <2> QED BY <1>6, <1>9, <1>10, <2>1, <2>2 DEF HeapOK
<1>12. Room(g, p) >= size
  <2>1. Room(g, p) \in Int
    BY <1>3, <1>6, ChainNumbers, HeapNumbers DEF Room
  <2> QED BY <1>1, <1>6, <2>1
<1> QED BY <1>1, <1>3, <1>6, <1>10, <1>11, <1>12, HeapNumbers DEF p

\* rt_free, and the end of rt_realloc.
LEMMA ReleaseIsSound ==
  ASSUME HeapOK, NEW p \in UsedIn(heap), Release(p), shrunk' = shrunk
  PROVE  HeapOK' /\ OneMore(heap', heap, p)
<1> DEFINE w == [heap |-> [heap EXCEPT ![p].used = FALSE],
                 lfree |-> IF p < lfree THEN p ELSE lfree]
           v == plug_holes(w, p)
<1>1. heap' = v.heap /\ lfree' = v.lfree /\ used_mem' = used_mem - (heap[p].next - p)
  BY DEF Release, SetHeap
<1>2. p \in DOMAIN heap \ {heap_end} /\ heap[p].used /\ HeapChain(heap)
  BY DEF UsedIn, HeapOK
<1>3. PICK g : g = [heap EXCEPT ![p].used = FALSE]
  OBVIOUS
<1>4. /\ HeapChain(g) /\ DOMAIN g = DOMAIN heap /\ ~g[p].used
      /\ \A q \in DOMAIN heap : /\ g[q].next = heap[q].next
                                /\ q # p => g[q].used = heap[q].used
  <2>1. HeapChain(g) /\ Marked(heap, g, p, FALSE)
    BY <1>2, <1>3, MarkKeepsChain
  <2> QED BY <2>1 DEF Marked
<1>5. PICK l : l = IF p < lfree THEN p ELSE lfree
  OBVIOUS
<1>6. w = [heap |-> g, lfree |-> l] /\ w.heap = g /\ w.lfree = l
  BY <1>3, <1>5
<1> HIDE DEF w
<1>7. /\ lfree \in DOMAIN heap /\ (lfree = heap_end \/ ~heap[lfree].used)
      /\ (shrunk \/ \A q \in DOMAIN heap : q >= lfree \/ heap[q].used)
  BY LfreeFacts DEF HeapOK
<1>8. lfree \in Nat /\ p \in Nat /\ DOMAIN heap \subseteq Nat
  BY <1>2, <1>7, ChainNumbers
<1>9. LfreeOK(w)
  <2>1. l \in DOMAIN g /\ (l = heap_end \/ ~g[l].used)
    BY <1>2, <1>4, <1>5, <1>7
  <2> QED BY <1>6, <2>1 DEF LfreeOK
<1>10. shrunk \/ LfreeLowest(w)
  <2> SUFFICES ASSUME ~shrunk, NEW q \in DOMAIN g PROVE q >= l \/ g[q].used
    BY <1>6 DEF LfreeLowest
  <2>1. q \in DOMAIN heap /\ q \in Nat /\ l \in Nat /\ l <= p /\ l <= lfree
    BY <1>4, <1>5, <1>8
  <2>2. CASE q = p
    BY <2>1, <2>2
  <2>3. CASE q # p
    <3>1. q >= lfree \/ heap[q].used
      BY <1>7, <2>1
    <3>2. g[q].used = heap[q].used
      BY <1>4, <2>1, <2>3
    <3> QED BY <1>8, <2>1, <3>1, <3>2
  <2> QED BY <2>2, <2>3
<1>11. PluggedBut(w.heap, p)
  <2> SUFFICES ASSUME NEW q \in DOMAIN heap \ {heap_end}, q # p, g[q].next # p
               PROVE  NotBothFree(g, q)
    BY <1>4, <1>6 DEF PluggedBut
  <2>1. heap[q].next \in DOMAIN heap /\ NotBothFree(heap, q)
    BY <1>2 DEF HeapOK, Plugged, HeapChain, Followed
  <2> QED BY <1>4, <2>1 DEF NotBothFree
<1>12. Kept(w, v) /\ Plugged(v.heap)
  BY <1>2, <1>4, <1>6, <1>9, <1>11, PlugHolesIsSound
<1> HIDE DEF v
<1>13. HeapChain(heap') /\ Plugged(heap') /\ SameUsed(g, heap')
  BY <1>1, <1>6, <1>12 DEF Kept
<1>14. OneMore(heap', heap, p)
  BY <1>2, <1>4, <1>13 DEF SameUsed, UsedIn, OneMore
<1>15. LfreeOK([heap |-> heap', lfree |-> lfree'])
  BY <1>1, <1>12, LfreeFacts DEF Kept, LfreeOK
<1>16. shrunk \/ LfreeLowest([heap |-> heap', lfree |-> lfree'])
  BY <1>1, <1>10, <1>12, LfreeFacts DEF Kept, LfreeLowest
<1>17. used_mem' = Cardinality(UnitsOf(heap'))
  <2>1. Cardinality(UnitsOf(heap)) = Cardinality(UnitsOf(heap')) + (heap[p].next - p)
    BY <1>2, <1>13, <1>14, UnitsOfOneMore DEF OneMore
  <2>2. Cardinality(UnitsOf(heap')) \in Nat /\ heap[p].next \in Nat
    BY <1>2, <1>13, UnitsAreFinite, ChainNumbers, HeapNumbers
  <2> QED BY <1>1, <1>8, <2>1, <2>2 DEF HeapOK
<1> QED BY <1>13, <1>14, <1>15, <1>16, <1>17 DEF HeapOK

\* The heap is cut in two behind the first size units of the block at p.
CutTo(p, size) ==
  /\ SetHeap(plug_holes([heap |-> Split(heap, p, size), lfree |-> lfree],
                        p + Header + size))
  /\ used_mem' = used_mem - (Room(heap, p) - size)
  /\ shrunk' = TRUE

\* The heap j has the used blocks of h, the one at p with less room.
OneShorter(h, j, p) ==
  /\ UsedIn(j) = UsedIn(h) /\ p \in UsedIn(h)
  /\ \A q \in UsedIn(h) : q # p => j[q].next = h[q].next

\* The cut of rt_realloc.
LEMMA CutIsSound ==
  ASSUME HeapOK, NEW p \in UsedIn(heap), NEW size \in Nat,
         size + Header + MinSize < Room(heap, p), CutTo(p, size)
  PROVE  HeapOK' /\ OneShorter(heap, heap', p) /\ Room(heap', p) = size
<1> DEFINE rest == p + Header + size
           w == [heap |-> Split(heap, p, size), lfree |-> lfree]
           v == plug_holes(w, rest)
<1>1. /\ heap' = v.heap /\ lfree' = v.lfree
      /\ used_mem' = used_mem - (Room(heap, p) - size)
  BY DEF CutTo, SetHeap
<1>2. p \in DOMAIN heap \ {heap_end} /\ heap[p].used /\ HeapChain(heap)
  BY DEF UsedIn, HeapOK
<1>3. p \in Nat /\ heap[p].next \in Nat
  BY <1>2, ChainNumbers
<1>4. rest + Header <= heap[p].next /\ rest \in Nat /\ rest <= heap[p].next
  BY <1>3, HeapNumbers DEF Room
<1>5. PICK g : g = Split(heap, p, size)
  OBVIOUS
<1>6. HeapChain(g) /\ SplitAt(heap, g, p, rest)
  BY <1>2, <1>4, <1>5, SplitKeepsChain
<1>7. w.heap = g /\ w.lfree = lfree
  BY <1>5
<1>8. v = plug_holes(w, rest)
  OBVIOUS
<1>9. rest - p - Header = size /\ heap[p].next - (p + Header) - size = heap[p].next - rest
  BY <1>3, HeapNumbers
<1> HIDE DEF w, v, rest
<1>10. /\ DOMAIN g = DOMAIN heap \cup {rest} /\ rest \notin DOMAIN heap
       /\ ~g[rest].used /\ g[rest].next = heap[p].next
       /\ \A q \in DOMAIN heap : /\ g[q].used = heap[q].used
                                 /\ g[q].next = IF q = p THEN rest ELSE heap[q].next
  BY <1>6 DEF SplitAt
<1>11. rest \in DOMAIN g \ {heap_end} /\ rest # p
  BY <1>2, <1>10 DEF HeapChain
<1>12. LfreeOK(w)
  <2>1. lfree \in DOMAIN heap /\ (lfree = heap_end \/ ~heap[lfree].used)
    BY LfreeFacts DEF HeapOK
  <2> QED BY <1>7, <1>10, <2>1 DEF LfreeOK
<1>13. PluggedBut(g, rest)
  <2> SUFFICES ASSUME NEW q \in DOMAIN g \ {heap_end}, q # rest, g[q].next # rest
               PROVE  NotBothFree(g, q)
    BY DEF PluggedBut
  <2>1. q \in DOMAIN heap \ {heap_end} /\ g[q].next = heap[q].next
    BY <1>10
  <2>2. heap[q].next \in DOMAIN heap /\ NotBothFree(heap, q)
    BY <2>1 DEF HeapOK, Plugged, HeapChain, Followed
  <2> QED BY <1>10, <2>1, <2>2 DEF NotBothFree
<1>14. Kept(w, v) /\ Plugged(v.heap)
  BY <1>6, <1>7, <1>8, <1>10, <1>11, <1>12, <1>13, PlugHolesIsSound
<1>15. /\ HeapChain(heap') /\ Plugged(heap')
       /\ UsedIn(heap') = UsedIn(g) /\ \A q \in UsedIn(g) : heap'[q].next = g[q].next
  BY <1>1, <1>7, <1>14 DEF Kept, SameUsed
<1>16. UsedIn(g) = UsedIn(heap)
  BY <1>10 DEF UsedIn
<1>17. OneShorter(heap, heap', p) /\ heap'[p].next = rest
  <2>1. \A q \in UsedIn(heap) : q \in DOMAIN heap
    BY DEF UsedIn
  <2> QED BY <1>10, <1>15, <1>16, <2>1 DEF OneShorter
<1>18. Room(heap', p) = size
  BY <1>3, <1>4, <1>9, <1>17, HeapNumbers DEF Room
<1>19. LfreeOK([heap |-> heap', lfree |-> lfree'])
  BY <1>1, <1>14, LfreeFacts DEF Kept, LfreeOK
<1>20. used_mem' = Cardinality(UnitsOf(heap'))
  <2>1. Cardinality(UnitsOf(heap)) = Cardinality(UnitsOf(heap')) + (heap[p].next - rest)
    BY <1>2, <1>4, <1>15, <1>17, UnitsOfShorter DEF OneShorter
  <2>2. Cardinality(UnitsOf(heap')) \in Nat
    BY <1>15, UnitsAreFinite, HeapNumbers
  <2>3. Room(heap, p) - size = heap[p].next - rest
    BY <1>9 DEF Room
  <2> QED BY <1>1, <1>3, <1>4, <2>1, <2>2, <2>3 DEF HeapOK
<1>21. shrunk' = TRUE
  BY DEF CutTo
<1> QED BY <1>15, <1>17, <1>18, <1>19, <1>20, <1>21 DEF HeapOK

-----------------------------------------------------------------------------
(* Whose the blocks are *)

\* A used block holds what its user asked for.
BlockOf(h, b) == b.at \in UsedIn(h) /\ Room(h, b.at) >= b.size

\* The used blocks of h are those the users have in H, each for one of them.
HeldIn(h, H) ==
  /\ H \in [User -> SUBSET HeapBlock]
  /\ \A u \in User : \A b \in H[u] : BlockOf(h, b)
  /\ \A u, v \in User : \A b \in H[u], d \in H[v] : b.at = d.at => u = v /\ b = d
  /\ \A p \in UsedIn(h) : \E u \in User : \E b \in H[u] : b.at = p

\* A call of rt_realloc keeps the user's old block until its last section.
CallsOK(H, R) ==
  /\ R \in [User -> {NoCall} \cup [old : HeapBlock, newsize : 0 .. mem_size,
                                   copied : BOOLEAN]]
  /\ \A u \in User : R[u] # NoCall => R[u].old \in H[u]

HeapInv == HeapOK /\ HeldIn(heap, held) /\ CallsOK(held, realloc)

\* The user u has b in G besides what it has in H.
GivenTo(H, G, u, b) == G = [H EXCEPT ![u] = @ \cup {b}]

LEMMA HeldMore ==
  ASSUME NEW h, NEW j, NEW H, HeldIn(h, H), NEW u \in User, NEW b \in HeapBlock,
         OneMore(h, j, b.at), Room(j, b.at) >= b.size,
         NEW G, GivenTo(H, G, u, b)
  PROVE  HeldIn(j, G)
<1> DEFINE p == b.at
<1>1. /\ H \in [User -> SUBSET HeapBlock]
      /\ \A v \in User : G[v] = IF v = u THEN H[v] \cup {b} ELSE H[v]
  BY DEF HeldIn, GivenTo
<1>2. G \in [User -> SUBSET HeapBlock]
  BY <1>1 DEF GivenTo
<1>3. \A v \in User : \A d \in H[v] : d.at # p /\ BlockOf(j, d)
  BY DEF HeldIn, BlockOf, OneMore, Room
<1>4. BlockOf(j, b)
  BY DEF OneMore, BlockOf
<1>5. \A v \in User : \A d \in G[v] : BlockOf(j, d)
  BY <1>1, <1>3, <1>4
<1>6. ASSUME NEW v \in User, NEW x \in User, NEW d \in G[v], NEW e \in G[x], d.at = e.at
      PROVE  v = x /\ d = e
  <2>1. (d \in H[v] \/ (v = u /\ d = b)) /\ (e \in H[x] \/ (x = u /\ e = b))
    BY <1>1
  <2> QED BY <1>3, <1>6, <2>1 DEF HeldIn
<1>7. ASSUME NEW q \in UsedIn(j)
      PROVE  \E v \in User : \E d \in G[v] : d.at = q
  <2>1. CASE q = p
    BY <1>1, <2>1
  <2>2. CASE q # p
    <3>1. PICK v \in User : \E d \in H[v] : d.at = q
      BY <2>2 DEF HeldIn, OneMore
    <3> QED BY <1>1, <3>1
  <2> QED BY <2>1, <2>2
<1> QED BY <1>1, <1>2, <1>5, <1>6, <1>7 DEF HeldIn

LEMMA HeldLess ==
  ASSUME NEW h, NEW j, NEW H, HeldIn(h, H), NEW u \in User, NEW b \in H[u],
         OneMore(j, h, b.at), NEW G, G = [H EXCEPT ![u] = @ \ {b}]
  PROVE  HeldIn(j, G)
<1>1. /\ H \in [User -> SUBSET HeapBlock]
      /\ \A v \in User : G[v] = IF v = u THEN H[v] \ {b} ELSE H[v]
  BY DEF HeldIn
<1>2. G \in [User -> SUBSET HeapBlock] /\ \A v \in User : G[v] \subseteq H[v]
  BY <1>1
<1>3. \A v \in User : \A d \in G[v] : d.at # b.at
  BY <1>1 DEF HeldIn
<1>4. ASSUME NEW v \in User, NEW d \in G[v]
      PROVE  BlockOf(j, d)
  <2>1. d.at # b.at /\ BlockOf(h, d)
    BY <1>2, <1>3 DEF HeldIn
  <2> QED BY <2>1 DEF BlockOf, OneMore, Room
<1>5. \A v, x \in User : \A d \in G[v], e \in G[x] : d.at = e.at => v = x /\ d = e
  BY <1>2 DEF HeldIn
<1>6. ASSUME NEW q \in UsedIn(j)
      PROVE  \E v \in User : \E d \in G[v] : d.at = q
  <2>1. q \in UsedIn(h) /\ q # b.at
    BY DEF OneMore
  <2>2. PICK v \in User : \E d \in H[v] : d.at = q
    BY <2>1 DEF HeldIn
  <2> QED BY <1>1, <2>1, <2>2
<1> QED BY <1>2, <1>4, <1>5, <1>6 DEF HeldIn

LEMMA HeldResized ==
  ASSUME NEW h, NEW j, NEW H, HeldIn(h, H), NEW u \in User, NEW b \in H[u],
         OneShorter(h, j, b.at), NEW size \in 0 .. mem_size, Room(j, b.at) >= size,
         NEW G, G = [H EXCEPT ![u] = (@ \ {b}) \cup {[at |-> b.at, size |-> size]}]
  PROVE  HeldIn(j, G)
<1> DEFINE r == [at |-> b.at, size |-> size]
<1>1. b \in HeapBlock /\ r \in HeapBlock /\ r.at = b.at /\ r.size = size
  BY DEF HeldIn, HeapBlock
<1> HIDE DEF r
<1>2. /\ H \in [User -> SUBSET HeapBlock]
      /\ \A v \in User : G[v] = IF v = u THEN (H[v] \ {b}) \cup {r} ELSE H[v]
  BY DEF HeldIn, r
<1>3. G \in [User -> SUBSET HeapBlock]
  BY <1>1, <1>2 DEF HeldIn, r
<1>4. ASSUME NEW v \in User, NEW d \in G[v]
      PROVE  (v = u /\ d = r) \/ (d \in H[v] /\ d.at # b.at)
  <2>1. (v = u /\ d = r) \/ (d \in H[v] /\ ~(v = u /\ d = b))
    BY <1>2
  <2> QED BY <2>1 DEF HeldIn
<1>5. ASSUME NEW v \in User, NEW d \in G[v]
      PROVE  BlockOf(j, d)
  <2>1. CASE d = r
    BY <1>1, <2>1 DEF BlockOf, OneShorter
  <2>2. CASE d \in H[v] /\ d.at # b.at
    <3>1. BlockOf(h, d)
      BY <2>2 DEF HeldIn
    <3> QED BY <2>2, <3>1 DEF BlockOf, OneShorter, Room
  <2> QED BY <1>4, <2>1, <2>2
<1>6. ASSUME NEW v \in User, NEW x \in User, NEW d \in G[v], NEW e \in G[x], d.at = e.at
      PROVE  v = x /\ d = e
  <2>1. (v = u /\ d = r) \/ (d \in H[v] /\ d.at # b.at)
    BY <1>4
  <2>2. (x = u /\ e = r) \/ (e \in H[x] /\ e.at # b.at)
    BY <1>4
  <2> QED BY <1>1, <1>6, <2>1, <2>2 DEF HeldIn
<1>7. ASSUME NEW q \in UsedIn(j)
      PROVE  \E v \in User : \E d \in G[v] : d.at = q
  <2>1. CASE q = b.at
    BY <1>1, <1>2, <2>1
  <2>2. CASE q # b.at
    <3>1. PICK v \in User : \E d \in H[v] : d.at = q
      BY DEF HeldIn, OneShorter
    <3> QED BY <1>2, <2>2, <3>1
  <2> QED BY <2>1, <2>2
<1> QED BY <1>2, <1>3, <1>5, <1>6, <1>7 DEF HeldIn

-----------------------------------------------------------------------------
(* Every step *)

LEMMA CallsOfMore ==
  ASSUME NEW H, NEW G, NEW R, CallsOK(H, R), \A v \in User : H[v] \subseteq G[v]
  PROVE  CallsOK(G, R)
BY DEF CallsOK

LEMMA CallsOfOther ==
  ASSUME NEW H, NEW G, NEW R, CallsOK(H, R), NEW u \in User, R[u] = NoCall,
         \A v \in User : v # u => G[v] = H[v]
  PROVE  CallsOK(G, R)
BY DEF CallsOK

LEMMA HeapInitIsSound == HeapInit => HeapInv
<1> SUFFICES ASSUME HeapInit PROVE HeapInv
  OBVIOUS
<1>1. /\ heap = [p \in {0, heap_end} |->
                   [used |-> p = heap_end, next |-> heap_end, prev |-> p]]
      /\ lfree = 0 /\ used_mem = 0 /\ held = [u \in User |-> {}]
      /\ realloc = [u \in User |-> NoCall] /\ shrunk = FALSE
  BY DEF HeapInit
<1>2. heap_end \in Nat /\ heap_end > 0 /\ Header <= heap_end /\ Header \in Nat
  BY HeapNumbers
<1>3. /\ DOMAIN heap = {0, heap_end}
      /\ ~heap[0].used /\ heap[0].next = heap_end /\ heap[0].prev = 0
      /\ heap[heap_end].used /\ heap[heap_end].next = heap_end
  <2>1. DOMAIN heap = {0, heap_end}
    BY <1>1
  <2>2. \A p \in {0, heap_end} : /\ heap[p].used = (p = heap_end)
                                 /\ heap[p].next = heap_end /\ heap[p].prev = p
    BY <1>1
  <2>3. 0 # heap_end
    BY <1>2
  <2> QED BY <2>1, <2>2, <2>3
<1>4. HeapChain(heap)
  <2>1. heap \in [DOMAIN heap -> MemHeader]
    <3> SUFFICES ASSUME NEW p \in {0, heap_end}
                 PROVE  [used |-> p = heap_end, next |-> heap_end, prev |-> p] \in MemHeader
      BY <1>1
    <3> QED BY <1>2 DEF MemHeader
  <2>2. Followed(heap, 0)
    BY <1>2, <1>3 DEF Followed
  <2> QED BY <1>2, <1>3, <2>1, <2>2 DEF HeapChain
<1>5. Plugged(heap)
  BY <1>3 DEF Plugged, NotBothFree
<1>6. /\ LfreeOK([heap |-> heap, lfree |-> lfree])
      /\ LfreeLowest([heap |-> heap, lfree |-> lfree])
  <2>1. \A q \in DOMAIN heap : q >= lfree
    BY <1>1, <1>2, <1>3
  <2> QED BY <1>1, <1>3, <2>1, LfreeFacts
<1>7. UsedIn(heap) = {}
  BY <1>3 DEF UsedIn
<1>8. Cardinality(UnitsOf(heap)) = 0
  <2>1. UnitsOf(heap) = {}
    BY <1>7 DEF UnitsOf
  <2> QED BY <2>1, FS_EmptySet
<1>9. HeapOK
  BY <1>1, <1>4, <1>5, <1>6, <1>8 DEF HeapOK
<1>10. HeldIn(heap, held)
  BY <1>1, <1>7 DEF HeldIn
<1>11. CallsOK(held, realloc)
  BY <1>1 DEF CallsOK
<1> QED BY <1>9, <1>10, <1>11 DEF HeapInv

\* A successful rt_malloc(size) gives u a block more.
LEMMA AllocateKeeps ==
  ASSUME HeapInv, NEW u \in User, NEW size \in Nat, Granted(size), Allocate(size),
         held' = [held EXCEPT ![u] = @ \cup {[at |-> Place(size), size |-> size]}],
         shrunk' = shrunk
  PROVE  HeapOK' /\ HeldIn(heap', held') /\ \A v \in User : held[v] \subseteq held'[v]
<1>0. PICK b : b = [at |-> Place(size), size |-> size]
  OBVIOUS
<1>1. /\ HeapOK' /\ OneMore(heap, heap', Place(size))
      /\ Room(heap', Place(size)) >= size
      /\ Place(size) \in 0 .. mem_size /\ size \in 0 .. mem_size
  BY AllocateIsSound DEF HeapInv
<1>2. b \in HeapBlock /\ b.at = Place(size) /\ b.size = size
  BY <1>0, <1>1 DEF HeapBlock
<1>3. held' = [held EXCEPT ![u] = @ \cup {b}]
  BY <1>0
<1>4. OneMore(heap, heap', b.at) /\ Room(heap', b.at) >= b.size
  BY <1>1, <1>2
<1>5. HeldIn(heap', held')
  <2>1. GivenTo(held, held', u, b) /\ HeldIn(heap, held)
    BY <1>3 DEF GivenTo, HeapInv
  <2> QED BY <1>2, <1>4, <2>1, HeldMore
<1>6. \A v \in User : held[v] \subseteq held'[v]
  BY <1>3 DEF HeapInv, HeldIn
<1> QED BY <1>1, <1>5, <1>6

\* rt_free of a block of u takes it from u.
LEMMA ReleaseKeeps ==
  ASSUME HeapInv, NEW u \in User, NEW b \in held[u], Release(b.at),
         held' = [held EXCEPT ![u] = @ \ {b}], shrunk' = shrunk
  PROVE  /\ HeapOK' /\ HeldIn(heap', held')
         /\ \A v \in User : v # u => held'[v] = held[v]
<1>1. b.at \in UsedIn(heap)
  BY DEF HeapInv, HeldIn, BlockOf
<1>2. HeapOK' /\ OneMore(heap', heap, b.at)
  BY <1>1, ReleaseIsSound DEF HeapInv
<1>3. HeldIn(heap', held')
  BY <1>2, HeldLess DEF HeapInv
<1>4. \A v \in User : v # u => held'[v] = held[v]
  BY DEF HeapInv, HeldIn
<1> QED BY <1>2, <1>3, <1>4

LEMMA SizesAreNumbers == Sizes \cup {0} \subseteq Nat
BY SmallMemType

LEMMA ReallocType ==
  ASSUME HeapInv, NEW u \in User, realloc[u] # NoCall
  PROVE  /\ realloc[u] \in [old : HeapBlock, newsize : 0 .. mem_size, copied : BOOLEAN]
         /\ realloc[u].old \in held[u] /\ realloc[u].newsize \in Nat
BY HeapNumbers DEF HeapInv, CallsOK

LEMMA MallocKeeps ==
  ASSUME HeapInv, NEW u \in User, NEW size \in Nat, rt_malloc(u, size)
  PROVE  HeapInv'
<1>1. /\ HeapOK' /\ HeldIn(heap', held')
      /\ \A v \in User : held[v] \subseteq held'[v]
  BY AllocateKeeps DEF rt_malloc
<1>2. CallsOK(held', realloc')
  BY <1>1, CallsOfMore DEF HeapInv, rt_malloc
<1> QED BY <1>1, <1>2 DEF HeapInv

LEMMA FreeKeeps ==
  ASSUME HeapInv, NEW u \in User, NEW b \in held[u], rt_free(u, b)
  PROVE  HeapInv'
<1>1. /\ HeapOK' /\ HeldIn(heap', held')
      /\ \A v \in User : v # u => held'[v] = held[v]
  BY ReleaseKeeps DEF rt_free
<1>2. realloc' = realloc /\ realloc'[u] = NoCall /\ CallsOK(held, realloc')
  BY DEF HeapInv, rt_free
<1>3. CallsOK(held', realloc')
  BY <1>1, <1>2, CallsOfOther
<1> QED BY <1>1, <1>3 DEF HeapInv

LEMMA SameKeeps ==
  ASSUME HeapInv, NEW u \in User, NEW b \in held[u], NEW size \in Nat,
         ReallocSame(u, b, size)
  PROVE  HeapInv'
<1>1. /\ realloc[u] = NoCall /\ size \in 0 .. mem_size /\ Room(heap, b.at) >= size
      /\ UNCHANGED <<heap, lfree, used_mem, realloc, shrunk>>
  BY HeapNumbers DEF ReallocSame, OnBlock
<1>2. OneShorter(heap, heap, b.at)
  BY DEF OneShorter, HeapInv, HeldIn, BlockOf
<1>3. HeldIn(heap, held')
  BY <1>1, <1>2, HeldResized DEF ReallocSame, Resize, HeapInv
<1>4. CallsOK(held', realloc)
  <2>1. \A v \in User : v # u => held'[v] = held[v]
    BY DEF HeapInv, HeldIn, ReallocSame, Resize
  <2> QED BY <1>1, <2>1, CallsOfOther DEF HeapInv
<1>5. HeapOK'
  BY <1>1 DEF HeapInv, HeapOK
<1> QED BY <1>1, <1>3, <1>4, <1>5 DEF HeapInv

LEMMA CutKeeps ==
  ASSUME HeapInv, NEW u \in User, NEW b \in held[u], NEW size \in Nat,
         ReallocCut(u, b, size)
  PROVE  HeapInv'
<1>1. /\ realloc[u] = NoCall /\ size \in 0 .. mem_size /\ realloc' = realloc
      /\ size + Header + MinSize < Room(heap, b.at) /\ CutTo(b.at, size)
  BY HeapNumbers DEF ReallocCut, OnBlock, Cuts, CutTo
<1>2. b.at \in UsedIn(heap) /\ HeapOK
  BY DEF HeapInv, HeldIn, BlockOf
<1>3. HeapOK' /\ OneShorter(heap, heap', b.at) /\ Room(heap', b.at) = size
  BY <1>1, <1>2, CutIsSound
<1>4. Room(heap', b.at) >= size
  BY <1>3
<1>5. HeldIn(heap', held')
  BY <1>1, <1>3, <1>4, HeldResized DEF ReallocCut, Resize, HeapInv
<1>6. CallsOK(held', realloc')
  <2>1. \A v \in User : v # u => held'[v] = held[v]
    BY DEF HeapInv, HeldIn, ReallocCut, Resize
  <2> QED BY <1>1, <2>1, CallsOfOther DEF HeapInv
<1> QED BY <1>3, <1>5, <1>6 DEF HeapInv

LEMMA MovesKeeps ==
  ASSUME HeapInv, NEW u \in User, NEW b \in held[u], NEW size \in Nat,
         ReallocMoves(u, b, size)
  PROVE  HeapInv'
<1> DEFINE call == [old |-> b, newsize |-> size, copied |-> FALSE]
<1>1. /\ size \in 0 .. mem_size /\ realloc' = [realloc EXCEPT ![u] = call]
      /\ UNCHANGED <<heap, lfree, used_mem, held, shrunk>>
  BY HeapNumbers DEF ReallocMoves, OnBlock
<1>2. b \in HeapBlock
  BY DEF HeapInv, HeldIn
<1>3. /\ call \in [old : HeapBlock, newsize : 0 .. mem_size, copied : BOOLEAN]
      /\ call.old = b
  BY <1>1, <1>2
<1> HIDE DEF call
<1>4. CallsOK(held, realloc')
  BY <1>1, <1>3 DEF HeapInv, CallsOK
<1>5. HeapOK'
  BY <1>1 DEF HeapInv, HeapOK
<1> QED BY <1>1, <1>4, <1>5 DEF HeapInv

LEMMA CopiesKeeps ==
  ASSUME HeapInv, NEW u \in User, ReallocCopies(u)
  PROVE  HeapInv'
<1> DEFINE size == realloc[u].newsize
<1>1. realloc[u] # NoCall
  BY DEF ReallocCopies, Moving
<1>2. /\ realloc[u] \in [old : HeapBlock, newsize : 0 .. mem_size, copied : BOOLEAN]
      /\ realloc[u].old \in held[u] /\ size \in Nat
  BY <1>1, ReallocType
<1>3. /\ Granted(size) /\ Allocate(size) /\ shrunk' = shrunk
      /\ held' = [held EXCEPT ![u] = @ \cup {[at |-> Place(size), size |-> size]}]
      /\ realloc' = [realloc EXCEPT ![u].copied = TRUE]
  BY DEF ReallocCopies
<1> HIDE DEF size
<1>4. HeapOK' /\ HeldIn(heap', held') /\ \A v \in User : held[v] \subseteq held'[v]
  BY <1>2, <1>3, AllocateKeeps
<1>5. CallsOK(held, realloc')
  <2>1. PICK r : r = [realloc[u] EXCEPT !.copied = TRUE]
    OBVIOUS
  <2>2. /\ r \in [old : HeapBlock, newsize : 0 .. mem_size, copied : BOOLEAN]
        /\ r.old = realloc[u].old
    BY <1>2, <2>1
  <2>3. realloc' = [realloc EXCEPT ![u] = r]
    BY <1>3, <2>1
  <2> QED BY <1>2, <2>2, <2>3 DEF HeapInv, CallsOK
<1>6. CallsOK(held', realloc')
  BY <1>4, <1>5, CallsOfMore
<1> QED BY <1>4, <1>6 DEF HeapInv

LEMMA FailsKeeps ==
  ASSUME HeapInv, NEW u \in User, ReallocFails(u)
  PROVE  HeapInv'
<1>1. /\ realloc' = [realloc EXCEPT ![u] = NoCall]
      /\ UNCHANGED <<heap, lfree, used_mem, held, shrunk>>
  BY DEF ReallocFails
<1>2. CallsOK(held, realloc')
  BY <1>1 DEF HeapInv, CallsOK
<1>3. HeapOK'
  BY <1>1 DEF HeapInv, HeapOK
<1> QED BY <1>1, <1>2, <1>3 DEF HeapInv

LEMMA FreesKeeps ==
  ASSUME HeapInv, NEW u \in User, ReallocFrees(u)
  PROVE  HeapInv'
<1> DEFINE b == realloc[u].old
<1>1. /\ realloc[u] # NoCall /\ Release(b.at) /\ shrunk' = shrunk
      /\ held' = [held EXCEPT ![u] = @ \ {b}]
      /\ realloc' = [realloc EXCEPT ![u] = NoCall]
  BY DEF ReallocFrees
<1>2. b \in held[u]
  BY <1>1, ReallocType
<1> HIDE DEF b
<1>3. /\ HeapOK' /\ HeldIn(heap', held')
      /\ \A v \in User : v # u => held'[v] = held[v]
  BY <1>1, <1>2, ReleaseKeeps
<1>4. CallsOK(held, realloc') /\ realloc'[u] = NoCall
  BY <1>1 DEF HeapInv, CallsOK
<1>5. CallsOK(held', realloc')
  BY <1>3, <1>4, CallsOfOther
<1> QED BY <1>3, <1>5 DEF HeapInv

LEMMA HeapStepIsSound == HeapInv /\ [HeapNext]_heapvars => HeapInv'
<1> SUFFICES ASSUME HeapInv, [HeapNext]_heapvars PROVE HeapInv'
  OBVIOUS
<1>1. CASE UNCHANGED heapvars
  BY <1>1 DEF heapvars, HeapInv, HeapOK
<1>2. ASSUME NEW u \in User,
             \/ \E size \in Sizes : rt_malloc(u, size)
             \/ \E b \in held[u] : rt_free(u, b)
             \/ \E b \in held[u], size \in Sizes \cup {0} :
                  \/ ReallocSame(u, b, size) \/ ReallocCut(u, b, size)
                  \/ ReallocMoves(u, b, size)
             \/ ReallocCopies(u) \/ ReallocFails(u) \/ ReallocFrees(u)
      PROVE  HeapInv'
  <2>1. ASSUME NEW size \in Sizes, rt_malloc(u, size) PROVE HeapInv'
    BY <2>1, SizesAreNumbers, MallocKeeps
  <2>2. ASSUME NEW b \in held[u], rt_free(u, b) PROVE HeapInv'
    BY <2>2, FreeKeeps
  <2>3. ASSUME NEW b \in held[u], NEW size \in Sizes \cup {0},
               \/ ReallocSame(u, b, size) \/ ReallocCut(u, b, size)
               \/ ReallocMoves(u, b, size)
        PROVE  HeapInv'
    BY <2>3, SizesAreNumbers, SameKeeps, CutKeeps, MovesKeeps
  <2>4. CASE ReallocCopies(u) \/ ReallocFails(u) \/ ReallocFrees(u)
    BY <2>4, CopiesKeeps, FailsKeeps, FreesKeeps
  <2> QED BY <1>2, <2>1, <2>2, <2>3, <2>4
<1> QED BY <1>1, <1>2 DEF HeapNext

LEMMA HeapInvariance == HeapSpec => []HeapInv
<1>1. HeapInit => HeapInv
  BY HeapInitIsSound
<1>2. HeapInv /\ [HeapNext]_heapvars => HeapInv'
  BY HeapStepIsSound
<1> QED BY <1>1, <1>2, PTL DEF HeapSpec

LEMMA HeapInvIsTyped == HeapInv => HeapTypeOK
<1> SUFFICES ASSUME HeapInv PROVE HeapTypeOK
  OBVIOUS
<1>1. HeapOK /\ HeldIn(heap, held) /\ CallsOK(held, realloc)
  BY DEF HeapInv
<1>2. HeapChain(heap) /\ used_mem \in 0 .. heap_end /\ shrunk \in BOOLEAN
  BY <1>1, UnitsAreFinite DEF HeapOK
<1>3. lfree \in DOMAIN heap
  BY <1>1, LfreeFacts DEF HeapOK
<1> QED BY <1>1, <1>2, <1>3 DEF HeapTypeOK, HeapChain, MemHeader, HeldIn, CallsOK

LEMMA HeapInvIsHeld == HeapInv => BlocksAreHeld
<1> SUFFICES ASSUME HeapInv PROVE BlocksAreHeld
  OBVIOUS
<1>1. HeldIn(heap, held) /\ HeapOK
  BY DEF HeapInv
<1>2. \A u \in User : \A b \in held[u] : b.at \in Used /\ Room(heap, b.at) >= b.size
  BY <1>1, UsedUnitsAreUnits DEF HeldIn, BlockOf
<1>3. \A p \in Used : \E u \in User : \E b \in held[u] :
        b.at = p /\ \A v \in User : \A d \in held[v] : d.at = p => u = v /\ d = b
  BY <1>1, UsedUnitsAreUnits DEF HeldIn
<1>4. used_mem = Cardinality(UsedUnits)
  BY <1>1, UsedUnitsAreUnits DEF HeapOK
<1> QED BY <1>2, <1>3, <1>4 DEF BlocksAreHeld

LEMMA HeapInvIsTidy == HeapInv => HeapIsTidy
<1> SUFFICES ASSUME HeapInv PROVE HeapIsTidy
  OBVIOUS
<1>1. HeapChain(heap) /\ Plugged(heap)
  BY DEF HeapInv, HeapOK
<1>2. /\ lfree \in DOMAIN heap /\ (lfree = heap_end \/ ~heap[lfree].used)
      /\ (~shrunk => \A p \in DOMAIN heap : p >= lfree \/ heap[p].used)
  BY LfreeFacts DEF HeapInv, HeapOK
<1>3. ASSUME NEW p \in DOMAIN heap \ {heap_end}
      PROVE  LET n == heap[p].next
             IN  /\ n = First({q \in DOMAIN heap : q > p}) /\ n >= p + Header
                 /\ n # heap_end => heap[n].prev = p
                 /\ heap[p].used \/ heap[n].used
  <2> DEFINE n == heap[p].next
             Q == {q \in DOMAIN heap : q > p}
  <2>1. Followed(heap, p) /\ NotBothFree(heap, p)
    BY <1>1 DEF HeapChain, Plugged
  <2>2. DOMAIN heap \subseteq Nat /\ p \in Nat /\ n \in Nat /\ p < n
    BY <1>1, ChainNumbers
  <2>3. n \in Q /\ Q \subseteq Nat /\ \A q \in Q : n <= q
    BY <2>1, <2>2 DEF Followed
  <2>4. n = First(Q)
    <3> HIDE DEF n, Q
    <3> QED BY <2>3, FirstIs
  <2>5. n >= p + Header
    BY <2>1, <2>2, HeapNumbers DEF Followed
  <2> QED BY <2>1, <2>4, <2>5 DEF Followed, NotBothFree
<1> QED BY <1>1, <1>2, <1>3 DEF HeapIsTidy, HeapChain

\* The header of every block of the chain, lfree, the account and what the
\* users have stay of their types: no address leaves the heap.
THEOREM HeapTypeInvariance == HeapSpec => []HeapTypeOK
BY HeapInvariance, HeapInvIsTyped, PTL

\* A block a user was given stays its own, with the room it asked for, until
\* rt_free or rt_realloc of that user gives it back, whatever the others do
\* between the sections of rt_realloc; no block is lost, and used_mem is the
\* number of the units of the used blocks.
THEOREM HeapKeepsBlocks == HeapSpec => []BlocksAreHeld
BY HeapInvariance, HeapInvIsHeld, PTL

\* The chain of src/mem.c leads through all headers in both directions, no two
\* free blocks follow each other, and lfree is a free block or the end, the
\* lowest one as long as rt_realloc has cut no block.
THEOREM HeapStaysTidy == HeapSpec => []HeapIsTidy
BY HeapInvariance, HeapInvIsTidy, PTL
=============================================================================
