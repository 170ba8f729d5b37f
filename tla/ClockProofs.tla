----------------------------- MODULE ClockProofs -----------------------------
(***************************************************************************)
(* Proofs about the clocks, for buckets, hours, days and weeks of any      *)
(* length: what is counted in another bucket than its own, and when a      *)
(* clock is skipped.                                                       *)
(***************************************************************************)
EXTENDS ClockSplit, WellFoundedInduction, TLAPS

(* Multiples, quotients and remainders.                                    *)

\* A multiple that is larger by one step is larger by the step.
LEMMA Multiples ==
  ASSUME NEW n \in Nat \ {0}, NEW a \in Int, NEW b \in Int, a < b
  PROVE  a * n + n <= b * n
<1>1. PICK d \in Nat : b = a + 1 + d
  <2>1. b - a - 1 \in Nat /\ b = a + 1 + (b - a - 1)
    OBVIOUS
  <2> QED
    BY <2>1
<1>2. b * n = a * n + n + d * n /\ d * n \in Nat
  BY <1>1
<1> QED
  BY <1>2

\* Quotient and remainder are unique.
LEMMA DivMod ==
  ASSUME NEW n \in Nat \ {0}, NEW a \in Int, NEW q \in Int, NEW r \in 0..(n - 1),
         a = q * n + r
  PROVE  a \div n = q /\ a % n = r
<1>1. /\ a \div n \in Int /\ a % n \in 0..(n - 1)
      /\ a = (a \div n) * n + (a % n)
  OBVIOUS
<1>2. ~(a \div n < q)
  BY <1>1, Multiples
<1>3. ~(q < a \div n)
  BY <1>1, Multiples
<1>4. a \div n = q
  BY <1>1, <1>2, <1>3
<1> QED
  BY <1>1, <1>4

\* A number is its quotient and its remainder; ...
LEMMA Remainder ==
  ASSUME NEW n \in Nat \ {0}, NEW a \in Int
  PROVE  a \div n \in Int /\ a % n \in 0..(n - 1) /\ a = (a \div n) * n + (a % n)
OBVIOUS

\* ... a multiple and a rest.
LEMMA Quotient ==
  ASSUME NEW n \in Nat \ {0}, NEW a \in Int
  PROVE  a \div n \in Int /\ \E r \in 0..(n - 1) : a = (a \div n) * n + r
BY Remainder

\* A quotient compared with a number.
LEMMA Compare ==
  ASSUME NEW n \in Nat \ {0}, NEW a \in Int, NEW y \in Int
  PROVE  (y * n <= a <=> y <= a \div n) /\ (a \div n) * n <= a
<1>1. PICK d \in Int, r \in 0..(n - 1) : d = a \div n /\ a = d * n + r
  BY Quotient
<1>2. y * n \in Int /\ d * n \in Int
  OBVIOUS
<1>3. ASSUME y <= d PROVE y * n <= a
  <2>1. CASE y = d
    BY <1>1, <1>2, <2>1
  <2>2. CASE y < d
    <3>1. y * n + n <= d * n
      BY <2>2, Multiples
    <3> QED
      BY <1>1, <1>2, <3>1
  <2> QED
    BY <1>3, <2>1, <2>2
<1>4. ASSUME d < y PROVE a < y * n
  <2>1. d * n + n <= y * n
    BY <1>4, Multiples
  <2> QED
    BY <1>1, <1>2, <2>1
<1> QED
  BY <1>1, <1>2, <1>3, <1>4

\* Products keep the order of their factors.
LEMMA Scaled ==
  ASSUME NEW n \in Nat, NEW a \in Int, NEW b \in Int, a <= b
  PROVE  a * n <= b * n /\ n * a <= n * b /\ a * n \in Int /\ b * n \in Int
<1>1. PICK d \in Nat : b = a + d
  <2>1. b - a \in Nat /\ b = a + (b - a)
    OBVIOUS
  <2> QED
    BY <2>1
<1>2. b * n = a * n + d * n /\ d * n \in Nat /\ a * n \in Int
  BY <1>1
<1>3. n * a = a * n /\ n * b = b * n
  OBVIOUS
<1> QED
  BY <1>2, <1>3

\* m parts of length n, and a part of them that is not complete.
LEMMA Nested ==
  ASSUME NEW n \in Nat \ {0}, NEW m \in Nat \ {0}, NEW i \in 0..(m - 1), NEW r \in 0..(n - 1)
  PROVE  i * n + r \in 0..(m * n - 1) /\ i * n \in Nat
<1>1. i * n \in Nat /\ m * n \in Nat
  OBVIOUS
<1>2. i * n + n <= m * n
  BY Multiples
<1> QED
  BY <1>1, <1>2

-----------------------------------------------------------------------------
(* The loop of the splitters, for any clock and any interval.              *)

\* The loop begins as the invariant wants it.
LEMMA InitInv == Init => IInv
  BY SplitAssumption DEF Init, IInv, TypeOK, Tiling, Resting, Pieces, Span

\* The instants of the interval in hand.
LEMMA CalledInstants ==
  ASSUME <<start, end>> \in Interval
  PROVE  start..(end - 1) \subseteq Instant
<1> DEFINE i == <<start, end>>
<1>1. i \in Interval /\ i[1] = start /\ i[2] = end
  OBVIOUS
<1> HIDE DEF i
<1> QED
  BY <1>1 DEF Instant

\* What is known where a piece is cut.
LEMMA CutFacts ==
  ASSUME IInv, cur < end, Cuttable(clock, cur), Boundary > cur
  PROVE  /\ cur \in Int /\ start \in Int /\ end \in Int /\ start <= cur
         /\ BucketAt(clock, cur) \in Int /\ NextBoundary(clock, cur) \in Int
         /\ Boundary \in Int /\ Boundary <= end /\ Boundary <= NextBoundary(clock, cur)
<1>1. /\ cur \in Int /\ start \in Int /\ end \in Int /\ clock \in Clock
      /\ <<start, end>> \in Interval /\ start <= cur
  BY DEF IInv, TypeOK, Resting
<1>2. cur \in start..(end - 1)
  BY <1>1
<1>3. BucketAt(clock, cur) \in Int /\ NextBoundary(clock, cur) \in Int
  BY <1>1, <1>2, CalledInstants, SplitAssumption
<1>4. Boundary \in Int /\ Boundary <= end /\ Boundary <= NextBoundary(clock, cur)
  BY <1>1, <1>3 DEF Boundary
<1> QED
  BY <1>1, <1>3, <1>4

\* A piece joins the others.
LEMMA CutStep ==
  ASSUME IInv, Cut
  PROVE  IInv'
<1> DEFINE s == [bucket |-> BucketAt(clock, cur), from |-> cur, millis |-> Boundary - cur]
           b == Boundary
<1>1. /\ pc = "loop" /\ cur < end /\ Cuttable(clock, cur) /\ b > cur
      /\ spans' = Append(spans, s) /\ cur' = b
      /\ clock' = clock /\ start' = start /\ end' = end /\ pc' = pc
  BY DEF Cut
<1>2. /\ cur \in Int /\ start \in Int /\ end \in Int /\ start <= cur
      /\ BucketAt(clock, cur) \in Int /\ b \in Int /\ b <= end
  BY <1>1, CutFacts
<1>3. spans \in Seq(Span) /\ s \in Span
  BY <1>2 DEF IInv, TypeOK, Span
<1>4. s.from = cur /\ s.millis = b - cur /\ s.millis > 0 /\ To(s) = b
  BY <1>1, <1>2 DEF To
<1>5. /\ s.bucket = BucketAt(clock, cur) /\ b <= NextBoundary(clock, cur)
      /\ cur \in start..(end - 1) /\ b <= end
  BY <1>1, <1>2, CutFacts
<1> HIDE DEF s, b
<1>6. /\ Len(spans) \in Nat /\ Len(spans') = Len(spans) + 1
      /\ spans' \in Seq(Span) /\ spans' # <<>>
      /\ spans'[Len(spans')] = s
      /\ \A i \in 1..Len(spans) : spans'[i] = spans[i]
  BY <1>1, <1>3
<1>7. TypeOK'
  BY <1>1, <1>2, <1>6 DEF IInv, TypeOK
<1>8. Tiling'
  <2>1. \A i \in 1..Len(spans') : spans'[i].millis > 0
    BY <1>4, <1>6 DEF IInv, Tiling
  <2>2. spans'[1].from = start'
    <3>1. CASE spans = <<>>
      <4>1. Len(spans') = 1 /\ spans'[1] = s
        BY <1>6, <3>1
      <4>2. cur = start
        BY <1>1, <3>1 DEF IInv, Tiling
      <4> QED
        BY <1>1, <1>4, <4>1, <4>2
    <3>2. CASE spans # <<>>
      <4>1. 1 \in 1..Len(spans) /\ spans[1].from = start
        BY <1>3, <3>2 DEF IInv, Tiling
      <4> QED
        BY <1>1, <1>6, <4>1
    <3> QED
      BY <3>1, <3>2
  <2>3. \A i \in 1..(Len(spans') - 1) : spans'[i + 1].from = To(spans'[i])
    <3> SUFFICES ASSUME NEW i \in 1..Len(spans) PROVE spans'[i + 1].from = To(spans'[i])
      BY <1>6
    <3>1. CASE i = Len(spans)
      <4>1. spans # <<>>
        BY <3>1
      <4>2. cur = To(spans[i])
        BY <1>1, <3>1, <4>1 DEF IInv, Tiling
      <4>3. spans'[i + 1] = s /\ spans'[i] = spans[i]
        BY <1>6, <3>1
      <4> QED
        BY <1>4, <4>2, <4>3
    <3>2. CASE i # Len(spans)
      <4>1. i \in 1..(Len(spans) - 1) /\ i + 1 \in 1..Len(spans)
        BY <1>6, <3>2
      <4>2. spans[i + 1].from = To(spans[i])
        BY <4>1 DEF IInv, Tiling
      <4>3. spans'[i + 1] = spans[i + 1] /\ spans'[i] = spans[i]
        BY <1>6, <4>1
      <4> QED
        BY <4>2, <4>3
    <3> QED
      BY <3>1, <3>2
  <2>4. cur' = To(spans'[Len(spans')]) /\ cur' <= end' /\ pc' = "loop"
    BY <1>1, <1>2, <1>4, <1>6
  <2> QED
    BY <1>6, <2>1, <2>2, <2>3, <2>4 DEF Tiling
<1>9. Resting'
  BY <1>1, <1>2 DEF IInv, Resting
<1>10. Pieces'
  <2> SUFFICES ASSUME NEW i \in 1..Len(spans')
               PROVE  /\ spans'[i].from \in start'..(end' - 1)
                      /\ To(spans'[i]) <= end'
                      /\ Cuttable(clock', spans'[i].from)
                      /\ spans'[i].bucket = BucketAt(clock', spans'[i].from)
                      /\ To(spans'[i]) <= NextBoundary(clock', spans'[i].from)
    BY DEF Pieces, To
  <2>1. CASE i = Len(spans')
    BY <1>1, <1>4, <1>6, <1>5, <2>1
  <2>2. CASE i # Len(spans')
    <3>1. i \in 1..Len(spans) /\ spans'[i] = spans[i]
      BY <1>6, <2>2
    <3> QED
      BY <1>1, <3>1 DEF IInv, Pieces
  <2> QED
    BY <2>1, <2>2
<1> QED
  BY <1>7, <1>8, <1>9, <1>10 DEF IInv

\* Steps that cut nothing.
LEMMA StopStep ==
  ASSUME IInv, Raise \/ Return \/ UNCHANGED vars
  PROVE  IInv'
<1>1. CASE Raise
  <2>1. spans' = <<>> /\ spans' \in Seq(Span) /\ Len(spans') = 0
    BY <1>1 DEF Raise
  <2> QED
    BY <1>1, <2>1 DEF Raise, IInv, TypeOK, Tiling, Resting, Pieces
<1>2. CASE Return
  <2>1. /\ pc = "loop" /\ cur >= end /\ pc' = "done" /\ spans' = spans
        /\ cur' = cur /\ start' = start /\ end' = end /\ clock' = clock
    BY <1>2 DEF Return
  <2>2. cur = end /\ start < end
    BY <2>1 DEF IInv, TypeOK, Tiling, Resting, Pieces
  <2>3. spans # <<>> /\ To(spans[Len(spans)]) = end
    BY <2>1, <2>2 DEF IInv, TypeOK, Tiling
  <2> QED
    BY <2>1, <2>3 DEF IInv, TypeOK, Tiling, Resting, Pieces
<1>3. CASE UNCHANGED vars
  BY <1>3 DEF vars, IInv, TypeOK, Tiling, Resting, Pieces
<1> QED
  BY <1>1, <1>2, <1>3

\* IInv holds throughout the loop (bucketing.py:110-120 and its four copies).
THEOREM Invariant == Spec => []IInv
<1>1. IInv /\ [Next]_vars => IInv'
  BY CutStep, StopStep DEF Next
<1> QED
  BY <1>1, InitInv, PTL DEF Spec

\* Whatever the clock, no millisecond of the interval is lost or counted twice
\* (bucketing.py:108-120, 125-137, 257-278, 417-433).
THEOREM TilingHolds == Spec => []Tiling
  BY Invariant, PTL DEF IInv

\* A clock whose boundary search never passes the end of a bucket.
Exact(c) ==
  \A t, u \in Instant :
    Cuttable(c, t) /\ t <= u /\ u < NextBoundary(c, t) => BucketAt(c, u) = BucketAt(c, t)

\* A clock whose boundaries are exact has every millisecond counted in its own
\* bucket (contracts.py:107-110); module ClockSplit says which clocks are.
THEOREM FiledRightlyHolds ==
  ASSUME \A c \in Clock : Exact(c)
  PROVE  Spec => []FiledRightly
<1>1. ASSUME IInv PROVE FiledRightly
  <2> SUFFICES ASSUME NEW i \in 1..Len(spans), NEW u \in Instants(spans[i])
               PROVE  BucketAt(clock, u) = spans[i].bucket
    BY DEF FiledRightly
  <2> DEFINE s == spans[i]  t == s.from
  <2>1. /\ t \in start..(end - 1) /\ To(s) <= end
        /\ Cuttable(clock, t) /\ s.bucket = BucketAt(clock, t)
        /\ To(s) <= NextBoundary(clock, t) /\ clock \in Clock
        /\ s \in Span /\ start \in Int /\ end \in Int
    BY <1>1 DEF IInv, TypeOK, Pieces
  <2>2. start..(end - 1) \subseteq Instant /\ t \in Instant
    BY <1>1, <2>1, CalledInstants DEF IInv, TypeOK
  <2>3. NextBoundary(clock, t) \in Int
    BY <2>1, <2>2, SplitAssumption
  <2>4. u \in t..(NextBoundary(clock, t) - 1) /\ u \in start..(end - 1)
    <3>1. t \in Int /\ To(s) \in Int /\ u \in t..(To(s) - 1)
      BY <2>1 DEF To, Span, Instants
    <3>2. PICK n : n = NextBoundary(clock, t)
      OBVIOUS
    <3>3. PICK m : m = To(s)
      OBVIOUS
    <3>4. u \in t..(n - 1) /\ u \in start..(end - 1)
      <4> HIDE DEF s, t
      <4> QED
        BY <2>1, <2>3, <3>1, <3>2, <3>3
    <3> QED
      BY <3>2, <3>4
  <2>5. u \in Instant /\ t <= u /\ u < NextBoundary(clock, t)
    BY <2>1, <2>2, <2>3, <2>4
  <2> QED
    BY <2>1, <2>2, <2>5 DEF Exact
<1> QED
  BY <1>1, Invariant, PTL

-----------------------------------------------------------------------------
(* Which boundary searches are exact.                                      *)

\* The constants, and the lengths made of them.
LEMMA Lengths ==
  /\ Bucket \in Nat \ {0} /\ BucketsPerHour \in Nat \ {0} /\ HoursPerDay \in Nat \ {0}
  /\ DaysPerWeek \in Nat \ {0} /\ EpochDay \in Int
  /\ Hour \in Nat \ {0} /\ Day \in Nat \ {0} /\ BucketsPerDay \in Nat \ {0}
<1>1. /\ Bucket \in Nat \ {0} /\ BucketsPerHour \in Nat \ {0} /\ HoursPerDay \in Nat \ {0}
      /\ DaysPerWeek \in Nat \ {0} /\ EpochDay \in Int
  BY ClockAssumption
<1>2. \A m, n \in Nat \ {0} : m * n \in Nat \ {0}
  OBVIOUS
<1>3. Hour \in Nat \ {0}
  BY <1>1, <1>2 DEF Hour
<1>4. Day \in Nat \ {0} /\ BucketsPerDay \in Nat \ {0}
  BY <1>1, <1>2, <1>3 DEF Day, BucketsPerDay
<1> QED
  BY <1>1, <1>3, <1>4

\* A time given by its day, hour, 5 minutes and the rest.
At(d, h, k, r) == d * Day + (h * Hour + (k * Bucket + r))

\* The bucket of a time, and the boundary after it, in terms of these.
LEMMA Fields ==
  ASSUME NEW d \in Int, NEW h \in 0..(HoursPerDay - 1), NEW k \in 0..(BucketsPerHour - 1),
         NEW r \in 0..(Bucket - 1)
  PROVE  /\ At(d, h, k, r) \in Int
         /\ At(d, h, k, r) % Hour = k * Bucket + r
         /\ BucketOf(At(d, h, k, r)) =
              ((EpochDay + d) % DaysPerWeek) * BucketsPerDay + h * BucketsPerHour + k
         /\ NextBoundaryUtc(At(d, h, k, r)) = At(d, h, k, r) - r + Bucket
<1> USE Lengths
<1>1. k * Bucket + r \in 0..(Hour - 1) /\ k * Bucket \in Nat
  BY Nested DEF Hour
<1>2. h * Hour + (k * Bucket + r) \in 0..(Day - 1) /\ h * Hour \in Nat
  BY <1>1, Nested DEF Day
<1> DEFINE w == At(d, h, k, r)
<1>3. d * Day \in Int /\ w \in Int
  BY <1>2 DEF At
<1>4. w \div Day = d /\ w % Day = h * Hour + (k * Bucket + r)
  BY <1>2, <1>3, DivMod DEF At
<1>5. (w % Day) \div Hour = h
  <2>1. PICK x : x = k * Bucket + r
    OBVIOUS
  <2>2. PICK y : y = h * Hour + x
    OBVIOUS
  <2>3. x \in 0..(Hour - 1) /\ y \in Int /\ w % Day = y
    BY <1>1, <1>2, <1>4, <2>1, <2>2
  <2>4. y \div Hour = h
    <3>1. h \in Int /\ Hour \in Nat \ {0}
      OBVIOUS
    <3> QED
      BY ONLY <2>2, <2>3, <3>1, DivMod
  <2> QED
    BY <2>3, <2>4
<1>6. w % Hour = k * Bucket + r
  <2>1. d * Day = (d * HoursPerDay) * Hour /\ d * HoursPerDay \in Int
    BY DEF Day
  <2>2. (d * HoursPerDay) * Hour + h * Hour = (d * HoursPerDay + h) * Hour
    BY <2>1
  <2>3. PICK q \in Int : q = d * HoursPerDay + h
    BY <2>1
  <2>4. PICK x \in 0..(Hour - 1) : x = k * Bucket + r
    BY <1>1
  <2>5. w = q * Hour + x
    <3>1. PICK a \in Int : a = d * Day
      BY <1>3
    <3>2. PICK b \in Int : b = h * Hour
      BY <1>2
    <3>3. w = a + (b + x) /\ q * Hour = a + b
      BY <2>1, <2>2, <2>3, <2>4, <3>1, <3>2 DEF At
    <3> QED
      BY <3>1, <3>2, <3>3
  <2>6. w % Hour = x
    BY <1>3, <2>5, DivMod
  <2> QED
    BY <2>4, <2>6
<1>7. (w % Hour) \div Bucket = k
  BY <1>1, <1>6, DivMod
<1>8. BucketOf(w) = ((EpochDay + d) % DaysPerWeek) * BucketsPerDay + h * BucketsPerHour + k
  BY <1>4, <1>5, <1>7 DEF BucketOf, Weekday
<1>9. NextBoundaryUtc(w) = w - r + Bucket
  <2>1. NextBoundaryUtc(w) = w - (w % Hour) + (k + 1) * Bucket
    BY <1>7 DEF NextBoundaryUtc
  <2>2. (k + 1) * Bucket = k * Bucket + Bucket
    OBVIOUS
  <2>3. PICK x \in Nat : x = k * Bucket
    BY <1>1
  <2>4. NextBoundaryUtc(w) = w - (x + r) + (x + Bucket)
    BY <1>6, <2>1, <2>2, <2>3
  <2> QED
    BY <1>3, <2>4
<1> QED
  BY <1>3, <1>6, <1>8, <1>9

\* Every time can be given that way.
LEMMA Decompose ==
  ASSUME NEW w \in Int
  PROVE  \E d \in Int, h \in 0..(HoursPerDay - 1), k \in 0..(BucketsPerHour - 1),
            r \in 0..(Bucket - 1) : w = At(d, h, k, r)
<1> USE Lengths
<1> DEFINE d == w \div Day  m == w % Day  h == m \div Hour  n == m % Hour
           k == n \div Bucket  r == n % Bucket
<1>1. d \in Int /\ m \in 0..(Day - 1) /\ w = d * Day + m
  OBVIOUS
<1>2. h \in Int /\ n \in 0..(Hour - 1) /\ m = h * Hour + n
  BY <1>1
<1>3. k \in Int /\ r \in 0..(Bucket - 1) /\ n = k * Bucket + r
  BY <1>2
<1> HIDE DEF d, m, h, n, k, r
<1>4. h \in 0..(HoursPerDay - 1)
  <2>1. ~(h < 0)
    <3>1. ASSUME h < 0 PROVE FALSE
      <4>1. h * Hour + Hour <= 0 * Hour
        BY <1>2, <3>1, Multiples
      <4> QED
        BY <1>1, <1>2, <4>1
    <3> QED
      BY <3>1
  <2>2. ~(h >= HoursPerDay)
    <3>1. ASSUME h >= HoursPerDay PROVE FALSE
      <4>1. Day <= h * Hour
        <5>1. CASE h = HoursPerDay
          BY <5>1 DEF Day
        <5>2. CASE h > HoursPerDay
          BY <1>2, <5>2, Multiples DEF Day
        <5> QED
          BY <1>2, <3>1, <5>1, <5>2
      <4> QED
        BY <1>1, <1>2, <4>1
    <3> QED
      BY <3>1
  <2> QED
    BY <1>2, <2>1, <2>2
<1>5. k \in 0..(BucketsPerHour - 1)
  <2>1. ~(k < 0)
    <3>1. ASSUME k < 0 PROVE FALSE
      <4>1. k * Bucket + Bucket <= 0 * Bucket
        BY <1>3, <3>1, Multiples
      <4> QED
        BY <1>2, <1>3, <4>1
    <3> QED
      BY <3>1
  <2>2. ~(k >= BucketsPerHour)
    <3>1. ASSUME k >= BucketsPerHour PROVE FALSE
      <4>1. Hour <= k * Bucket
        <5>1. CASE k = BucketsPerHour
          BY <5>1 DEF Hour
        <5>2. CASE k > BucketsPerHour
          BY <1>3, <5>2, Multiples DEF Hour
        <5> QED
          BY <1>3, <3>1, <5>1, <5>2
      <4> QED
        BY <1>2, <1>3, <4>1
    <3> QED
      BY <3>1
  <2> QED
    BY <1>3, <2>1, <2>2
<1>6. w = At(d, h, k, r)
  BY <1>1, <1>2, <1>3 DEF At
<1> QED
  BY <1>1, <1>3, <1>4, <1>5, <1>6

\* Between a wall time and the next boundary the bucket does not change.
LEMMA UtcExact ==
  ASSUME NEW w \in Int
  PROVE  /\ NextBoundaryUtc(w) \in Int /\ NextBoundaryUtc(w) > w
         /\ NextBoundaryUtc(w) <= w + Bucket
         /\ \A u \in w..(NextBoundaryUtc(w) - 1) : BucketOf(u) = BucketOf(w)
<1> USE Lengths
<1>1. PICK d \in Int, h \in 0..(HoursPerDay - 1), k \in 0..(BucketsPerHour - 1),
           r \in 0..(Bucket - 1) : w = At(d, h, k, r)
  BY Decompose
<1>2. NextBoundaryUtc(w) = w - r + Bucket
  BY <1>1, Fields
<1>3. ASSUME NEW u \in w..(NextBoundaryUtc(w) - 1) PROVE BucketOf(u) = BucketOf(w)
  <2>1. u \in Int /\ r + (u - w) \in 0..(Bucket - 1)
    BY <1>2
  <2>2. u = At(d, h, k, r + (u - w))
    <3>1. d * Day \in Int /\ h * Hour \in Int /\ k * Bucket \in Int
      OBVIOUS
    <3> QED
      BY <1>1, <2>1, <3>1 DEF At
  <2> QED
    BY <1>1, <2>1, <2>2, Fields
<1> QED
  BY <1>2, <1>3

\* Times that are whole numbers of buckets.
Aligned(w) == w % Bucket = 0

\* They are multiples of a bucket.
LEMMA AlignedMultiple ==
  ASSUME NEW a \in Int, Aligned(a)
  PROVE  \E p \in Int : a = p * Bucket
<1> USE Lengths
<1>1. PICK p \in Int : a = p * Bucket + (a % Bucket)
  <2>1. a = (a \div Bucket) * Bucket + (a % Bucket) /\ a \div Bucket \in Int
    OBVIOUS
  <2> QED
    BY <2>1
<1>2. a % Bucket = 0 /\ p * Bucket \in Int
  BY DEF Aligned
<1>3. a = p * Bucket
  BY <1>1, <1>2
<1> QED
  BY <1>3

\* Two of them are at least a bucket apart.
LEMMA AlignedGap ==
  ASSUME NEW a \in Int, NEW b \in Int, Aligned(a), Aligned(b), a < b
  PROVE  a + Bucket <= b
<1> USE Lengths
<1>1. PICK p \in Int, q \in Int : a = p * Bucket /\ b = q * Bucket
  BY AlignedMultiple
<1>2. p < q
  <2>1. ASSUME q <= p PROVE FALSE
    <3>1. CASE p = q
      BY <1>1, <3>1
    <3>2. CASE q < p
      <4>1. q * Bucket + Bucket <= p * Bucket
        BY <3>2, Multiples
      <4> QED
        BY <1>1, <4>1
    <3> QED
      BY <2>1, <3>1, <3>2
  <2> QED
    BY <2>1
<1>3. p * Bucket + Bucket <= q * Bucket
  BY <1>2, Multiples
<1> QED
  BY <1>1, <1>3

\* A boundary is aligned, and the first aligned time after w.
LEMMA BoundaryAligned ==
  ASSUME NEW w \in Int, NEW a \in Int, Aligned(a)
  PROVE  /\ Aligned(NextBoundaryUtc(w))
         /\ w < a => NextBoundaryUtc(w) <= a
<1> USE Lengths
<1>1. PICK d \in Int, h \in 0..(HoursPerDay - 1), k \in 0..(BucketsPerHour - 1),
           r \in 0..(Bucket - 1) : w = At(d, h, k, r)
  BY Decompose
<1>2. NextBoundaryUtc(w) = w - r + Bucket
  BY <1>1, Fields
<1>3. PICK q \in Int : w = q * Bucket + r
  <2> DEFINE q == (d * HoursPerDay + h) * BucketsPerHour + k
  <2>1. d * HoursPerDay \in Int
    OBVIOUS
  <2>2. (d * HoursPerDay + h) * BucketsPerHour \in Int
    BY <2>1
  <2>3. d * Day = (d * HoursPerDay) * Hour
    BY DEF Day
  <2>4. (d * HoursPerDay + h) * Hour = (d * HoursPerDay) * Hour + h * Hour
    BY <2>1
  <2>5. (d * HoursPerDay + h) * Hour = ((d * HoursPerDay + h) * BucketsPerHour) * Bucket
    BY <2>1 DEF Hour
  <2>6. q * Bucket = ((d * HoursPerDay + h) * BucketsPerHour) * Bucket + k * Bucket
    BY <2>2
  <2>7. /\ d * Day \in Int /\ h * Hour \in Int /\ k * Bucket \in Int
        /\ (d * HoursPerDay) * Hour \in Int
    BY <2>1
  <2>8. w = q * Bucket + r /\ q \in Int
    BY <1>1, <2>2, <2>3, <2>4, <2>5, <2>6, <2>7 DEF At
  <2> QED
    BY <2>8
<1>4. PICK b \in Int : b = NextBoundaryUtc(w) /\ b = (q + 1) * Bucket /\ b = w - r + Bucket
  BY <1>2, <1>3
<1>5. Aligned(b)
  <2>1. (q + 1) * Bucket \in Int /\ 0 \in 0..(Bucket - 1) /\ q + 1 \in Int
    OBVIOUS
  <2> QED
    BY <1>4, <2>1, DivMod DEF Aligned
<1>6. ASSUME w < a PROVE b <= a
  <2>1. ASSUME a < b PROVE FALSE
    <3>1. a + Bucket <= b
      BY <1>5, <2>1, AlignedGap
    <3> QED
      BY <1>4, <1>6, <3>1
  <2> QED
    BY <2>1
<1> QED
  BY <1>4, <1>5, <1>6

\* The boundary of the local clock, in terms of the one of its wall time.
LEMMA LocalBoundary ==
  ASSUME NEW z, NEW t \in Int, z.before \in Int, z.after \in Int, z.at \in Int
  PROVE  \E fold \in {0, Fold(z, t)} :
           LET ms == Timestamp(z, NextBoundaryUtc(Wall(z, t)), fold)
           IN  NextBoundaryLocal(z, t) = IF ms <= t THEN t + Bucket ELSE ms
<1> USE Lengths
<1> DEFINE w == Wall(z, t)  minute == ((w % Hour) \div Bucket + 1) * Bucket
<1>1. w \in Int
  BY DEF Wall
<1>2. PICK d \in Int, h \in 0..(HoursPerDay - 1), k \in 0..(BucketsPerHour - 1),
           r \in 0..(Bucket - 1) : w = At(d, h, k, r)
  BY <1>1, Decompose
<1>3. NextBoundaryUtc(w) = w - (w % Hour) + minute
  BY DEF NextBoundaryUtc
<1>4. minute <= Hour /\ minute \in Int
  <2>1. (w % Hour) \div Bucket = k
    <3>1. w % Hour = k * Bucket + r /\ k * Bucket + r \in Int
      BY <1>2, Fields
    <3>2. k \in Int /\ Bucket \in Nat \ {0}
      OBVIOUS
    <3>3. PICK x \in Int : x = k * Bucket + r
      BY <3>1
    <3>4. x \div Bucket = k
      BY ONLY <3>2, <3>3, DivMod, r \in 0..(Bucket - 1)
    <3> QED
      BY <3>1, <3>3, <3>4
  <2>2. k * Bucket + Bucket <= BucketsPerHour * Bucket
    BY Multiples
  <2>3. (k + 1) * Bucket = k * Bucket + Bucket
    OBVIOUS
  <2> QED
    BY <2>1, <2>2, <2>3 DEF Hour
<1> HIDE DEF minute, w
<1>5. CASE minute >= Hour
  <2>1. minute = Hour
    BY <1>4, <1>5
  <2>2. /\ Timestamp(z, NextBoundaryUtc(w), 0) = Timestamp(z, w - (w % Hour) + Hour, 0)
    BY <1>3, <2>1
  <2> QED
    BY <1>5, <2>2 DEF NextBoundaryLocal, w, minute
<1>6. CASE ~(minute >= Hour)
  BY <1>3, <1>6 DEF NextBoundaryLocal, w, minute
<1> QED
  BY <1>5, <1>6

\* A zone, with a change of its offset that a bucket of the old time ends at.
IsZone(z) ==
  /\ z.before \in Int /\ z.after \in Int /\ z.at \in Int
  /\ Aligned(z.at + z.before)

\* What a piece of local time covers: except in the repeated hour of a
\* fall-back, only times of the bucket it begins in.
LEMMA LocalPiece ==
  ASSUME NEW z, IsZone(z), NEW t \in Int
  PROVE  /\ NextBoundaryLocal(z, t) \in Int /\ NextBoundaryLocal(z, t) > t
         /\ \A u \in t..(NextBoundaryLocal(z, t) - 1) :
              Fold(z, u) = 0 => BucketOf(Wall(z, u)) = BucketOf(Wall(z, t))
<1> USE Lengths
<1>1. PICK x \in Int, y \in Int, a \in Int : x = z.before /\ y = z.after /\ a = z.at
  BY DEF IsZone
<1>2. PICK w \in Int : w = Wall(z, t) /\ w = IF t < a THEN t + x ELSE t + y
  BY <1>1 DEF Wall
<1>3. PICK b \in Int : b = NextBoundaryUtc(w) /\ b > w /\ b <= w + Bucket
  BY UtcExact
<1>4. /\ w < a + x => b <= a + x
      /\ b < a + x => b + Bucket <= a + x
  <2>1. Aligned(a + x) /\ a + x \in Int
    BY <1>1 DEF IsZone
  <2>2. w < a + x => b <= a + x
    BY <1>3, <2>1, BoundaryAligned
  <2>3. Aligned(b)
    BY <1>3, <2>1, BoundaryAligned
  <2>4. b < a + x => b + Bucket <= a + x
    BY <2>1, <2>3, AlignedGap
  <2> QED
    BY <2>2, <2>4
<1>5. PICK fold, ms :
        /\ fold \in {0, Fold(z, t)} /\ ms = Timestamp(z, b, fold)
        /\ NextBoundaryLocal(z, t) = IF ms <= t THEN t + Bucket ELSE ms
  BY <1>1, <1>2, <1>3, LocalBoundary DEF IsZone
<1>6. fold = 0 => ms = IF b < a + x \/ b < a + y THEN b - x ELSE b - y
  BY <1>1, <1>5 DEF Timestamp
<1>7. fold # 0 => t >= a /\ t + y < a + x /\ fold = 1
  BY <1>1, <1>2, <1>5 DEF Fold
<1>8. fold # 0 => ms = b - y
  BY <1>1, <1>2, <1>3, <1>5, <1>7 DEF Timestamp
<1>9. PICK n \in Int : n = NextBoundaryLocal(z, t) /\ n = IF ms <= t THEN t + Bucket ELSE ms
  BY <1>5, <1>6, <1>8
<1>10. n > t
  BY <1>6, <1>8, <1>9
<1>11. ASSUME NEW u \in t..(n - 1), Fold(z, u) = 0
       PROVE  BucketOf(Wall(z, u)) = BucketOf(w)
  <2>1. PICK v \in Int : v = Wall(z, u) /\ v = IF u < a THEN u + x ELSE u + y
    BY <1>1 DEF Wall
  <2>2. u >= a => u + y >= a + x
    BY <1>1, <1>11, <2>1 DEF Fold
  <2>3. v \in w..(b - 1)
    <3>1. CASE t >= a /\ t + y >= a + x
      BY <1>2, <1>3, <1>6, <1>7, <1>9, <2>1, <2>2, <3>1
    <3>2. CASE t >= a /\ t + y < a + x
      <4>1. b <= a + x /\ b > a + y /\ u >= a /\ u + y >= a + x
        BY <1>2, <1>3, <1>4, <2>2, <3>2
      <4>2. b < a + x => t + Bucket + y < a + x
        BY <1>2, <1>3, <1>4, <3>2
      <4> QED
        BY <1>2, <1>3, <1>6, <1>8, <1>9, <3>2, <4>1, <4>2
    <3>3. CASE t < a
      <4>1. b <= a + x /\ w = t + x /\ fold = 0
        BY <1>2, <1>4, <1>7, <3>3
      <4> QED
        BY <1>3, <1>6, <1>9, <2>1, <2>2, <3>3, <4>1
    <3> QED
      BY <3>1, <3>2, <3>3
  <2>4. v \in w..(NextBoundaryUtc(w) - 1)
    BY <1>3, <2>3
  <2>5. BucketOf(v) = BucketOf(w)
    BY <2>4, UtcExact
  <2> QED
    BY <2>1, <2>5
<1> QED
  BY <1>2, <1>9, <1>10, <1>11

\* The offset of a solar clock is a number.
LEMMA OffsetIs ==
  ASSUME NEW c, NEW o \in Int, NEW g \in Int, o = c.offset, g = c.drift,
         NEW t \in Int, NEW m \in Int, m = t \div Hour
  PROVE  Offset(c, t) = o + g * m /\ Offset(c, t) \in Int
<1>1. Offset(c, t) = c.offset + c.drift * (t \div Hour)
  BY DEF Offset
<1>2. c.offset + c.drift * (t \div Hour) = o + g * m
  BY ZenonT(20)
<1>3. o + g * m \in Int
  OBVIOUS
<1> QED
  BY <1>1, <1>2, <1>3, ZenonT(20)

-----------------------------------------------------------------------------
(* Induction, and bisections.                                              *)

\* A set of natural numbers that has 0 and every successor has all.
LEMMA Induction ==
  ASSUME NEW T \in SUBSET Nat, 0 \in T, \A n \in T : n + 1 \in T
  PROVE  T = Nat
<1> SUFFICES ASSUME Nat \ T # {} PROVE FALSE
  OBVIOUS
<1> DEFINE R == OpToRel(<, Nat)
<1>1. \A x, y \in Nat : y < x => <<y, x>> \in R
  BY DEF OpToRel
<1>2. IsWellFoundedOn(R, Nat)
  BY NatLessThanWellFounded
<1> HIDE DEF R
<1>3. PICK x \in Nat \ T : \A y \in Nat \ T : ~(<<y, x>> \in R)
  BY <1>2, WFMin
<1>4. x - 1 \in Nat /\ x - 1 < x
  BY <1>3
<1>5. x - 1 \in T
  BY <1>1, <1>3, <1>4
<1> QED
  BY <1>3, <1>4, <1>5

\* A set of natural numbers has a least one.
LEMMA Least ==
  ASSUME NEW T \in SUBSET Nat, T # {}
  PROVE  \E n \in T : \A m \in T : n <= m
<1> DEFINE R == OpToRel(<, Nat)
<1>1. \A x, y \in Nat : y < x => <<y, x>> \in R
  BY DEF OpToRel
<1>2. IsWellFoundedOn(R, Nat)
  BY NatLessThanWellFounded
<1> HIDE DEF R
<1>3. PICK x \in T : \A y \in T : ~(<<y, x>> \in R)
  BY <1>2, WFMin
<1>4. \A y \in T : ~(y < x)
  BY <1>1, <1>3
<1> QED
  BY <1>4

\* The middle of a pair of bounds, ...
Middle(p) == p[1] + (p[2] - p[1]) \div 2

\* ... and a round of a bisection that looks for a point of D, unless the
\* middle is not in S.
Halved(f, S, D, t, p) ==
  IF p[2] - p[1] <= 1 THEN p[2]
  ELSE IF Middle(p) \notin S THEN t
  ELSE IF Middle(p) \in D THEN f[<<p[1], Middle(p)>>] ELSE f[<<Middle(p), p[2]>>]

\* f is what the bisection finds, for bounds at most n + 1 apart.
Bisects(f, S, D, t, n) ==
  \A p \in Int \X Int : p[2] - p[1] <= n + 1 => f[p] = Halved(f, S, D, t, p)

\* The middle is between the bounds.
LEMMA MiddleIs ==
  ASSUME NEW p \in Int \X Int, p[2] - p[1] > 1
  PROVE  /\ Middle(p) \in Int /\ p[1] < Middle(p) /\ Middle(p) < p[2]
         /\ <<p[1], Middle(p)>> \in Int \X Int /\ <<Middle(p), p[2]>> \in Int \X Int
<1>1. PICK a \in Int, b \in Int : p[1] = a /\ p[2] = b
  OBVIOUS
<1>2. /\ (b - a) \div 2 \in Int /\ 0 < (b - a) \div 2 /\ (b - a) \div 2 < b - a
  BY <1>1
<1> QED
  BY <1>1, <1>2 DEF Middle

\* A round depends on what is found between closer bounds only.
LEMMA RoundsAgree ==
  ASSUME NEW f, NEW g, NEW S, NEW D, NEW t, NEW p \in Int \X Int,
         \A q \in Int \X Int : q[2] - q[1] < p[2] - p[1] => f[q] = g[q]
  PROVE  Halved(f, S, D, t, p) = Halved(g, S, D, t, p)
<1>1. CASE p[2] - p[1] <= 1
  BY <1>1 DEF Halved
<1>2. CASE p[2] - p[1] > 1
  <2>1. PICK m : m = Middle(p)
    OBVIOUS
  <2>2. /\ m \in Int /\ p[1] < m /\ m < p[2] /\ p[1] \in Int /\ p[2] \in Int
        /\ <<p[1], m>> \in Int \X Int /\ <<m, p[2]>> \in Int \X Int
    BY <1>2, <2>1, MiddleIs
  <2>3. f[<<p[1], m>>] = g[<<p[1], m>>]
    BY <2>2
  <2>4. f[<<m, p[2]>>] = g[<<m, p[2]>>]
    BY <2>2
  <2> QED
    BY <2>1, <2>3, <2>4 DEF Halved
<1> QED
  BY <1>1, <1>2

\* What a round returns.
LEMMA HalvedType ==
  ASSUME NEW g \in [Int \X Int -> Int], NEW S, NEW D, NEW t \in Int, NEW p \in Int \X Int
  PROVE  Halved(g, S, D, t, p) \in Int
<1>1. CASE p[2] - p[1] <= 1
  BY <1>1 DEF Halved
<1>2. CASE p[2] - p[1] > 1
  <2>1. <<p[1], Middle(p)>> \in Int \X Int /\ <<Middle(p), p[2]>> \in Int \X Int
    BY <1>2, MiddleIs
  <2>2. g[<<p[1], Middle(p)>>] \in Int /\ g[<<Middle(p), p[2]>>] \in Int
    BY <2>1
  <2> QED
    BY <1>2, <2>2 DEF Halved
<1> QED
  BY <1>1, <1>2

\* The bisection ends for bounds that are n + 1 apart, whatever n.
LEMMA BisectsUpTo ==
  ASSUME NEW S, NEW D, NEW t \in Int, NEW n \in Nat
  PROVE  \E f \in [Int \X Int -> Int] : Bisects(f, S, D, t, n)
<1> DEFINE T == {k \in Nat : \E f \in [Int \X Int -> Int] : Bisects(f, S, D, t, k)}
<1>1. 0 \in T
  <2>1. PICK f : f = [p \in Int \X Int |-> p[2]]
    OBVIOUS
  <2>2. f \in [Int \X Int -> Int] /\ Bisects(f, S, D, t, 0)
    BY <2>1 DEF Bisects, Halved
  <2> QED
    BY <2>2
<1>2. ASSUME NEW k \in T PROVE k + 1 \in T
  <2>1. PICK g \in [Int \X Int -> Int] : Bisects(g, S, D, t, k)
    OBVIOUS
  <2>2. PICK f : f = [p \in Int \X Int |->
                        IF p[2] - p[1] <= k + 1 THEN g[p] ELSE Halved(g, S, D, t, p)]
    OBVIOUS
  <2>3. f \in [Int \X Int -> Int]
    BY <2>2, HalvedType
  <2>4. \A p \in Int \X Int : f[p] = Halved(g, S, D, t, p)
    BY <2>1, <2>2 DEF Bisects
  <2>5. ASSUME NEW p \in Int \X Int, p[2] - p[1] <= k + 1 + 1
        PROVE  f[p] = Halved(f, S, D, t, p)
    <3>1. ASSUME NEW q \in Int \X Int, q[2] - q[1] < p[2] - p[1] PROVE g[q] = f[q]
      <4>1. q[2] - q[1] <= k + 1
        <5>1. q[1] \in Int /\ q[2] \in Int /\ p[1] \in Int /\ p[2] \in Int /\ k \in Nat
          OBVIOUS
        <5> QED
          BY <2>5, <3>1, <5>1
      <4> QED
        BY <2>2, <4>1
    <3>2. Halved(g, S, D, t, p) = Halved(f, S, D, t, p)
      BY <3>1, RoundsAgree
    <3> QED
      BY <2>4, <3>2
  <2> QED
    BY <2>3, <2>5 DEF Bisects
<1> HIDE DEF T
<1>3. T = Nat
  <2>1. T \in SUBSET Nat
    BY DEF T
  <2> QED
    BY <1>1, <1>2, <2>1, Induction
<1> QED
  BY <1>3 DEF T

\* What it finds is unique.
LEMMA BisectsOnce ==
  ASSUME NEW S, NEW D, NEW t, NEW n \in Nat, NEW f, NEW g,
         Bisects(f, S, D, t, n), Bisects(g, S, D, t, n),
         NEW p \in Int \X Int, p[2] - p[1] <= n + 1
  PROVE  f[p] = g[p]
<1> DEFINE T == {k \in Nat : k <= n =>
                   \A q \in Int \X Int : q[2] - q[1] <= k + 1 => f[q] = g[q]}
<1>1. 0 \in T
  <2>1. ASSUME NEW q \in Int \X Int, q[2] - q[1] <= 1 PROVE f[q] = g[q]
    <3>1. q[2] - q[1] <= n + 1
      <4>1. q[1] \in Int /\ q[2] \in Int
        OBVIOUS
      <4> QED
        BY <2>1, <4>1
    <3>2. Halved(f, S, D, t, q) = q[2] /\ Halved(g, S, D, t, q) = q[2]
      BY <2>1 DEF Halved
    <3>3. f[q] = Halved(f, S, D, t, q) /\ g[q] = Halved(g, S, D, t, q)
      BY <3>1 DEF Bisects
    <3> QED
      BY <3>2, <3>3
  <2> QED
    BY <2>1
<1>2. ASSUME NEW k \in T PROVE k + 1 \in T
  <2>1. SUFFICES ASSUME k + 1 <= n, NEW q \in Int \X Int, q[2] - q[1] <= k + 1 + 1
                 PROVE  f[q] = g[q]
    OBVIOUS
  <2>2. q[2] - q[1] <= n + 1
    BY <2>1
  <2>3. ASSUME NEW r \in Int \X Int, r[2] - r[1] < q[2] - q[1] PROVE f[r] = g[r]
    <3>1. r[2] - r[1] <= k + 1
      <4>1. q[1] \in Int /\ q[2] \in Int /\ r[1] \in Int /\ r[2] \in Int /\ k \in Nat
        OBVIOUS
      <4> QED
        BY <2>1, <2>3, <4>1
    <3> QED
      BY <2>1, <3>1
  <2>4. Halved(f, S, D, t, q) = Halved(g, S, D, t, q)
    BY <2>3, RoundsAgree
  <2> QED
    BY <2>2, <2>4 DEF Bisects
<1> HIDE DEF T
<1>3. T = Nat
  <2>1. T \in SUBSET Nat
    BY DEF T
  <2> QED
    BY <1>1, <1>2, <2>1, Induction
<1>4. n \in T
  BY <1>3
<1> QED
  BY <1>4 DEF T

\* f is the bisection.
Bisection(f, S, D, t) == f = [p \in Int \X Int |-> Halved(f, S, D, t, p)]

\* It is a function of its bounds, ...
LEMMA BisectionExists ==
  ASSUME NEW S, NEW D, NEW t \in Int
  PROVE  \E f : Bisection(f, S, D, t)
<1> DEFINE Apart(p) == IF p[2] - p[1] <= 1 THEN 0 ELSE p[2] - p[1] - 1
           G(n) == CHOOSE g \in [Int \X Int -> Int] : Bisects(g, S, D, t, n)
           f == [p \in Int \X Int |-> G(Apart(p))[p]]
<1>1. \A n \in Nat : Bisects(G(n), S, D, t, n)
  BY BisectsUpTo
<1>2. \A p \in Int \X Int : Apart(p) \in Nat /\ p[2] - p[1] <= Apart(p) + 1
  OBVIOUS
<1>3. ASSUME NEW p \in Int \X Int PROVE f[p] = Halved(f, S, D, t, p)
  <2>1. PICK n \in Nat : n = Apart(p) /\ p[2] - p[1] <= n + 1
    BY <1>2
  <2>2. ASSUME NEW q \in Int \X Int, q[2] - q[1] < p[2] - p[1] PROVE G(n)[q] = f[q]
    <3>1. PICK m \in Nat : m = Apart(q) /\ q[2] - q[1] <= m + 1
      BY <1>2
    <3>2. m <= n
      <4>1. PICK a \in Int, b \in Int : a = p[2] - p[1] /\ b = q[2] - q[1]
        OBVIOUS
      <4>2. n = (IF a <= 1 THEN 0 ELSE a - 1) /\ m = (IF b <= 1 THEN 0 ELSE b - 1) /\ b < a
        BY <2>1, <2>2, <3>1, <4>1
      <4> QED
        BY <4>2
    <3>3. Bisects(G(n), S, D, t, m)
      <4>1. \A r \in Int \X Int : r[2] - r[1] <= m + 1 => r[2] - r[1] <= n + 1
        BY <3>2
      <4> QED
        BY <1>1, <4>1 DEF Bisects
    <3>4. G(n)[q] = G(m)[q]
      <4>1. PICK g, h : g = G(n) /\ h = G(m)
        OBVIOUS
      <4>2. Bisects(g, S, D, t, m) /\ Bisects(h, S, D, t, m)
        BY <1>1, <3>3, <4>1
      <4>3. q[2] - q[1] <= m + 1
        BY <3>1
      <4> HIDE DEF f, Apart, G
      <4>4. g[q] = h[q]
        BY ONLY <4>2, <4>3, BisectsOnce
      <4> QED
        BY <4>1, <4>4
    <3> QED
      BY <3>1, <3>4
  <2>3. Halved(G(n), S, D, t, p) = Halved(f, S, D, t, p)
    <3> HIDE DEF G, f
    <3> QED
      BY <2>2, RoundsAgree
  <2>4. G(n)[p] = Halved(G(n), S, D, t, p)
    BY <1>1, <2>1 DEF Bisects
  <2>5. f[p] = G(n)[p]
    BY <2>1
  <2> QED
    BY <2>3, <2>4, <2>5
<1> HIDE DEF G
<1>4. f = [p \in Int \X Int |-> Halved(f, S, D, t, p)]
  <2>1. PICK h : h = f
    OBVIOUS
  <2>2. h = [p \in Int \X Int |-> h[p]]
    BY <2>1
  <2>3. \A p \in Int \X Int : h[p] = Halved(h, S, D, t, p)
    BY <1>3, <2>1
  <2>4. h = [p \in Int \X Int |-> Halved(h, S, D, t, p)]
    BY <2>2, <2>3
  <2> QED
    BY <2>1, <2>4
<1> QED
  BY <1>4 DEF Bisection

\* ... that finds, round by round, ...
LEMMA BisectionRounds ==
  ASSUME NEW S, NEW D, NEW t, NEW f, Bisection(f, S, D, t), NEW a \in Int, NEW b \in Int
  PROVE  /\ b - a <= 1 => f[<<a, b>>] = b
         /\ b - a > 1 => \E m \in (a + 1)..(b - 1) :
              f[<<a, b>>] = IF m \notin S THEN t
                            ELSE IF m \in D THEN f[<<a, m>>] ELSE f[<<m, b>>]
<1>1. PICK p : p = <<a, b>>
  OBVIOUS
<1>2. p \in Int \X Int /\ p[1] = a /\ p[2] = b
  BY <1>1
<1>3. f[p] = Halved(f, S, D, t, p)
  <2>1. PICK g : g = [q \in Int \X Int |-> Halved(f, S, D, t, q)]
    OBVIOUS
  <2>2. g = f
    BY <2>1, Zenon DEF Bisection
  <2>3. g[p] = Halved(f, S, D, t, p)
    BY ONLY <1>2, <2>1
  <2> QED
    BY <2>2, <2>3
<1>4. b - a <= 1 => f[p] = b
  BY <1>2, <1>3 DEF Halved
<1>5. ASSUME b - a > 1
      PROVE  \E m \in (a + 1)..(b - 1) :
               f[p] = IF m \notin S THEN t ELSE IF m \in D THEN f[<<a, m>>] ELSE f[<<m, b>>]
  <2>1. PICK m : m = Middle(p)
    OBVIOUS
  <2>2. m \in (a + 1)..(b - 1)
    <3>1. p[2] - p[1] > 1
      BY <1>2, <1>5
    <3>2. m \in Int /\ a < m /\ m < b
      BY <1>2, <2>1, <3>1, MiddleIs
    <3> QED
      BY <3>2
  <2>3. f[p] = IF m \notin S THEN t ELSE IF m \in D THEN f[<<a, m>>] ELSE f[<<m, b>>]
    <3>1. ~(b - a <= 1)
      BY <1>5
    <3> QED
      BY <1>2, <1>3, <2>1, <3>1 DEF Halved
  <2> QED
    BY <2>2, <2>3
<1> QED
  BY <1>1, <1>4, <1>5

\* ... a point of D whose predecessor is not in D, or one of the bounds, unless
\* it has looked at a point that is not in S.
LEMMA BisectionFinds ==
  ASSUME NEW S, NEW D, NEW t \in Int, NEW f, Bisection(f, S, D, t),
         NEW lo \in Int, NEW hi \in Int, lo < hi
  PROVE  \/ f[<<lo, hi>>] = t /\ \E m \in lo..hi : m \notin S
         \/ /\ f[<<lo, hi>>] \in (lo + 1)..hi
            /\ f[<<lo, hi>>] - 1 = lo \/ f[<<lo, hi>>] - 1 \in S \ D
<1> DEFINE Found(a, b, r) == \/ r = t /\ \E m \in a..b : m \notin S
                             \/ r \in (a + 1)..b /\ (r - 1 = a \/ r - 1 \in S \ D)
           Finds(n) == \A a, b \in Int : a < b /\ b - a <= n + 1 => Found(a, b, f[<<a, b>>])
           T == {n \in Nat : Finds(n)}
<1>1. ASSUME NEW a \in Int, NEW b \in Int, a < b, b - a <= 1 PROVE Found(a, b, f[<<a, b>>])
  <2>1. f[<<a, b>>] = b
    <3> HIDE DEF Found, Finds, T
    <3> QED
      BY <1>1, BisectionRounds
  <2>2. b = a + 1
    BY <1>1
  <2> QED
    BY <2>1, <2>2
<1>2. 0 \in T
  <2> HIDE DEF Found
  <2> QED
    BY <1>1
<1>3. ASSUME NEW n \in Nat, Finds(n), NEW a \in Int, NEW b \in Int, a < b, b - a <= n + 1 + 1
      PROVE  Found(a, b, f[<<a, b>>])
  <2>1. a < b /\ b - a <= n + 2
    BY <1>3
  <2>2. CASE b - a <= 1
    BY <1>1, <2>1, <2>2
  <2>3. CASE b - a > 1
    <3>1. PICK m \in (a + 1)..(b - 1) :
            f[<<a, b>>] = IF m \notin S THEN t ELSE IF m \in D THEN f[<<a, m>>] ELSE f[<<m, b>>]
      <4>1. Bisection(f, S, D, t)
        OBVIOUS
      <4> HIDE DEF Found, Finds, T
      <4>2. b - a > 1 => \E m \in (a + 1)..(b - 1) :
              f[<<a, b>>] = IF m \notin S THEN t
                            ELSE IF m \in D THEN f[<<a, m>>] ELSE f[<<m, b>>]
        BY ONLY <4>1, BisectionRounds
      <4> QED
        BY <2>3, <4>2
    <3>2. m \in Int /\ a < m /\ m < b
      BY <3>1
    <3>3. Found(a, m, f[<<a, m>>]) /\ Found(m, b, f[<<m, b>>])
      <4>1. m - a <= n + 1 /\ b - m <= n + 1
        BY <2>1, <3>2
      <4> HIDE DEF Found
      <4> QED
        BY <1>3, <3>2, <4>1
    <3>4. CASE m \notin S
      BY <3>1, <3>2, <3>4
    <3>5. CASE m \in S /\ m \in D
      BY <2>1, <3>1, <3>2, <3>3, <3>5
    <3>6. CASE m \in S /\ m \notin D
      BY <2>1, <3>1, <3>2, <3>3, <3>6
    <3> QED
      BY <3>4, <3>5, <3>6
  <2> QED
    BY <2>1, <2>2, <2>3
<1>4. T = Nat
  <2>1. T \in SUBSET Nat
    OBVIOUS
  <2>2. ASSUME NEW n \in T PROVE n + 1 \in T
    <3>1. n \in Nat /\ n + 1 \in Nat /\ Finds(n)
      <4> HIDE DEF Finds
      <4> QED
        OBVIOUS
    <3>2. Finds(n + 1)
      <4> HIDE DEF Found
      <4> QED
        BY <1>3, <3>1
    <3> HIDE DEF Finds
    <3> QED
      BY <3>1, <3>2
  <2> HIDE DEF T
  <2> QED
    BY <1>2, <2>1, <2>2, Induction
<1>5. hi - lo - 1 \in T /\ hi - lo <= (hi - lo - 1) + 1
  <2>1. hi - lo - 1 \in Nat
    OBVIOUS
  <2> HIDE DEF T
  <2> QED
    BY <1>4, <2>1
<1>6. Found(lo, hi, f[<<lo, hi>>])
  <2> HIDE DEF Found
  <2> QED
    BY <1>5
<1> QED
  BY <1>6

-----------------------------------------------------------------------------
(* Unequal hours.                                                          *)

\* A day has four parts, and is made of its buckets.
LEMMA DayParts ==
  \E q \in Nat \ {0} :
    /\ Day = 4 * q /\ Day \div 2 = 2 * q /\ Day \div 4 = q
    /\ Day = BucketsPerDay * Bucket
<1> USE Lengths
<1>1. PICK q \in Int : q = Day \div 4
  OBVIOUS
<1>2. Day = 4 * q /\ q \in Nat \ {0} /\ Day \div 2 = 2 * q
  BY <1>1, SunAssumption
<1>3. Day = BucketsPerDay * Bucket
  BY DEF Day, Hour, BucketsPerDay
<1> QED
  BY <1>1, <1>2, <1>3

\* How many hours begin between two instants.
LEMMA HoursIs ==
  ASSUME NEW t \in Int, NEW d \in Nat
  PROVE  /\ Hours(d) \in Nat
         /\ \A e \in Nat : d <= e => Hours(d) <= Hours(e)
         /\ d <= Hour => Hours(d) <= 1
         /\ (t + d) \div Hour - t \div Hour \in 0..Hours(d)
<1> USE Lengths
<1> DEFINE Whole(y, e) == y * Hour <= e + Hour - 1
<1>1. \A e \in Nat : Hours(e) \in Int /\ \A y \in Int : Whole(y, e) <=> y <= Hours(e)
  <2>1. ASSUME NEW e \in Nat
        PROVE  Hours(e) \in Int /\ \A y \in Int : Whole(y, e) <=> y <= Hours(e)
    <3>1. e + Hour - 1 \in Int
      OBVIOUS
    <3> QED
      BY <3>1, Compare, Quotient DEF Hours
  <2> QED
    BY <2>1
<1>2. \A y \in Int, e \in Nat : d <= e /\ Whole(y, d) => Whole(y, e)
  OBVIOUS
<1>3. Hours(d) \in Nat
  <2>1. Whole(0, d)
    OBVIOUS
  <2> HIDE DEF Whole
  <2> QED
    BY <1>1, <2>1
<1>4. ASSUME NEW e \in Nat, d <= e PROVE Hours(d) <= Hours(e)
  <2> HIDE DEF Whole
  <2>1. PICK x \in Int : x = Hours(d) /\ x <= x
    BY <1>3
  <2>2. Whole(x, d)
    BY <1>1, <2>1
  <2>3. Whole(x, e)
    BY <1>2, <1>4, <2>2
  <2> QED
    BY <1>1, <2>1, <2>3
<1>5. ASSUME d <= Hour PROVE Hours(d) <= 1
  <2>1. ~Whole(2, d)
    BY <1>5
  <2> HIDE DEF Whole
  <2>2. ~(2 <= Hours(d))
    BY <1>1, <2>1
  <2> QED
    BY <1>3, <2>2
<1>6. (t + d) \div Hour - t \div Hour \in 0..Hours(d)
  <2>1. PICK m \in Int, r \in 0..(Hour - 1) : m = t \div Hour /\ t = m * Hour + r
    BY Quotient
  <2>2. PICK n \in Int, s \in 0..(Hour - 1) : n = (t + d) \div Hour /\ t + d = n * Hour + s
    <3>1. t + d \in Int
      OBVIOUS
    <3> QED
      BY <3>1, Quotient
  <2>3. m * Hour <= t + d /\ t + d \in Int
    BY <2>1
  <2>4. m <= n
    BY <2>2, <2>3, Compare
  <2>5. Whole(n - m, d)
    <3>1. (n - m) * Hour = n * Hour - m * Hour
      OBVIOUS
    <3>2. PICK x \in Int, y \in Int : x = n * Hour /\ y = m * Hour
      OBVIOUS
    <3> QED
      BY <2>1, <2>2, <3>1, <3>2
  <2>6. n - m <= Hours(d)
    <3> HIDE DEF Whole
    <3> QED
      BY <1>1, <2>5
  <2> QED
    BY <1>3, <2>1, <2>2, <2>4, <2>6
<1> QED
  BY <1>3, <1>4, <1>5, <1>6

\* A clock of unequal hours.
SunClock(c) ==
  /\ c.kind = "unequal" /\ c.offset \in Int /\ c.drift \in Int
  /\ c.half \in [0..(DaysPerWeek - 1) -> 0..(Day \div 2 - 1)]
  /\ Back(c) * Hours(LookAhead) <= Minute
  /\ ProbeLimit * Minute + Move(c) * Hours(ProbeLimit * Minute) <= Day

SolarTime(c, t) == t + Offset(c, t)

\* How far solar time comes while d passes.
LEMMA SolarTimeRuns ==
  ASSUME NEW c, SunClock(c), NEW t \in Int, NEW d \in Nat
  PROVE  /\ SolarTime(c, t) \in Int /\ SolarTime(c, t + d) \in Int
         /\ Back(c) \in Nat /\ Move(c) \in Nat /\ (c.drift >= 0 => Back(c) = 0)
         /\ SolarTime(c, t) + d - Back(c) * Hours(d) <= SolarTime(c, t + d)
         /\ SolarTime(c, t + d) <= SolarTime(c, t) + d + Move(c) * Hours(d)
<1> USE Lengths
<1>1. PICK o \in Int, g \in Int : o = c.offset /\ g = c.drift
  BY DEF SunClock
<1>2. PICK m \in Int, n \in Int : m = t \div Hour /\ n = (t + d) \div Hour
  <2>1. t + d \in Int
    OBVIOUS
  <2> QED
    BY <2>1, Quotient
<1>3. PICK h \in Nat : h = Hours(d) /\ n - m \in 0..h
  BY <1>2, HoursIs
<1>4. Offset(c, t) = o + g * m /\ Offset(c, t + d) = o + g * n
  <2>1. t + d \in Int
    OBVIOUS
  <2>2. Offset(c, t) = o + g * m
    BY ONLY <1>1, <1>2, OffsetIs
  <2>3. Offset(c, t + d) = o + g * n
    BY ONLY <1>1, <1>2, <2>1, OffsetIs
  <2> QED
    BY <2>2, <2>3
<1>5. PICK k \in 0..h : k = n - m
  BY <1>3
<1>6. g * n = g * m + g * k /\ g * m \in Int /\ g * k \in Int
  BY <1>5
<1>7. PICK x \in Int, y \in Int :
        x = SolarTime(c, t) /\ y = SolarTime(c, t + d) /\ y = x + d + g * k
  BY <1>4, <1>6 DEF SolarTime
<1>8. PICK b \in Nat, v \in Nat :
        /\ b = Back(c) /\ b = (IF g < 0 THEN -g ELSE 0)
        /\ v = Move(c) /\ v = (IF g < 0 THEN -g ELSE g)
  <2>1. c.drift = g /\ c.kind = "unequal"
    BY <1>1 DEF SunClock
  <2>2. Back(c) = (IF g < 0 THEN -g ELSE 0) /\ Move(c) = (IF g < 0 THEN -g ELSE g)
    BY ONLY <2>1 DEF Back, Move
  <2> QED
    BY <2>2
<1>9. -(b * h) <= g * k /\ g * k <= v * h /\ b * h \in Nat /\ v * h \in Nat
  <2>1. CASE g < 0
    <3>1. PICK f \in Nat : f = -g /\ b = f /\ v = f
      BY ONLY <1>8, <2>1
    <3>2. f * k <= f * h /\ f * k \in Nat /\ f * h \in Nat
      BY Scaled
    <3>3. g * k = -(f * k)
      BY <3>1
    <3> QED
      BY <3>1, <3>2, <3>3
  <2>2. CASE g >= 0
    <3>1. g \in Nat /\ b = 0 /\ v = g
      BY ONLY <1>8, <2>2
    <3>2. g * k <= g * h /\ g * k \in Nat /\ g * h \in Nat /\ b * h = 0
      BY <3>1, Scaled
    <3> QED
      BY <3>1, <3>2
  <2> QED
    BY <2>1, <2>2
<1>10. c.drift >= 0 => Back(c) = 0
  <2>1. g >= 0 => b = 0
    BY ONLY <1>8
  <2>2. c.drift >= 0 => g >= 0
    BY ONLY <1>1, Zenon
  <2> QED
    BY <1>8, <2>1, <2>2
<1>11. x + d - b * h <= y /\ y <= x + d + v * h
  BY ONLY <1>6, <1>7, <1>9
<1> QED
  BY <1>3, <1>7, <1>8, <1>10, <1>11

\* How far a clock has come that needs n for p, after a.
Rate(a, p, n) == (a * p) \div n

\* If it goes at half speed at least, it comes at least half as far.
LEMMA RateIs ==
  ASSUME NEW p \in Nat \ {0}, NEW n \in Nat \ {0}, n <= 2 * p,
         NEW a \in Nat, NEW b \in Nat, a <= b
  PROVE  /\ Rate(a, p, n) \in Nat /\ Rate(b, p, n) \in Nat
         /\ \A x \in Nat : 2 * x <= b - a => Rate(a, p, n) + x <= Rate(b, p, n)
         /\ \A e \in Nat : b * p = e * n => b - a <= 2 * (e - Rate(a, p, n))
         /\ \A e \in Nat : b * p < e * n => Rate(b, p, n) < e
<1>1. PICK u \in Int, v \in Int : u = Rate(a, p, n) /\ v = Rate(b, p, n)
  <2>1. a * p \in Int /\ b * p \in Int
    OBVIOUS
  <2> QED
    BY <2>1, Quotient DEF Rate
<1>2. /\ a * p \in Nat /\ b * p \in Nat /\ u * n <= a * p /\ u * n \in Int
      /\ \A y \in Int : y * n <= b * p <=> y <= v
      /\ \A y \in Int : y * n <= a * p <=> y <= u
  <2>1. a * p \in Nat /\ b * p \in Nat /\ u * n \in Int
    OBVIOUS
  <2> QED
    BY <1>1, <2>1, Compare DEF Rate
<1>3. u \in Nat /\ v \in Nat
  <2>1. 0 * n <= a * p /\ 0 * n <= b * p
    BY <1>2
  <2>2. 0 <= u /\ 0 <= v
    BY <1>2, <2>1
  <2> QED
    BY <2>2
<1>4. ASSUME NEW x \in Nat, 2 * x <= b - a PROVE u + x <= v
  <2>1. x * n <= x * (2 * p) /\ x * n \in Int /\ x * (2 * p) \in Int
    BY Scaled
  <2>2. (2 * x) * p <= (b - a) * p
    BY <1>4, Scaled
  <2>3. (b - a) * p = b * p - a * p /\ (2 * x) * p = x * (2 * p)
    OBVIOUS
  <2>4. (u + x) * n = u * n + x * n
    OBVIOUS
  <2>5. (u + x) * n <= b * p
    BY <1>2, <2>1, <2>2, <2>3, <2>4
  <2> QED
    BY <1>2, <2>5
<1>5. ASSUME NEW e \in Nat, b * p = e * n PROVE b - a <= 2 * (e - u)
  <2>1. SUFFICES ASSUME 2 * (e - u) < b - a PROVE FALSE
    OBVIOUS
  <2>2. (2 * (e - u)) * n + n <= (b - a) * n
    BY <2>1, Multiples
  <2>3. (b - a) * n <= (b - a) * (2 * p)
    BY Scaled
  <2>4. (b - a) * (2 * p) = 2 * (b * p) - 2 * (a * p)
    OBVIOUS
  <2>5. (2 * (e - u)) * n = 2 * (e * n) - 2 * (u * n)
    OBVIOUS
  <2>6. (b - a) * n \in Int /\ e * n \in Int
    OBVIOUS
  <2> QED
    BY <1>2, <1>5, <2>2, <2>3, <2>4, <2>5, <2>6
<1>6. ASSUME NEW e \in Nat, b * p < e * n PROVE v < e
  <2>1. e * n \in Int
    OBVIOUS
  <2> QED
    BY <1>2, <1>6, <2>1
<1> QED
  BY <1>1, <1>3, <1>4, <1>5, <1>6

\* The pseudo time of a day of length 4q, at m, if the sun is up for 2h of it.
Pseudo(q, h, m) ==
  IF m < 2 * q - h THEN Rate(m, 2 * q, 2 * (2 * q - h))
  ELSE IF m < 2 * q + h THEN q + Rate(m - (2 * q - h), 2 * q, 2 * h)
  ELSE 3 * q + Rate(m - (2 * q + h), 2 * q, 2 * (2 * q - h))

\* It runs through the day, at half speed at least.
LEMMA PseudoRuns ==
  ASSUME NEW q \in Nat \ {0}, NEW h \in 1..(2 * q - 1), NEW m \in 0..(4 * q - 1),
         NEW n \in 0..(4 * q - 1), m <= n, NEW x \in Nat, 2 * x <= n - m
  PROVE  /\ Pseudo(q, h, m) \in 0..(4 * q - 1) /\ Pseudo(q, h, n) \in 0..(4 * q - 1)
         /\ Pseudo(q, h, m) + x <= Pseudo(q, h, n)
<1> DEFINE N == 2 * q - h
           F(a) == Rate(a, 2 * q, 2 * N)
           G(a) == Rate(a, 2 * q, 2 * h)
<1>1. /\ N \in Nat \ {0} /\ 2 * N \in Nat \ {0} /\ 2 * q \in Nat \ {0} /\ 2 * h \in Nat \ {0}
      /\ 2 * N <= 2 * (2 * q) /\ 2 * h <= 2 * (2 * q) /\ 2 * h \in Nat /\ h \in Nat
  OBVIOUS
<1>2. N * (2 * q) = q * (2 * N) /\ (2 * h) * (2 * q) = (2 * q) * (2 * h)
  OBVIOUS
<1>3. /\ \A a \in Nat : F(a) \in Nat /\ G(a) \in Nat
      /\ \A a, b \in Nat, y \in Nat :
           a <= b /\ 2 * y <= b - a => F(a) + y <= F(b) /\ G(a) + y <= G(b)
  <2>1. ASSUME NEW a \in Nat, NEW b \in Nat, a <= b
        PROVE  /\ F(a) \in Nat /\ G(a) \in Nat
               /\ \A y \in Nat : 2 * y <= b - a => F(a) + y <= F(b) /\ G(a) + y <= G(b)
    <3> HIDE DEF N
    <3> QED
      BY <1>1, <2>1, RateIs
  <2> HIDE DEF F, G
  <2> QED
    BY <2>1
<1>4. \A a \in 0..(N - 1) : F(a) < q /\ N - a <= 2 * (q - F(a))
  <2>1. ASSUME NEW a \in 0..(N - 1) PROVE F(a) < q /\ N - a <= 2 * (q - F(a))
    <3>1. a \in Nat /\ a <= N /\ N \in Nat /\ a <= a
      BY <1>1
    <3>2. N - a <= 2 * (q - F(a))
      <4> HIDE DEF N
      <4> QED
        BY <1>1, <1>2, <3>1, RateIs
    <3>3. F(a) \in Nat
      BY <1>3, <3>1
    <3> HIDE DEF F
    <3> QED
      BY <3>1, <3>2, <3>3
  <2> QED
    BY <2>1
<1>5. \A a \in 0..(2 * h - 1) : G(a) < 2 * q /\ 2 * h - a <= 2 * (2 * q - G(a))
  <2>1. ASSUME NEW a \in 0..(2 * h - 1) PROVE G(a) < 2 * q /\ 2 * h - a <= 2 * (2 * q - G(a))
    <3>1. a \in Nat /\ a <= 2 * h /\ 2 * h \in Nat
      BY <1>1
    <3>2. 2 * h - a <= 2 * (2 * q - G(a))
      BY <1>1, <1>2, <3>1, RateIs
    <3>3. G(a) \in Nat
      BY <1>3, <3>1
    <3> HIDE DEF G
    <3> QED
      BY <3>1, <3>2, <3>3
  <2> QED
    BY <2>1
<1>6. \A a \in Nat : a <= 2 * F(a) + 1 /\ a <= 2 * G(a) + 1
  <2>1. ASSUME NEW a \in Nat PROVE a <= 2 * F(a) + 1 /\ a <= 2 * G(a) + 1
    <3>1. a \div 2 \in Nat /\ 2 * (a \div 2) <= a - 0 /\ a <= 2 * (a \div 2) + 1 /\ 0 <= a
      OBVIOUS
    <3>2. F(0) + (a \div 2) <= F(a) /\ G(0) + (a \div 2) <= G(a)
      <4> HIDE DEF F, G
      <4> QED
        BY <1>3, <3>1
    <3>3. F(0) \in Nat /\ G(0) \in Nat /\ F(a) \in Nat /\ G(a) \in Nat
      BY <1>3
    <3> HIDE DEF F, G
    <3> QED
      BY <3>1, <3>2, <3>3
  <2> QED
    BY <2>1
<1>7. PICK i \in Int, j \in Int : i = Pseudo(q, h, m) /\ j = Pseudo(q, h, n)
  <2>1. ASSUME NEW a \in 0..(4 * q - 1) PROVE Pseudo(q, h, a) \in Int
    <3>1. CASE a < N
      <4>1. F(a) \in Nat
        BY <1>3
      <4> QED
        BY <3>1, <4>1 DEF Pseudo
    <3>2. CASE ~(a < N) /\ a < 2 * q + h
      <4>1. a - N \in Nat
        BY <3>2
      <4>2. G(a - N) \in Nat
        BY <1>3, <4>1
      <4> QED
        BY <3>2, <4>2 DEF Pseudo
    <3>3. CASE ~(a < N) /\ ~(a < 2 * q + h)
      <4>1. a - (2 * q + h) \in Nat
        BY <3>3
      <4>2. F(a - (2 * q + h)) \in Nat
        BY <1>3, <4>1
      <4> QED
        BY <3>3, <4>2 DEF Pseudo
    <3> QED
      BY <3>1, <3>2, <3>3
  <2> QED
    BY <2>1
<1>8. \A a \in 0..(4 * q - 1) :
        Pseudo(q, h, a) = IF a < N THEN F(a)
                          ELSE IF a < 2 * q + h THEN q + G(a - N) ELSE 3 * q + F(a - (2 * q + h))
  BY DEF Pseudo
<1> HIDE DEF F, G
<1>9. CASE n < N
  <2>1. m \in 0..(N - 1) /\ n \in 0..(N - 1) /\ m \in Nat /\ n \in Nat
    BY <1>9
  <2>2. /\ F(m) < q /\ F(m) \in Nat /\ F(n) < q /\ F(n) \in Nat /\ F(m) + x <= F(n)
    BY <1>3, <1>4, <2>1
  <2>3. Pseudo(q, h, m) = F(m) /\ Pseudo(q, h, n) = F(n)
    BY <1>8, <1>9
  <2> QED
    BY <2>2, <2>3
<1>10. CASE m < N /\ N <= n /\ n < 2 * q + h
  <2>1. n - N \in 0..(2 * h - 1) /\ m \in 0..(N - 1)
    BY <1>10
  <2>2. G(n - N) < 2 * q /\ n - N <= 2 * G(n - N) + 1 /\ G(n - N) \in Nat
    BY <1>3, <1>5, <1>6, <2>1
  <2>3. F(m) < q /\ N - m <= 2 * (q - F(m)) /\ F(m) \in Nat
    BY <1>3, <1>4, <2>1
  <2>4. Pseudo(q, h, m) = F(m) /\ Pseudo(q, h, n) = q + G(n - N)
    BY <1>8, <1>10
  <2> QED
    BY <2>1, <2>2, <2>3, <2>4
<1>11. CASE m < N /\ 2 * q + h <= n
  <2>1. n - (2 * q + h) \in 0..(N - 1) /\ m \in 0..(N - 1)
    BY <1>11
  <2>2. PICK f \in Nat : f = F(n - (2 * q + h)) /\ f < q /\ n - (2 * q + h) <= 2 * f + 1
    <3>1. PICK a \in 0..(N - 1) : a = n - (2 * q + h) /\ a \in Nat
      BY <2>1
    <3>2. F(a) \in Nat /\ F(a) < q /\ a <= 2 * F(a) + 1
      BY <1>3, <1>4, <1>6, <3>1
    <3> QED
      BY <3>1, <3>2
  <2>3. F(m) < q /\ N - m <= 2 * (q - F(m)) /\ F(m) \in Nat
    BY <1>3, <1>4, <2>1
  <2>4. Pseudo(q, h, m) = F(m) /\ Pseudo(q, h, n) = 3 * q + f
    BY <1>8, <1>11, <2>2
  <2> QED
    BY <2>1, <2>2, <2>3, <2>4
<1>12. CASE N <= m /\ n < 2 * q + h
  <2>1. m - N \in 0..(2 * h - 1) /\ n - N \in 0..(2 * h - 1)
    BY <1>12
  <2>2. G(n - N) < 2 * q /\ G(m - N) < 2 * q /\ G(n - N) \in Nat /\ G(m - N) \in Nat
    BY <1>3, <1>5, <2>1
  <2>3. G(m - N) + x <= G(n - N)
    BY <1>3, <2>1
  <2>4. Pseudo(q, h, m) = q + G(m - N) /\ Pseudo(q, h, n) = q + G(n - N)
    BY <1>8, <1>12
  <2> QED
    BY <2>2, <2>3, <2>4
<1>13. CASE N <= m /\ m < 2 * q + h /\ 2 * q + h <= n
  <2>1. m - N \in 0..(2 * h - 1) /\ n - (2 * q + h) \in 0..(N - 1)
    BY <1>13
  <2>2. PICK f \in Nat : f = F(n - (2 * q + h)) /\ f < q /\ n - (2 * q + h) <= 2 * f + 1
    <3>1. PICK a \in 0..(N - 1) : a = n - (2 * q + h) /\ a \in Nat
      BY <2>1
    <3>2. F(a) \in Nat /\ F(a) < q /\ a <= 2 * F(a) + 1
      BY <1>3, <1>4, <1>6, <3>1
    <3> QED
      BY <3>1, <3>2
  <2>3. PICK g \in Nat : g = G(m - N) /\ g < 2 * q /\ 2 * h - (m - N) <= 2 * (2 * q - g)
    BY <1>3, <1>5, <2>1
  <2>4. Pseudo(q, h, m) = q + g /\ Pseudo(q, h, n) = 3 * q + f
    BY <1>8, <1>13, <2>2, <2>3
  <2> QED
    BY <2>1, <2>2, <2>3, <2>4
<1>14. CASE 2 * q + h <= m
  <2>1. m - (2 * q + h) \in 0..(N - 1) /\ n - (2 * q + h) \in 0..(N - 1)
    BY <1>14
  <2>2. PICK f \in Nat, g \in Nat :
          f = F(n - (2 * q + h)) /\ g = F(m - (2 * q + h)) /\ f < q /\ g < q /\ g + x <= f
    <3>1. PICK a \in 0..(N - 1), b \in 0..(N - 1) :
            /\ a = n - (2 * q + h) /\ b = m - (2 * q + h) /\ a \in Nat /\ b \in Nat
            /\ b <= a /\ 2 * x <= a - b
      BY <2>1
    <3>2. F(a) \in Nat /\ F(a) < q /\ F(b) \in Nat /\ F(b) < q /\ F(b) + x <= F(a)
      BY <1>3, <1>4, <3>1
    <3> QED
      BY <3>1, <3>2
  <2>3. Pseudo(q, h, m) = 3 * q + g /\ Pseudo(q, h, n) = 3 * q + f
    BY <1>8, <1>14, <2>2
  <2> QED
    BY <2>2, <2>3
<1> QED
  BY <1>9, <1>10, <1>11, <1>12, <1>13, <1>14

\* The pseudo time of an instant.
SunTime(c, t) ==
  Pseudo(Day \div 4, HalfDay(c, SolarDay(c, t)), SolarTime(c, t) % Day)

\* Where a day with sunrise and sunset begins, and how long it is.
LEMMA SunDay ==
  ASSUME NEW c, SunClock(c), NEW t \in Int, SunDefined(c, t),
         NEW q \in Nat \ {0}, Day = 4 * q, Day \div 2 = 2 * q
  PROVE  /\ SolarTime(c, t) \in Int /\ SolarDay(c, t) \in Int
         /\ SolarTime(c, t) % Day \in 0..(4 * q - 1)
         /\ SolarTime(c, t) = SolarDay(c, t) * Day + (SolarTime(c, t) % Day)
         /\ HalfDay(c, SolarDay(c, t)) \in 1..(2 * q - 1)
<1> USE Lengths
<1>1. PICK w \in Int : w = SolarTime(c, t)
  <2>1. 0 \in Nat
    OBVIOUS
  <2> QED
    BY <2>1, SolarTimeRuns
<1>2. PICK d \in Int : d = SolarDay(c, t) /\ d = w \div Day
  <2>1. w \div Day \in Int
    BY <1>1
  <2> QED
    BY <1>1, <2>1 DEF SolarDay, SolarTime
<1>3. w % Day \in 0..(Day - 1) /\ w = d * Day + (w % Day)
  BY <1>1, <1>2, Remainder
<1>4. d % DaysPerWeek \in 0..(DaysPerWeek - 1)
  OBVIOUS
<1>5. HalfDay(c, d) \in 0..(2 * q - 1)
  <2>1. PICK f : f = c.half
    OBVIOUS
  <2>2. f \in [0..(DaysPerWeek - 1) -> 0..(2 * q - 1)]
    BY <2>1 DEF SunClock
  <2>3. f[d % DaysPerWeek] \in 0..(2 * q - 1)
    BY ONLY <1>4, <2>2
  <2> QED
    BY <2>1, <2>3 DEF HalfDay
<1>6. HalfDay(c, d) # 0
  BY <1>2 DEF SunDefined
<1> QED
  BY <1>1, <1>2, <1>3, <1>5, <1>6

\* The bucket of an instant: its weekday and the bucket of its pseudo time.
LEMMA BucketIs ==
  ASSUME NEW c, SunClock(c), NEW t \in Int, SunDefined(c, t)
  PROVE  /\ SunTime(c, t) \in 0..(Day - 1)
         /\ SunTime(c, t) \div Bucket \in 0..(BucketsPerDay - 1)
         /\ Weekday(SolarTime(c, t)) \in Int
         /\ BucketUnequal(c, t) =
              Weekday(SolarTime(c, t)) * BucketsPerDay + SunTime(c, t) \div Bucket
<1> USE Lengths
<1>1. PICK q \in Nat \ {0} : /\ Day = 4 * q /\ Day \div 2 = 2 * q /\ Day \div 4 = q
                             /\ Day = BucketsPerDay * Bucket
  BY DayParts
<1>2. PICK w \in Int, m \in 0..(4 * q - 1), h \in 1..(2 * q - 1) :
        w = SolarTime(c, t) /\ m = w % Day /\ h = HalfDay(c, SolarDay(c, t))
  BY <1>1, SunDay
<1>3. PICK p \in 0..(4 * q - 1) : p = SunTime(c, t) /\ p = Pseudo(q, h, m)
  <2>1. m <= m /\ 0 \in Nat /\ 2 * 0 <= m - m
    OBVIOUS
  <2>2. Pseudo(q, h, m) \in 0..(4 * q - 1)
    BY <2>1, PseudoRuns
  <2> QED
    BY <1>1, <1>2, <2>2 DEF SunTime
<1>4. p \div Bucket \in 0..(BucketsPerDay - 1)
  <2>1. p \div Bucket \in Int /\ p \in Int
    OBVIOUS
  <2>2. 0 * Bucket <= p /\ ~(BucketsPerDay * Bucket <= p)
    BY <1>1
  <2>3. 0 <= p \div Bucket
    BY <2>1, <2>2, Compare
  <2>4. ~(BucketsPerDay <= p \div Bucket)
    BY <2>1, <2>2, Compare
  <2> QED
    BY <2>1, <2>3, <2>4
<1>5. Weekday(w) \in Int
  <2>1. w \div Day \in Int
    OBVIOUS
  <2> QED
    BY <2>1 DEF Weekday
<1> DEFINE dusk == IF m >= 2 * q + h THEN m - (2 * q + h) ELSE m + 4 * q - (2 * q + h)
           raw == IF 2 * q - h <= m /\ m < 2 * q + h
                    THEN q + ((m - (2 * q - h)) * (2 * q)) \div (2 * h)
                    ELSE 3 * q + (dusk * (2 * q)) \div (4 * q - 2 * h)
<1>6. BucketUnequal(c, t) = Weekday(w) * BucketsPerDay + (raw % Day) \div Bucket
  <2>1. w = t + Offset(c, t)
    BY <1>2 DEF SolarTime
  <2>2. /\ 2 * q - h = Day \div 2 - h /\ 2 * q + h = Day \div 2 + h
        /\ 3 * q = 3 * (Day \div 4) /\ 4 * q = Day /\ 2 * q = Day \div 2 /\ q = Day \div 4
    BY <1>1
  <2> QED
    BY <1>2, <2>1, <2>2, Zenon DEF BucketUnequal
<1>7. raw % Day = p
  <2>1. 2 * (2 * q - h) = 4 * q - 2 * h
    OBVIOUS
  <2>2. CASE 2 * q - h <= m /\ m < 2 * q + h
    <3>1. raw = p
      BY <1>3, <2>2 DEF Pseudo, Rate
    <3> QED
      BY <1>1, <3>1
  <2>3. CASE 2 * q + h <= m
    <3>1. raw = p
      BY <1>3, <2>1, <2>3 DEF Pseudo, Rate
    <3> QED
      BY <1>1, <3>1
  <2>4. CASE m < 2 * q - h
    <3>1. PICK n \in Nat \ {0} : n = 2 * (2 * q - h)
      OBVIOUS
    <3>2. p = (m * (2 * q)) \div n
      BY <1>3, <2>4, <3>1 DEF Pseudo, Rate
    <3>3. raw = 3 * q + ((m + (2 * q - h)) * (2 * q)) \div n
      <4>1. dusk = m + (2 * q - h)
        BY <2>4
      <4> QED
        BY <2>1, <2>4, <3>1, <4>1
    <3>4. (m + (2 * q - h)) * (2 * q) = m * (2 * q) + q * n
      <4>1. PICK e \in Int : e = 2 * q - h
        <5>1. 2 * q - h \in Int
          OBVIOUS
        <5> QED
          BY ONLY <5>1
      <4>2. (m + e) * (2 * q) = m * (2 * q) + e * (2 * q)
        OBVIOUS
      <4>3. q * (2 * e) = e * (2 * q)
        OBVIOUS
      <4> QED
        BY <3>1, <4>1, <4>2, <4>3
    <3>5. PICK r \in 0..(n - 1) : m * (2 * q) = p * n + r
      <4>1. m * (2 * q) \in Int
        OBVIOUS
      <4> QED
        BY <3>2, <4>1, Quotient
    <3>6. (m + (2 * q - h)) * (2 * q) = (p + q) * n + r
      <4>1. (p + q) * n = p * n + q * n
        OBVIOUS
      <4>2. p * n \in Int /\ q * n \in Int
        OBVIOUS
      <4> QED
        BY <3>4, <3>5, <4>1, <4>2
    <3>7. ((m + (2 * q - h)) * (2 * q)) \div n = p + q
      <4>1. PICK a \in Int : a = (m + (2 * q - h)) * (2 * q)
        OBVIOUS
      <4>2. a \div n = p + q
        <5>1. p + q \in Int
          OBVIOUS
        <5> QED
          BY <3>6, <4>1, <5>1, DivMod
      <4> QED
        BY <4>1, <4>2
    <3>8. raw = 1 * Day + p
      BY <1>1, <3>3, <3>7
    <3>9. p \in 0..(Day - 1) /\ 1 \in Int
      BY <1>1
    <3> HIDE DEF raw
    <3> QED
      BY <3>8, <3>9, DivMod
  <2> QED
    BY <2>2, <2>3, <2>4
<1> HIDE DEF raw
<1> QED
  BY <1>1, <1>2, <1>3, <1>4, <1>5, <1>6, <1>7

\* Within a day pseudo time runs at half speed at least, and buckets follow.
LEMMA SameDay ==
  ASSUME NEW c, SunClock(c), NEW t \in Int, NEW u \in Int, SunDefined(c, t),
         SolarDay(c, u) = SolarDay(c, t), SolarTime(c, t) <= SolarTime(c, u)
  PROVE  /\ SunDefined(c, u) /\ BucketUnequal(c, t) \in Int /\ BucketUnequal(c, u) \in Int
         /\ BucketUnequal(c, t) <= BucketUnequal(c, u)
         /\ 2 * Bucket <= SolarTime(c, u) - SolarTime(c, t) => Differs(c, t, u)
<1> USE Lengths
<1>1. SunDefined(c, u)
  BY DEF SunDefined
<1>2. PICK q \in Nat \ {0} : Day = 4 * q /\ Day \div 2 = 2 * q /\ Day \div 4 = q
  BY DayParts
<1>3. PICK d \in Int, h \in 1..(2 * q - 1) : d = SolarDay(c, t) /\ h = HalfDay(c, d)
  BY <1>2, SunDay
<1>4. d = SolarDay(c, u)
  BY <1>3
<1>5. PICK w \in Int, m \in 0..(4 * q - 1) :
         w = SolarTime(c, t) /\ m = w % Day /\ w = d * Day + m
  BY <1>2, <1>3, SunDay
<1>6. PICK v \in Int, n \in 0..(4 * q - 1) :
         v = SolarTime(c, u) /\ n = v % Day /\ v = d * Day + n
  BY <1>1, <1>2, <1>4, SunDay
<1>7. m <= n /\ v - w = n - m
  <2>1. PICK x \in Int : x = d * Day
    OBVIOUS
  <2> QED
    BY <1>5, <1>6, <2>1
<1>8. PICK a \in Int, b \in Int :
        /\ a = SunTime(c, t) /\ a = Pseudo(q, h, m)
        /\ b = SunTime(c, u) /\ b = Pseudo(q, h, n)
  <2>1. SunTime(c, t) = Pseudo(q, h, m) /\ SunTime(c, u) = Pseudo(q, h, n)
    BY <1>4, <1>2, <1>3, <1>5, <1>6 DEF SunTime
  <2>2. SunTime(c, t) \in Int /\ SunTime(c, u) \in Int
    BY <1>1, BucketIs
  <2> QED
    BY <2>1, <2>2
<1>9. \A x \in Nat : 2 * x <= n - m => a + x <= b
  BY <1>7, <1>8, PseudoRuns
<1>10. PICK i \in Int, j \in Int : i = a \div Bucket /\ j = b \div Bucket
  BY Quotient
<1>11. i <= j /\ (2 * Bucket <= n - m => i + 1 <= j)
  <2>1. i * Bucket <= a /\ i * Bucket \in Int
    BY <1>10, Compare
  <2>2. a <= b
    <3>1. 0 \in Nat /\ 2 * 0 <= n - m
      BY <1>7
    <3> QED
      BY <1>9, <3>1
  <2>3. i <= j
    <3>1. i * Bucket <= b
      BY <2>1, <2>2
    <3> QED
      BY <1>10, <3>1, Compare
  <2>4. ASSUME 2 * Bucket <= n - m PROVE i + 1 <= j
    <3>1. a + Bucket <= b
      BY <1>9, <2>4
    <3>2. (i + 1) * Bucket = i * Bucket + Bucket
      OBVIOUS
    <3>3. (i + 1) * Bucket <= b /\ i + 1 \in Int
      BY <2>1, <3>1, <3>2
    <3> QED
      BY <1>10, <3>3, Compare
  <2> QED
    BY <2>3, <2>4
<1>12. PICK x \in Int : /\ BucketUnequal(c, t) = x + i /\ BucketUnequal(c, u) = x + j
  <2>1. w \div Day = d /\ v \div Day = d
    BY <1>4, <1>3, <1>5, <1>6 DEF SolarDay, SolarTime
  <2>2. Weekday(w) = Weekday(v) /\ Weekday(w) \in Int
    <3>1. Weekday(w) \in Int
      BY <1>5, BucketIs
    <3> QED
      BY <2>1, <3>1 DEF Weekday
  <2>3. Weekday(w) * BucketsPerDay \in Int
    BY <2>2
  <2>4. /\ BucketUnequal(c, t) = Weekday(w) * BucketsPerDay + i
        /\ BucketUnequal(c, u) = Weekday(v) * BucketsPerDay + j
    BY <1>1, <1>8, <1>10, <1>5, <1>6, BucketIs
  <2> QED
    BY <2>2, <2>3, <2>4
<1>13. 2 * Bucket <= v - w => Differs(c, t, u)
  BY <1>7, <1>11, <1>12 DEF Differs
<1> QED
  BY <1>1, <1>11, <1>12, <1>13, <1>5, <1>6

\* From one day to the next the bucket changes.
LEMMA NextDay ==
  ASSUME NEW c, SunClock(c), NEW t \in Int, NEW u \in Int, SunDefined(c, t), SunDefined(c, u),
         SolarDay(c, u) = SolarDay(c, t) + 1
  PROVE  Differs(c, t, u)
<1> USE Lengths
<1>1. PICK d \in Int : d = SolarDay(c, t) /\ d + 1 = SolarDay(c, u)
  BY SunDay, DayParts
<1>2. PICK x \in Int : x = (EpochDay + d) % DaysPerWeek
  OBVIOUS
<1>3. PICK y \in Int : y = (EpochDay + (d + 1)) % DaysPerWeek
  OBVIOUS
<1>4. x # y
  <2>1. PICK e \in Int : e = EpochDay + d
    OBVIOUS
  <2>2. PICK i \in Int, j \in Int :
          x \in 0..(DaysPerWeek - 1) /\ e = i * DaysPerWeek + x /\ e + 1 = j * DaysPerWeek + y
    <3>1. PICK i \in Int : x \in 0..(DaysPerWeek - 1) /\ e = i * DaysPerWeek + x
      BY <1>2, <2>1, Remainder
    <3>2. PICK f \in Int : f = e + 1
      OBVIOUS
    <3>3. f = EpochDay + (d + 1)
      BY <2>1, <3>2
    <3>4. PICK j \in Int : f = j * DaysPerWeek + y
      BY <1>3, <3>3, Remainder
    <3> QED
      BY <3>1, <3>2, <3>4
  <2>3. SUFFICES ASSUME x = y PROVE FALSE
    OBVIOUS
  <2>4. PICK a \in Int, b \in Int : a = i * DaysPerWeek /\ b = j * DaysPerWeek
    OBVIOUS
  <2>5. b = a + 1
    BY <2>2, <2>3, <2>4
  <2>6. CASE i < j
    <3>1. a + DaysPerWeek <= b
      BY <2>4, <2>6, Multiples
    <3> QED
      BY <2>5, <3>1, SunAssumption
  <2>7. CASE j <= i
    <3>1. b <= a
      <4>1. DaysPerWeek \in Nat
        OBVIOUS
      <4> QED
        BY <2>4, <2>7, <4>1, Scaled
    <3> QED
      BY <2>5, <3>1
  <2> QED
    BY <2>6, <2>7
<1>5. Weekday(SolarTime(c, t)) = x /\ Weekday(SolarTime(c, u)) = y
  <2>1. SolarTime(c, t) \div Day = d /\ SolarTime(c, u) \div Day = d + 1
    BY <1>1 DEF SolarTime, SolarDay
  <2> QED
    BY <1>2, <1>3, <2>1 DEF Weekday
<1>6. PICK i \in 0..(BucketsPerDay - 1), j \in 0..(BucketsPerDay - 1) :
        /\ BucketUnequal(c, t) = x * BucketsPerDay + i
        /\ BucketUnequal(c, u) = y * BucketsPerDay + j
  BY <1>5, BucketIs
<1>7. SUFFICES ASSUME BucketUnequal(c, u) = BucketUnequal(c, t) PROVE FALSE
  BY DEF Differs
<1>8. PICK a \in Int : a = x * BucketsPerDay + i /\ a = y * BucketsPerDay + j
  BY <1>6, <1>7
<1>9. a \div BucketsPerDay = x
  BY ONLY <1>8, Lengths, DivMod
<1>10. a \div BucketsPerDay = y
  BY ONLY <1>8, Lengths, DivMod
<1> QED
  BY <1>4, <1>9, <1>10

\* Days follow solar time.
LEMMA DaysRun ==
  ASSUME NEW c, SunClock(c), NEW t \in Int, NEW u \in Int, SolarTime(c, t) <= SolarTime(c, u)
  PROVE  /\ SolarDay(c, t) \in Int /\ SolarDay(c, u) \in Int
         /\ SolarDay(c, t) <= SolarDay(c, u)
         /\ SolarTime(c, u) - SolarTime(c, t) <= Day => SolarDay(c, u) <= SolarDay(c, t) + 1
<1> USE Lengths
<1>1. PICK w \in Int, v \in Int : w = SolarTime(c, t) /\ v = SolarTime(c, u) /\ w <= v
  <2>1. 0 \in Nat
    OBVIOUS
  <2> QED
    BY <2>1, SolarTimeRuns
<1>2. PICK d \in Int, e \in Int, r \in 0..(Day - 1), s \in 0..(Day - 1) :
        /\ d = w \div Day /\ w = d * Day + r
        /\ e = v \div Day /\ v = e * Day + s
  <2>1. PICK d \in Int, r \in 0..(Day - 1) : d = w \div Day /\ w = d * Day + r
    BY Quotient
  <2>2. PICK e \in Int, s \in 0..(Day - 1) : e = v \div Day /\ v = e * Day + s
    BY Quotient
  <2> QED
    BY <2>1, <2>2
<1>3. d = SolarDay(c, t) /\ e = SolarDay(c, u)
  BY <1>1, <1>2 DEF SolarDay, SolarTime
<1>4. PICK x \in Int, y \in Int : x = d * Day /\ y = e * Day
  OBVIOUS
<1>5. d <= e
  <2>1. CASE e < d
    <3>1. y + Day <= x
      BY <1>4, <2>1, Multiples
    <3> QED
      BY <1>1, <1>2, <1>4, <3>1
  <2> QED
    BY <2>1
<1>6. ASSUME v - w <= Day PROVE e <= d + 1
  <2>1. CASE d + 1 < e
    <3>1. (d + 1) * Day + Day <= y
      BY <1>4, <2>1, Multiples
    <3>2. (d + 1) * Day = x + Day
      BY <1>4
    <3> QED
      BY <1>2, <1>4, <1>6, <3>1, <3>2
  <2> QED
    BY <2>1
<1> QED
  BY <1>1, <1>3, <1>5, <1>6

\* What solar time can gain or lose, in a longer time.
LEMMA ReachIs ==
  ASSUME NEW c, SunClock(c), NEW d \in Nat, NEW e \in Nat, d <= e
  PROVE  /\ Back(c) * Hours(d) \in Nat /\ Move(c) * Hours(d) \in Nat
         /\ Back(c) * Hours(e) \in Nat /\ Move(c) * Hours(e) \in Nat
         /\ Back(c) * Hours(d) <= Back(c) * Hours(e)
         /\ d + Move(c) * Hours(d) <= e + Move(c) * Hours(e)
         /\ d <= Hour => Back(c) * Hours(d) <= Back(c)
<1>1. PICK b \in Nat, m \in Nat : b = Back(c) /\ m = Move(c)
  <2>1. 0 \in Int /\ 0 \in Nat
    OBVIOUS
  <2> QED
    BY <2>1, SolarTimeRuns
<1>2. PICK x \in Nat, y \in Nat :
        x = Hours(d) /\ y = Hours(e) /\ x <= y /\ (d <= Hour => x <= 1)
  <2>1. 0 \in Int
    OBVIOUS
  <2> QED
    BY <2>1, HoursIs
<1>3. /\ b * x <= b * y /\ b * x \in Nat /\ b * y \in Nat
      /\ m * x <= m * y /\ m * x \in Nat /\ m * y \in Nat
  BY <1>2, Scaled
<1>4. x <= 1 => b * x <= b
  <2>1. ASSUME x <= 1 PROVE b * x <= b * 1
    BY <2>1, Scaled
  <2> QED
    BY <2>1
<1> QED
  BY <1>1, <1>2, <1>3, <1>4

\* A day passes for the search, at most.
LEMMA WithinDay ==
  ASSUME NEW c, SunClock(c), NEW t \in Int, NEW d \in Nat, d <= ProbeLimit * Minute
  PROVE  SolarTime(c, t + d) - SolarTime(c, t) <= Day
<1>1. PICK e \in Nat : e = ProbeLimit * Minute
  <2>1. ProbeLimit * Minute \in Nat
    BY ClockAssumption
  <2> QED
    BY <2>1
<1>2. PICK x \in Nat, y \in Nat : /\ x = Move(c) * Hours(d) /\ y = Move(c) * Hours(e)
                                 /\ d + x <= e + y
  BY <1>1, ReachIs
<1>3. e + y <= Day
  BY <1>1, <1>2 DEF SunClock
<1>4. PICK w \in Int, v \in Int :
        w = SolarTime(c, t) /\ v = SolarTime(c, t + d) /\ v <= w + d + x
  BY <1>2, SolarTimeRuns
<1> QED
  BY <1>2, <1>3, <1>4, Lengths

\* What Bisect defines its function by.
Bisecting(f, c, t) ==
  f = [p \in Int \X Int |->
        LET mid == p[1] + (p[2] - p[1]) \div 2
        IN  IF p[2] - p[1] <= 1 THEN p[2]
            ELSE IF ~SunDefined(c, mid) THEN t
            ELSE IF Differs(c, t, mid) THEN f[<<p[1], mid>>] ELSE f[<<mid, p[2]>>]]

\* It is a bisection.
LEMMA BisectingIs ==
  ASSUME NEW c, NEW t \in Int, NEW S, S = {m \in Int : SunDefined(c, m)},
         NEW D, D = {m \in Int : Differs(c, t, m)}, NEW f
  PROVE  Bisecting(f, c, t) <=> Bisection(f, S, D, t)
<1>1. ASSUME NEW p \in Int \X Int
      PROVE  Halved(f, S, D, t, p) =
               LET mid == p[1] + (p[2] - p[1]) \div 2
               IN  IF p[2] - p[1] <= 1 THEN p[2]
                   ELSE IF ~SunDefined(c, mid) THEN t
                   ELSE IF Differs(c, t, mid) THEN f[<<p[1], mid>>] ELSE f[<<mid, p[2]>>]
  <2>1. PICK mid : mid = p[1] + (p[2] - p[1]) \div 2
    OBVIOUS
  <2>2. p[2] - p[1] > 1 => mid \in Int
    BY <2>1, MiddleIs DEF Middle
  <2>3. p[2] - p[1] > 1 =>
          (mid \in S <=> SunDefined(c, mid)) /\ (mid \in D <=> Differs(c, t, mid))
    BY <2>2
  <2> QED
    BY <2>1, <2>3 DEF Halved, Middle
<1> QED
  BY <1>1 DEF Bisecting, Bisection

\* What the search for the boundary after t finds: the first probe in another
\* bucket, and before it a boundary, unless the clock is undefined there.
LEMMA SearchFinds ==
  ASSUME NEW c, NEW t \in Int, SunDefined(c, t), Probes(c, t) # {}
  PROVE  \E k \in Probes(c, t) :
           /\ \A j \in Probes(c, t) : k <= j
           /\ \/ /\ Bisect(c, t) = t
                 /\ \E m \in t..(t + k * Minute) : ~SunDefined(c, m)
              \/ /\ Bisect(c, t) \in (t + (k - 1) * Minute + 1)..(t + k * Minute)
                 /\ SunDefined(c, Bisect(c, t) - 1) /\ ~Differs(c, t, Bisect(c, t) - 1)
<1> DEFINE S == {m \in Int : SunDefined(c, m)}
           D == {m \in Int : Differs(c, t, m)}
           k == FirstProbe(c, t)
           lo == t + (k - 1) * Minute
           hi == t + k * Minute
<1>1. k \in Probes(c, t) /\ \A j \in Probes(c, t) : k <= j
  <2>1. Probes(c, t) \in SUBSET Nat
    <3>1. 1..ProbeLimit \subseteq Nat
      BY ClockAssumption
    <3> QED
      BY <3>1 DEF Probes
  <2>2. \E n \in Probes(c, t) : \A j \in Probes(c, t) : n <= j
    BY <2>1, Least
  <2> QED
    BY <2>2 DEF FirstProbe
<1>2. /\ k \in 1..ProbeLimit
      /\ \A j \in 1..k : SunDefined(c, t + j * Minute)
  BY <1>1 DEF Probes
<1> HIDE DEF k
<1>3. ProbeLimit \in Nat /\ Minute \in Nat \ {0} /\ k \in Nat \ {0}
  BY <1>2, ClockAssumption
<1>4. /\ (k - 1) * Minute \in Nat /\ k * Minute = (k - 1) * Minute + Minute
      /\ lo \in Int /\ hi \in Int /\ t <= lo /\ hi = lo + Minute
  <2>1. (k - 1) * Minute \in Nat /\ k * Minute = (k - 1) * Minute + Minute
    BY <1>3
  <2> QED
    BY <1>3, <2>1
<1> HIDE DEF S, D
<1>5. PICK f : Bisection(f, S, D, t) /\ Bisect(c, t) = f[<<lo, hi>>]
  <2>1. PICK g : g = CHOOSE f : Bisecting(f, c, t)
    OBVIOUS
  <2>2. Bisection(g, S, D, t)
    BY <2>1, BisectionExists, BisectingIs DEF S, D
  <2>3. Bisect(c, t) = g[<<lo, hi>>]
    BY ONLY <2>1, Zenon DEF Bisect, Bisecting, k
  <2> QED
    BY <2>2, <2>3
<1>6. \/ Bisect(c, t) = t /\ \E m \in lo..hi : m \notin S
      \/ /\ Bisect(c, t) \in (lo + 1)..hi
         /\ Bisect(c, t) - 1 = lo \/ Bisect(c, t) - 1 \in S \ D
  <2>1. lo < hi
    BY <1>3, <1>4
  <2> HIDE DEF lo, hi
  <2> QED
    BY <1>4, <1>5, <2>1, BisectionFinds
<1>7. CASE Bisect(c, t) = t /\ \E m \in lo..hi : m \notin S
  <2>1. PICK m \in lo..hi : m \notin S
    BY <1>7
  <2>2. m \in t..(t + k * Minute) /\ m \in Int
    BY <1>4, <2>1
  <2>3. ~SunDefined(c, m)
    BY <2>1, <2>2 DEF S
  <2> QED
    BY <1>1, <1>7, <2>2, <2>3
<1>8. CASE /\ Bisect(c, t) \in (lo + 1)..hi
           /\ Bisect(c, t) - 1 = lo \/ Bisect(c, t) - 1 \in S \ D
  <2>1. SunDefined(c, lo) /\ ~Differs(c, t, lo)
    <3>1. CASE k = 1
      <4>1. lo = t
        BY <1>3, <3>1
      <4> QED
        BY <4>1 DEF Differs
    <3>2. CASE k # 1
      <4>1. k - 1 \in 1..ProbeLimit /\ k - 1 < k /\ 1..(k - 1) \subseteq 1..k /\ k - 1 \in 1..k
        BY <1>2, <1>3, <3>2
      <4>2. SunDefined(c, lo)
        BY <1>2, <4>1
      <4>3. k - 1 \notin Probes(c, t)
        BY <1>1, <1>3, <4>1
      <4>4. \A j \in 1..(k - 1) : SunDefined(c, t + j * Minute)
        BY <1>2, <4>1
      <4>5. ~Differs(c, t, lo)
        BY <4>1, <4>3, <4>4 DEF Probes
      <4> QED
        BY <4>2, <4>5
    <3> QED
      BY <3>1, <3>2
  <2>2. SunDefined(c, Bisect(c, t) - 1) /\ ~Differs(c, t, Bisect(c, t) - 1)
    <3>1. CASE Bisect(c, t) - 1 = lo
      BY <2>1, <3>1
    <3>2. CASE Bisect(c, t) - 1 \in S \ D
      <4>1. PICK b \in Int : b = Bisect(c, t) - 1
        BY <1>4, <1>8
      <4> QED
        BY <3>2, <4>1 DEF S, D
    <3> QED
      BY <1>8, <3>1, <3>2
  <2> QED
    BY <1>1, <1>8, <2>2
<1> QED
  BY <1>6, <1>7, <1>8

\* While the equation of time does not fall, a piece of unequal hours lies in
\* one bucket.
LEMMA SunPiece ==
  ASSUME NEW c, SunClock(c), c.drift >= 0, NEW t \in Int, SunDefined(c, t), Probes(c, t) # {},
         NEW u \in Int, t <= u, u < Bisect(c, t)
  PROVE  BucketUnequal(c, u) = BucketUnequal(c, t)
<1> USE Lengths, ClockAssumption
<1>1. PICK k \in Probes(c, t) :
           \/ Bisect(c, t) = t
           \/ /\ Bisect(c, t) \in (t + (k - 1) * Minute + 1)..(t + k * Minute)
              /\ SunDefined(c, Bisect(c, t) - 1) /\ ~Differs(c, t, Bisect(c, t) - 1)
  BY SearchFinds
<1>2. k \in 1..ProbeLimit /\ k * Minute \in Int /\ (k - 1) * Minute \in Int
  <2>1. k \in 1..ProbeLimit
    BY DEF Probes
  <2> QED
    BY <2>1
<1>3. PICK b \in Int : /\ b + 1 = Bisect(c, t) /\ b < t + k * Minute
                       /\ SunDefined(c, b) /\ ~Differs(c, t, b) /\ u <= b
  <2>1. Bisect(c, t) # t
    OBVIOUS
  <2>2. PICK b1 \in Int : /\ b1 = Bisect(c, t) /\ b1 <= t + k * Minute
                          /\ SunDefined(c, b1 - 1) /\ ~Differs(c, t, b1 - 1)
    BY <1>1, <1>2, <2>1
  <2> WITNESS b1 - 1 \in Int
  <2> QED
    BY <1>2, <2>2
<1>4. k * Minute <= ProbeLimit * Minute /\ ProbeLimit * Minute \in Int
  BY <1>2, Scaled
<1>5. SolarTime(c, t) <= SolarTime(c, u) /\ SolarTime(c, u) <= SolarTime(c, b)
  <2>1. ASSUME NEW x \in Int, NEW y \in Int, x <= y PROVE SolarTime(c, x) <= SolarTime(c, y)
    <3>1. PICK d \in Nat : y = x + d
      <4>1. y - x \in Nat /\ y = x + (y - x)
        BY <2>1
      <4> QED
        BY <4>1
    <3>2. PICK h \in Nat : h = Hours(d) /\ 0 * h = 0
      <4>1. PICK h \in Nat : h = Hours(d)
        BY HoursIs
      <4>2. 0 * h = 0
        OBVIOUS
      <4> QED
        BY <4>1, <4>2
    <3>3. /\ SolarTime(c, x) \in Int /\ SolarTime(c, y) \in Int
          /\ SolarTime(c, x) + d - 0 * h <= SolarTime(c, y)
      BY <3>1, <3>2, SolarTimeRuns
    <3> QED
      BY <3>2, <3>3
  <2> QED
    BY <1>3, <2>1
<1>6. SolarTime(c, b) - SolarTime(c, t) <= Day
  <2>1. PICK d \in Nat : b = t + d /\ d <= ProbeLimit * Minute
    <3>1. b - t \in Nat /\ b = t + (b - t) /\ b - t <= ProbeLimit * Minute
      BY <1>2, <1>3, <1>4
    <3> QED
      BY <3>1
  <2> QED
    BY <2>1, WithinDay
<1>7. /\ SolarTime(c, t) \in Int /\ SolarTime(c, u) \in Int /\ SolarTime(c, b) \in Int
  <2>1. 0 \in Nat
    OBVIOUS
  <2> QED
    BY <2>1, SolarTimeRuns
<1>8. SolarDay(c, b) = SolarDay(c, t)
  <2>1. /\ SolarDay(c, t) \in Int /\ SolarDay(c, b) \in Int
        /\ SolarDay(c, t) <= SolarDay(c, b) /\ SolarDay(c, b) <= SolarDay(c, t) + 1
    BY <1>5, <1>6, <1>7, DaysRun
  <2>2. SolarDay(c, b) # SolarDay(c, t) + 1
    BY <1>3, NextDay
  <2> QED
    BY <2>1, <2>2
<1>9. SolarDay(c, u) = SolarDay(c, t)
  <2>1. /\ SolarDay(c, t) \in Int /\ SolarDay(c, u) \in Int
        /\ SolarDay(c, t) <= SolarDay(c, u)
    BY <1>5, DaysRun
  <2>2. SolarDay(c, u) <= SolarDay(c, b)
    BY <1>5, DaysRun
  <2> QED
    BY <1>8, <2>1, <2>2
<1>10. /\ SunDefined(c, u) /\ BucketUnequal(c, t) \in Int /\ BucketUnequal(c, u) \in Int
       /\ BucketUnequal(c, t) <= BucketUnequal(c, u)
  BY <1>5, <1>9, SameDay
<1>11. BucketUnequal(c, u) <= BucketUnequal(c, b)
  BY <1>5, <1>8, <1>9, <1>10, SameDay
<1>12. BucketUnequal(c, b) = BucketUnequal(c, t)
  BY <1>3 DEF Differs
<1> QED
  BY <1>10, <1>11, <1>12

\* Where the sun rises and sets the search finds a boundary.
LEMMA SunCuts ==
  ASSUME NEW c, SunClock(c), NEW t \in Int, \A m \in t..(t + LookAhead) : SunDefined(c, m)
  PROVE  /\ SunDefined(c, t) /\ Probes(c, t) # {}
         /\ Bisect(c, t) \in Int /\ t < Bisect(c, t)
<1> USE Lengths, ClockAssumption
<1>1. PICK a \in Nat : a = LookAhead /\ a = 2 * (Bucket + Minute)
  BY DEF LookAhead
<1>2. PICK k \in Int, r \in 0..(Minute - 1) : a = k * Minute + r
  <2>1. a \in Int /\ Minute \in Nat \ {0}
    OBVIOUS
  <2> QED
    BY <2>1, Quotient
<1>3. k \in 1..ProbeLimit
  <2>1. 0 < k
    <3>1. CASE k <= 0
      <4>1. k * Minute <= 0 * Minute /\ k * Minute \in Int
        BY <3>1, Scaled
      <4> QED
        BY <1>1, <1>2, <4>1
    <3> QED
      BY <3>1
  <2>2. k <= ProbeLimit
    <3>1. CASE ProbeLimit < k
      <4>1. ProbeLimit * Minute + Minute <= k * Minute
        BY <3>1, Multiples
      <4>2. PICK x \in Int, y \in Int : x = ProbeLimit * Minute /\ y = k * Minute
        OBVIOUS
      <4>3. a <= x
        BY <1>1, <4>2, SunAssumption
      <4> QED
        BY <1>2, <4>1, <4>2, <4>3
    <3> QED
      BY <3>1
  <2> QED
    BY <2>1, <2>2
<1>4. \A j \in 1..k : SunDefined(c, t + j * Minute)
  <2>1. ASSUME NEW j \in 1..k PROVE SunDefined(c, t + j * Minute)
    <3>1. j * Minute <= k * Minute /\ j * Minute \in Nat /\ k * Minute \in Int
      BY Scaled
    <3>2. t + j * Minute \in t..(t + LookAhead)
      BY <1>1, <1>2, <3>1
    <3> QED
      BY <3>2
  <2> QED
    BY <2>1
<1>5. SunDefined(c, t)
  BY <1>1
<1>6. PICK d \in Nat :
        d = k * Minute /\ 2 * Bucket + Minute < d /\ d <= a /\ d <= ProbeLimit * Minute
  <2>1. k * Minute <= ProbeLimit * Minute /\ k * Minute \in Nat
    BY <1>3, Scaled
  <2> QED
    BY <1>1, <1>2, <2>1
<1>7. PICK w \in Int, v \in Int :
        w = SolarTime(c, t) /\ v = SolarTime(c, t + d) /\ 2 * Bucket <= v - w /\ v - w <= Day
  <2>1. PICK x \in Nat, y \in Nat :
          x = Back(c) * Hours(d) /\ y = Back(c) * Hours(a) /\ x <= y
    BY <1>6, ReachIs
  <2>2. y <= Minute
    BY <1>1, <2>1 DEF SunClock
  <2>3. PICK w \in Int, v \in Int :
          w = SolarTime(c, t) /\ v = SolarTime(c, t + d) /\ w + d - x <= v
    BY <2>1, SolarTimeRuns
  <2>4. v - w <= Day
    BY <1>6, <2>3, WithinDay
  <2> QED
    BY <1>6, <2>1, <2>2, <2>3, <2>4
<1>8. Differs(c, t, t + d)
  <2>1. PICK u \in Int : u = t + d
    OBVIOUS
  <2>2. w <= v
    BY <1>7
  <2>3. /\ SolarDay(c, t) \in Int /\ SolarDay(c, u) \in Int
        /\ SolarDay(c, t) <= SolarDay(c, u) /\ SolarDay(c, u) <= SolarDay(c, t) + 1
    BY <1>7, <2>1, <2>2, DaysRun
  <2>4. SunDefined(c, u)
    <3>1. k \in 1..k
      BY <1>3
    <3> QED
      BY <1>4, <1>6, <2>1, <3>1
  <2>5. CASE SolarDay(c, u) = SolarDay(c, t)
    BY <1>5, <1>7, <2>1, <2>2, <2>5, SameDay
  <2>6. CASE SolarDay(c, u) = SolarDay(c, t) + 1
    BY <1>5, <2>1, <2>4, <2>6, NextDay
  <2> QED
    BY <2>3, <2>5, <2>6
<1>9. k \in Probes(c, t)
  BY <1>3, <1>4, <1>6, <1>8 DEF Probes
<1>10. PICK n \in Probes(c, t) :
         /\ n <= k
         /\ \/ /\ Bisect(c, t) = t
               /\ \E m \in t..(t + n * Minute) : ~SunDefined(c, m)
            \/ Bisect(c, t) \in (t + (n - 1) * Minute + 1)..(t + n * Minute)
  BY <1>5, <1>9, SearchFinds
<1>11. n \in Nat \ {0} /\ n * Minute <= d /\ n * Minute \in Int /\ (n - 1) * Minute \in Nat
  <2>1. n \in Nat \ {0}
    BY DEF Probes
  <2> QED
    BY <1>3, <1>6, <1>10, <2>1, Scaled
<1>12. \A m \in t..(t + n * Minute) : SunDefined(c, m)
  BY <1>1, <1>6, <1>11
<1> QED
  BY <1>5, <1>9, <1>10, <1>11, <1>12

\* In a piece of unequal hours the sun does not fail to rise and set for longer
\* than the time by which solar time may fall back.
LEMMA SunGap ==
  ASSUME NEW c, SunClock(c), NEW t \in Int, SunDefined(c, t), Probes(c, t) # {},
         NEW u \in Int, t <= u, u < Bisect(c, t)
  PROVE  \E v \in (u - Back(c))..(u + Back(c)) : SunDefined(c, v)
<1> USE Lengths, ClockAssumption
<1>1. PICK k \in Probes(c, t) :
           \/ Bisect(c, t) = t
           \/ Bisect(c, t) \in (t + (k - 1) * Minute + 1)..(t + k * Minute)
  BY SearchFinds
<1>2. /\ k \in 1..ProbeLimit /\ k * Minute \in Int /\ (k - 1) * Minute \in Int
      /\ \A j \in 1..k : SunDefined(c, t + j * Minute)
  <2>1. k \in 1..ProbeLimit
    BY DEF Probes
  <2> QED
    BY <2>1 DEF Probes
<1>3. u < t + k * Minute
  BY <1>1, <1>2
<1>4. PICK j \in Int, r \in 0..(Minute - 1) : u - t = j * Minute + r
  <2>1. u - t \in Int
    OBVIOUS
  <2> QED
    BY <2>1, Quotient
<1>5. PICK p \in Int : p = t + j * Minute /\ u = p + r /\ p + Minute = t + (j + 1) * Minute
  <2>1. j * Minute \in Int /\ (j + 1) * Minute = j * Minute + Minute
    OBVIOUS
  <2> QED
    BY <1>4, <2>1
<1>6. j \in 0..(k - 1)
  <2>1. CASE j < 0
    <3>1. j * Minute + Minute <= 0 * Minute /\ j * Minute \in Int
      BY <2>1, Multiples
    <3> QED
      BY <1>4, <3>1
  <2>2. CASE k <= j
    <3>1. k * Minute <= j * Minute /\ j * Minute \in Int
      BY <1>2, <2>2, Scaled
    <3> QED
      BY <1>2, <1>3, <1>4, <3>1
  <2> QED
    BY <1>2, <2>1, <2>2
<1>7. SunDefined(c, p)
  <2>1. CASE j = 0
    BY <1>5, <2>1
  <2>2. CASE j # 0
    BY <1>2, <1>5, <1>6, <2>2
  <2> QED
    BY <2>1, <2>2
<1>8. SunDefined(c, p + Minute)
  <2>1. j + 1 \in 1..k
    BY <1>2, <1>6
  <2> QED
    BY <1>2, <1>5, <2>1
<1>9. PICK x \in Int, w \in Int, y \in Int, b \in Nat :
        /\ x = SolarTime(c, p) /\ w = SolarTime(c, u) /\ y = SolarTime(c, p + Minute)
        /\ b = Back(c)
        /\ x + r - b <= w /\ w + (Minute - r) - b <= y /\ y - x <= Day
  <2>1. PICK s \in Nat : s = Minute - r /\ u + s = p + Minute /\ s <= Hour /\ r <= Hour
    <3>1. Minute - r \in Nat
      OBVIOUS
    <3> QED
      BY <1>5, <3>1, SunAssumption
  <2>2. PICK x \in Int, w \in Int, b \in Nat :
          x = SolarTime(c, p) /\ w = SolarTime(c, u) /\ b = Back(c)
    BY <1>5, SolarTimeRuns
  <2>3. x + r - b <= w
    <3>1. PICK e \in Nat : e = Back(c) * Hours(r) /\ e <= b
      <4>1. r \in Nat /\ r <= r
        OBVIOUS
      <4> QED
        BY <2>1, <2>2, <4>1, ReachIs
    <3>2. x + r - e <= w
      <4>1. r \in Nat
        OBVIOUS
      <4> QED
        BY <1>5, <2>2, <3>1, <4>1, SolarTimeRuns
    <3> QED
      BY <3>1, <3>2
  <2>4. PICK y \in Int : y = SolarTime(c, u + s) /\ w + s - b <= y
    <3>1. PICK e \in Nat : e = Back(c) * Hours(s) /\ e <= b
      <4>1. s <= s
        OBVIOUS
      <4> QED
        BY <2>1, <2>2, <4>1, ReachIs
    <3>2. PICK y \in Int : y = SolarTime(c, u + s) /\ w + s - e <= y
      BY <2>2, <3>1, SolarTimeRuns
    <3> QED
      BY <3>1, <3>2
  <2>5. y - x <= Day
    <3>1. Minute <= ProbeLimit * Minute
      <4>1. 1 * Minute <= ProbeLimit * Minute
        BY <1>2, Scaled
      <4> QED
        BY <4>1
    <3> QED
      BY <2>1, <2>2, <2>4, <3>1, WithinDay
  <2> QED
    BY <2>1, <2>2, <2>3, <2>4, <2>5
<1>10. CASE r <= b
  <2>1. p \in (u - Back(c))..(u + Back(c))
    BY <1>5, <1>9, <1>10
  <2> QED
    BY <1>7, <2>1
<1>11. CASE Minute - r <= b
  <2>1. p + Minute \in (u - Back(c))..(u + Back(c))
    BY <1>5, <1>9, <1>11
  <2> QED
    BY <1>8, <2>1
<1>12. CASE b < r /\ b < Minute - r
  <2>1. PICK d \in Int, e \in Int, f \in Int :
          d = SolarDay(c, p) /\ e = SolarDay(c, u) /\ f = SolarDay(c, p + Minute)
          /\ d <= e /\ e <= f /\ f <= d + 1
    <3>1. x <= w /\ w <= y /\ x <= y
      BY <1>9, <1>12
    <3>2. /\ SolarDay(c, p) \in Int /\ SolarDay(c, u) \in Int
          /\ SolarDay(c, p + Minute) \in Int
          /\ SolarDay(c, p) <= SolarDay(c, u)
      BY <1>9, <3>1, DaysRun
    <3>3. SolarDay(c, u) <= SolarDay(c, p + Minute)
      BY <1>9, <3>1, DaysRun
    <3>4. SolarDay(c, p + Minute) <= SolarDay(c, p) + 1
      BY <1>9, <3>1, DaysRun
    <3> QED
      BY <3>2, <3>3, <3>4
  <2>2. e = d \/ e = f
    BY <2>1
  <2>3. SunDefined(c, u)
    BY <1>7, <1>8, <2>1, <2>2 DEF SunDefined
  <2>4. u \in (u - Back(c))..(u + Back(c))
    BY <1>9
  <2> QED
    BY <2>3, <2>4
<1> QED
  BY <1>9, <1>10, <1>11, <1>12

-----------------------------------------------------------------------------
(* What is counted in its own bucket.                                      *)

\* A piece the loop has cut lies between the instant it begins with and the
\* boundary found there.
LEMMA PieceFacts ==
  ASSUME IInv, NEW i \in 1..Len(spans), NEW u \in Instants(spans[i])
  PROVE  \E t \in Instant :
           /\ Cuttable(clock, t) /\ spans[i].bucket = ClockBucket(clock, t)
           /\ BucketAt(clock, u) = ClockBucket(clock, u)
           /\ u \in Int /\ t \in Int /\ t <= u /\ ClockBoundary(clock, t) \in Int
           /\ u < ClockBoundary(clock, t)
<1> DEFINE t == spans[i].from
<1>1. PICK s : s = spans[i]
  OBVIOUS
<1>2. /\ clock \in Clock /\ start \in Int /\ end \in Int /\ s \in Span
      /\ <<start, end>> \in Interval
  BY <1>1 DEF IInv, TypeOK
<1>3. /\ s.from \in start..(end - 1) /\ To(s) <= end
      /\ Cuttable(clock, s.from) /\ s.bucket = BucketAt(clock, s.from)
      /\ To(s) <= NextBoundary(clock, s.from)
  BY <1>1 DEF IInv, Pieces
<1>4. s.from \in Int /\ To(s) \in Int /\ u \in s.from..(To(s) - 1)
  BY <1>1, <1>2 DEF Span, To, Instants
<1>5. s.from \in Instant /\ u \in Instant
  <2>1. u \in start..(end - 1)
    BY <1>2, <1>3, <1>4
  <2> QED
    BY <1>2, <1>3, <2>1, CalledInstants
<1>6. NextBoundary(clock, s.from) \in Int
  BY <1>2, <1>3, <1>5, SplitAssumption
<1>7. /\ BucketAt(clock, s.from) = ClockBucket(clock, s.from)
      /\ BucketAt(clock, u) = ClockBucket(clock, u)
      /\ NextBoundary(clock, s.from) = ClockBoundary(clock, s.from)
  BY <1>2, <1>3, <1>5, ClockWiring
<1>8. u < ClockBoundary(clock, s.from) /\ ClockBoundary(clock, s.from) \in Int
  BY <1>3, <1>4, <1>6, <1>7
<1> QED
  BY <1>1, <1>3, <1>4, <1>5, <1>7, <1>8

\* What is known of the clocks of a zone and of unequal hours.
LEMMA KindsAre ==
  ASSUME NEW c \in Clock
  PROVE  /\ c.kind = "local" => IsZone(c)
         /\ c.kind = "unequal" => SunClock(c)
  BY KindAssumption, SunAssumption DEF IsZone, Aligned, SunClock

\* In every zone, only the time of a repeated hour can be counted in another
\* bucket than its own (bucketing.py:81-91).
THEOREM MisfiledOnlyInFoldHolds == Spec => []MisfiledOnlyInFold
<1>1. ASSUME IInv PROVE MisfiledOnlyInFold
  <2> SUFFICES ASSUME clock.kind = "local", NEW i \in 1..Len(spans),
                      NEW u \in Instants(spans[i]), Fold(clock, u) = 0
               PROVE  BucketAt(clock, u) = spans[i].bucket
    BY DEF MisfiledOnlyInFold
  <2>1. IsZone(clock)
    BY <1>1, KindsAre DEF IInv, TypeOK
  <2>2. PICK t \in Instant :
          /\ spans[i].bucket = ClockBucket(clock, t)
          /\ BucketAt(clock, u) = ClockBucket(clock, u)
          /\ u \in Int /\ t \in Int /\ t <= u /\ u < ClockBoundary(clock, t)
    BY <1>1, PieceFacts
  <2>3. /\ ClockBucket(clock, t) = BucketOf(Wall(clock, t))
        /\ ClockBucket(clock, u) = BucketOf(Wall(clock, u))
        /\ ClockBoundary(clock, t) = NextBoundaryLocal(clock, t)
    BY DEF ClockBucket, ClockBoundary
  <2>4. NextBoundaryLocal(clock, t) \in Int
    BY <2>1, <2>2, LocalPiece
  <2>5. u \in t..(NextBoundaryLocal(clock, t) - 1)
    BY <2>2, <2>3, <2>4
  <2> QED
    BY <2>1, <2>2, <2>3, <2>5, LocalPiece
<1> QED
  BY <1>1, Invariant, PTL

\* Every clock whose offset does not fall back or drift counts every
\* millisecond in its own bucket: UTC, mean solar time, local time in a zone
\* that does not fall back, and unequal hours while the equation of time does
\* not fall (bucketing.py:53-91, 108-137, 257-278, 370-433).
THEOREM FiledWhereExactHolds == Spec => []FiledWhereExact
<1>1. ASSUME IInv PROVE FiledWhereExact
  <2> SUFFICES ASSUME Steady(clock), NEW i \in 1..Len(spans), NEW u \in Instants(spans[i])
               PROVE  BucketAt(clock, u) = spans[i].bucket
    BY DEF FiledWhereExact, FiledRightly
  <2>1. clock \in Clock /\ clock.kind \in {"utc", "local", "solar", "unequal"}
    BY <1>1, KindAssumption DEF IInv, TypeOK
  <2>2. PICK t \in Instant :
          /\ Cuttable(clock, t) /\ spans[i].bucket = ClockBucket(clock, t)
          /\ BucketAt(clock, u) = ClockBucket(clock, u)
          /\ u \in Int /\ t \in Int /\ t <= u /\ u < ClockBoundary(clock, t)
    BY <1>1, PieceFacts
  <2>3. CASE clock.kind = "utc"
    <3>1. /\ ClockBucket(clock, t) = BucketOf(t) /\ ClockBucket(clock, u) = BucketOf(u)
          /\ ClockBoundary(clock, t) = NextBoundaryUtc(t)
      BY <2>3 DEF ClockBucket, ClockBoundary
    <3>2. u \in t..(NextBoundaryUtc(t) - 1)
      BY <2>2, <3>1, UtcExact
    <3> QED
      BY <2>2, <3>1, <3>2, UtcExact
  <2>4. CASE clock.kind = "local"
    <3>1. /\ ClockBucket(clock, t) = BucketOf(Wall(clock, t))
          /\ ClockBucket(clock, u) = BucketOf(Wall(clock, u))
          /\ ClockBoundary(clock, t) = NextBoundaryLocal(clock, t)
      BY <2>4 DEF ClockBucket, ClockBoundary
    <3>2. IsZone(clock) /\ clock.before <= clock.after
      BY <2>1, <2>4, KindsAre DEF Steady
    <3>3. NextBoundaryLocal(clock, t) \in Int
      BY <2>2, <3>2, LocalPiece
    <3>4. u \in t..(NextBoundaryLocal(clock, t) - 1)
      BY <2>2, <3>1, <3>3
    <3>5. Fold(clock, u) = 0
      BY <2>2, <3>2 DEF Fold, Wall, IsZone
    <3> QED
      BY <2>2, <3>1, <3>2, <3>4, <3>5, LocalPiece
  <2>5. CASE clock.kind = "solar"
    <3>1. PICK o \in Int : o = clock.offset /\ clock.drift = 0
      BY <2>1, <2>5, KindAssumption DEF Steady
    <3>2. Offset(clock, t) = o /\ Offset(clock, u) = o
      <4>1. PICK m \in Int, n \in Int : m = t \div Hour /\ n = u \div Hour
        BY <2>2, Lengths, Quotient
      <4>2. o + 0 * m = o /\ o + 0 * n = o
        OBVIOUS
      <4>3. Offset(clock, t) = o + 0 * m
        BY ONLY <2>2, <3>1, <4>1, OffsetIs
      <4>4. Offset(clock, u) = o + 0 * n
        BY ONLY <2>2, <3>1, <4>1, OffsetIs
      <4> QED
        BY <4>2, <4>3, <4>4
    <3>3. PICK b \in Int : b = NextBoundaryUtc(t + o) /\ b > t + o
      <4>1. t + o \in Int
        BY <2>2
      <4> QED
        BY <4>1, UtcExact
    <3>4. ClockBoundary(clock, t) = b - o
      BY <2>2, <2>5, <3>2, <3>3 DEF ClockBoundary, NextBoundaryOffset
    <3>5. u + o \in (t + o)..(NextBoundaryUtc(t + o) - 1)
      BY <2>2, <3>3, <3>4
    <3>6. BucketOf(u + o) = BucketOf(t + o)
      BY <2>2, <3>5, UtcExact
    <3> QED
      BY <2>2, <2>5, <3>2, <3>6 DEF ClockBucket
  <2>6. CASE clock.kind = "unequal"
    <3>1. /\ ClockBucket(clock, t) = BucketUnequal(clock, t)
          /\ ClockBucket(clock, u) = BucketUnequal(clock, u)
          /\ ClockBoundary(clock, t) = Bisect(clock, t)
      BY <2>6 DEF ClockBucket, ClockBoundary
    <3>2. SunClock(clock) /\ clock.drift >= 0
      BY <2>1, <2>6, KindsAre DEF Steady
    <3>3. SunDefined(clock, t) /\ Probes(clock, t) # {}
      BY <2>1, <2>2, <2>6, ClockWiring DEF ClockCuttable
    <3> QED
      BY <2>2, <3>1, <3>2, <3>3, SunPiece
  <2> QED
    BY <2>1, <2>3, <2>4, <2>5, <2>6
<1> QED
  BY <1>1, Invariant, PTL

\* Apparent solar time is off by no more than the equation of time moves in an
\* hour, whichever way (bucketing.py:261-272).
THEOREM DriftBoundedHolds == Spec => []DriftBounded
<1>1. ASSUME IInv PROVE DriftBounded
  <2> SUFFICES ASSUME clock.kind = "solar", NEW i \in 1..Len(spans),
                      NEW u \in Instants(spans[i])
               PROVE  \E d \in (-Move(clock))..Move(clock) :
                        BucketOf(u + Offset(clock, u) + d) = spans[i].bucket
    BY DEF DriftBounded
  <2>1. PICK o \in Int, g \in Int : o = clock.offset /\ g = clock.drift
    BY <1>1, KindAssumption DEF IInv, TypeOK
  <2>2. PICK t \in Instant :
          /\ spans[i].bucket = ClockBucket(clock, t)
          /\ u \in Int /\ t \in Int /\ t <= u /\ u < ClockBoundary(clock, t)
    BY <1>1, PieceFacts
  <2>3. PICK m \in Int, n \in Int : m = t \div Hour /\ n = u \div Hour
    BY <2>2, Lengths, Quotient
  <2>4. PICK p \in Int, q \in Int :
          /\ p = Offset(clock, t) /\ p = o + g * m
          /\ q = Offset(clock, u) /\ q = o + g * n
    <3>1. Offset(clock, t) = o + g * m /\ Offset(clock, t) \in Int
      BY ONLY <2>1, <2>2, <2>3, OffsetIs
    <3>2. Offset(clock, u) = o + g * n /\ Offset(clock, u) \in Int
      BY ONLY <2>1, <2>2, <2>3, OffsetIs
    <3> QED
      BY <3>1, <3>2
  <2>5. PICK b \in Int : b = NextBoundaryUtc(t + p) /\ b > t + p /\ b <= t + p + Bucket
    <3>1. t + p \in Int
      BY <2>2
    <3> QED
      BY <3>1, UtcExact
  <2>6. ClockBoundary(clock, t) = b - p
    BY <2>2, <2>4, <2>5 DEF ClockBoundary, NextBoundaryOffset
  <2>7. u + p \in (t + p)..(b - 1) /\ u < t + Bucket
    BY <2>2, <2>5, <2>6, Lengths
  <2>8. n = m \/ n = m + 1
    <3>1. Bucket <= Hour
      <4>1. 1 * Bucket <= BucketsPerHour * Bucket
        BY Lengths, Scaled
      <4> QED
        BY <4>1, Lengths DEF Hour
    <3>2. PICK d \in Nat : u = t + d /\ d <= Hour
      <4>1. u - t \in Nat /\ u = t + (u - t) /\ u - t <= Hour
        BY <2>2, <2>7, <3>1, Lengths
      <4> QED
        BY <4>1
    <3>3. Hours(d) <= 1 /\ Hours(d) \in Nat /\ n - m \in 0..Hours(d)
      BY <2>2, <2>3, <3>2, HoursIs
    <3> QED
      BY <3>3
  <2>9. p - q \in (-Move(clock))..Move(clock)
    <3>1. g * (m + 1) = g * m + g /\ g * m \in Int
      OBVIOUS
    <3>2. Move(clock) = IF g < 0 THEN -g ELSE g
      BY ONLY <2>1, Zenon DEF Move
    <3> QED
      BY <2>4, <2>8, <3>1, <3>2
  <2>10. u + q + (p - q) = u + p
    BY <2>2
  <2>11. BucketOf(u + p) = BucketOf(t + p)
    BY <2>2, <2>5, <2>7, UtcExact
  <2>12. spans[i].bucket = BucketOf(t + p)
    BY <2>2, <2>4 DEF ClockBucket
  <2> QED
    BY <2>4, <2>9, <2>10, <2>11, <2>12
<1> QED
  BY <1>1, Invariant, PTL

-----------------------------------------------------------------------------
(* When a clock is skipped.                                                *)

\* Why the loop has raised.
Raised ==
  pc = "error" =>
    \/ end <= start
    \/ start <= cur /\ cur < end /\ ~(Cuttable(clock, cur) /\ Boundary > cur)

\* It raises for an empty interval, or where no piece can be cut.
LEMMA RaisedHolds == Spec => []Raised
<1>1. Init => Raised
  BY DEF Init, Raised
<1>2. Raised /\ IInv /\ [Next]_vars => Raised'
  <2> SUFFICES ASSUME Raised, IInv, [Next]_vars PROVE Raised'
    OBVIOUS
  <2>1. CASE Cut
    BY <2>1 DEF Cut, Raised
  <2>2. CASE Raise
    BY <2>2 DEF Raise, Raised, IInv, Resting, Boundary
  <2>3. CASE Return
    BY <2>3 DEF Return, Raised
  <2>4. CASE UNCHANGED vars
    BY <2>4 DEF vars, Raised, Boundary
  <2> QED
    BY <2>1, <2>2, <2>3, <2>4 DEF Next
<1> QED
  BY <1>1, <1>2, Invariant, PTL DEF Spec

\* Every other clock can be cut anywhere, and its boundary lies ahead.
LEMMA AlwaysAhead ==
  ASSUME NEW c \in Clock, c.kind # "unequal", NEW t \in Int
  PROVE  ClockCuttable(c, t) /\ ClockBoundary(c, t) \in Int /\ t < ClockBoundary(c, t)
<1>1. ClockCuttable(c, t)
  BY DEF ClockCuttable
<1>2. CASE c.kind = "utc"
  BY <1>1, <1>2, UtcExact DEF ClockBoundary
<1>3. CASE c.kind = "local"
  <2>1. IsZone(c)
    BY <1>3, KindsAre
  <2>2. NextBoundaryLocal(c, t) \in Int /\ NextBoundaryLocal(c, t) > t
    BY <2>1, LocalPiece
  <2> QED
    BY <1>1, <1>3, <2>2 DEF ClockBoundary
<1>4. CASE c.kind = "solar"
  <2>1. PICK o \in Int, g \in Int : o = c.offset /\ g = c.drift
    BY <1>4, KindAssumption
  <2>2. PICK m \in Int : m = t \div Hour
    BY Lengths, Quotient
  <2>3. PICK p \in Int : p = Offset(c, t)
    BY <2>1, <2>2, OffsetIs
  <2>4. PICK b \in Int : b = NextBoundaryUtc(t + p) /\ b > t + p
    <3>1. t + p \in Int
      OBVIOUS
    <3> QED
      BY <3>1, UtcExact
  <2>5. ClockBoundary(c, t) = b - p
    BY <1>4, <2>3, <2>4 DEF ClockBoundary, NextBoundaryOffset
  <2> QED
    BY <1>1, <2>4, <2>5
<1> QED
  BY <1>2, <1>3, <1>4, KindAssumption

\* Every instant of an interval that has been cut lies in a piece.
LEMMA Covered ==
  ASSUME IInv, pc = "done", NEW t \in start..(end - 1)
  PROVE  \E i \in 1..Len(spans) : t \in Instants(spans[i])
<1> DEFINE T == {i \in 1..Len(spans) : t < To(spans[i])}
<1>1. /\ spans \in Seq(Span) /\ spans # <<>> /\ start \in Int /\ end \in Int
      /\ To(spans[Len(spans)]) = end /\ spans[1].from = start
      /\ \A i \in 1..(Len(spans) - 1) : spans[i + 1].from = To(spans[i])
  BY DEF IInv, TypeOK, Tiling
<1>2. Len(spans) \in Nat \ {0}
  BY <1>1
<1>3. Len(spans) \in T
  BY <1>1, <1>2
<1>4. PICK n \in T : \A i \in T : n <= i
  <2>1. T \in SUBSET Nat /\ T # {}
    BY <1>2, <1>3
  <2> HIDE DEF T
  <2> QED
    BY <2>1, Least
<1>5. PICK f \in Int, e \in Int : f = spans[n].from /\ e = To(spans[n]) /\ t < e
  <2>1. spans[n] \in Span
    BY <1>1
  <2> QED
    BY <2>1 DEF Span, To
<1>6. f <= t
  <2>1. CASE n = 1
    BY <1>1, <1>5, <2>1
  <2>2. CASE n # 1
    <3>1. n - 1 \in 1..(Len(spans) - 1) /\ n - 1 \in 1..Len(spans) /\ n - 1 < n
      BY <1>2, <2>2
    <3>2. f = To(spans[n - 1])
      BY <1>1, <1>5, <3>1
    <3>3. ~(t < To(spans[n - 1]))
      BY <1>4, <3>1
    <3> QED
      BY <1>5, <3>2, <3>3
  <2> QED
    BY <2>1, <2>2
<1>7. t \in Instants(spans[n])
  BY <1>5, <1>6 DEF Instants
<1> QED
  BY <1>7

\* A clock is skipped for an interval only if the sun fails to rise or set in
\* it or shortly after, and is never undefined, in an interval it is not
\* skipped for, longer than solar time falls back (bucketing.py:237-238,
\* 377-398; ingest.py:131-133).
THEOREM SkippedIfUndefinedHolds == Spec => []SkippedIfUndefined
<1>1. ASSUME IInv, Raised, pc = "error", start < end
      PROVE  \E t \in start..(end + LookAhead) : Undefined(t)
  <2>1. /\ clock \in Clock /\ start \in Int /\ end \in Int /\ cur \in Int
        /\ <<start, end>> \in Interval /\ start <= cur /\ cur < end
        /\ ~(Cuttable(clock, cur) /\ Boundary > cur)
    BY <1>1 DEF IInv, TypeOK, Raised
  <2>2. cur \in Instant
    <3>1. cur \in start..(end - 1)
      BY <2>1
    <3> QED
      BY <2>1, <3>1, CalledInstants
  <2>3. ~(/\ ClockCuttable(clock, cur) /\ ClockBoundary(clock, cur) \in Int
          /\ cur < ClockBoundary(clock, cur))
    <3>1. SUFFICES ASSUME ClockCuttable(clock, cur), ClockBoundary(clock, cur) \in Int,
                          cur < ClockBoundary(clock, cur)
                   PROVE  FALSE
      OBVIOUS
    <3>2. Cuttable(clock, cur) /\ NextBoundary(clock, cur) = ClockBoundary(clock, cur)
      BY <2>1, <2>2, <3>1, ClockWiring
    <3>3. Boundary > cur
      BY <2>1, <3>1, <3>2 DEF Boundary
    <3> QED
      BY <2>1, <3>2, <3>3
  <2>4. clock.kind = "unequal"
    BY <2>1, <2>3, AlwaysAhead
  <2>5. SunClock(clock)
    BY <2>1, <2>4, KindsAre
  <2>6. ~(/\ SunDefined(clock, cur) /\ Probes(clock, cur) # {}
          /\ Bisect(clock, cur) \in Int /\ cur < Bisect(clock, cur))
    BY <2>3, <2>4 DEF ClockCuttable, ClockBoundary
  <2>7. PICK m \in cur..(cur + LookAhead) : ~SunDefined(clock, m)
    BY <2>1, <2>5, <2>6, SunCuts
  <2>8. LookAhead \in Int
    BY ClockAssumption DEF LookAhead
  <2>9. m \in start..(end + LookAhead)
    BY <2>1, <2>8
  <2> QED
    BY <2>4, <2>7, <2>9 DEF Undefined
<1>2. ASSUME IInv, pc = "done", NEW u \in start..(end - 1)
      PROVE  \E v \in (u - Back(clock))..(u + Back(clock)) : ~Undefined(v)
  <2>1. clock \in Clock /\ u \in Int
    BY <1>2 DEF IInv, TypeOK
  <2>2. CASE clock.kind # "unequal"
    <3>1. Back(clock) = 0
      BY <2>2, Zenon DEF Back
    <3>2. u \in (u - Back(clock))..(u + Back(clock))
      BY <2>1, <3>1
    <3> QED
      BY <2>2, <3>2 DEF Undefined
  <2>3. CASE clock.kind = "unequal"
    <3>1. PICK i \in 1..Len(spans) : u \in Instants(spans[i])
      BY <1>2, Covered
    <3>2. PICK t \in Instant :
            Cuttable(clock, t) /\ t \in Int /\ t <= u /\ u < ClockBoundary(clock, t)
      BY <1>2, <3>1, PieceFacts
    <3>3. SunDefined(clock, t) /\ Probes(clock, t) # {}
      BY <2>1, <2>3, <3>2, ClockWiring DEF ClockCuttable
    <3>4. ClockBoundary(clock, t) = Bisect(clock, t)
      BY <2>3 DEF ClockBoundary
    <3>5. \E v \in (u - Back(clock))..(u + Back(clock)) : SunDefined(clock, v)
      BY <2>1, <2>3, <3>2, <3>3, <3>4, KindsAre, SunGap
    <3> QED
      BY <3>5 DEF Undefined
  <2> QED
    BY <2>2, <2>3
<1>3. IInv /\ Raised => SkippedIfUndefined
  BY <1>1, <1>2 DEF SkippedIfUndefined
<1> QED
  BY <1>3, Invariant, RaisedHolds, PTL

=============================================================================
