------------------------- MODULE QuarterSplitProofs -------------------------
(***************************************************************************)
(* Proofs about QuarterSplit, for every calendar whose months follow each  *)
(* other in time and fill whole years, and for all intervals.              *)
(***************************************************************************)
EXTENDS QuarterSplit, TLAPS

\* Four quarters of three months each make the index of a quarter, and month
\* 13 carried into the next year is the month after the quarter.
LEMMA QuarterArithmetic ==
  ASSUME NEW n \in Int
  PROVE  /\ QuarterIndex(n) = n \div 3
         /\ BoundaryMonth(n) = 3 * (n \div 3) + 3
<1>1. n = 12 * (n \div 12) + (n % 12) /\ n \div 12 \in Int /\ n % 12 \in 0..11
  OBVIOUS
<1>2. QuarterIndex(n) = 4 * (n \div 12) + ((n % 12) \div 3)
  BY <1>1 DEF QuarterIndex, Year, MonthOfYear
<1>3. QuarterIndex(n) = n \div 3
  BY <1>1, <1>2
<1>4. (QuarterIndex(n) % 4) = (n % 12) \div 3
  BY <1>1, <1>2
<1>5. BoundaryMonth(n) = 12 * (n \div 12) + 3 * ((n % 12) \div 3) + 3
  BY <1>1, <1>4 DEF BoundaryMonth, Year
<1> QED
  BY <1>1, <1>3, <1>5

LEMMA Months ==
  /\ FirstMonth \in Int /\ LastMonth \in Int /\ FirstMonth <= LastMonth
  /\ \A n : n \in Month <=> n \in Int /\ FirstMonth <= n /\ n <= LastMonth
  BY MonthAssumption DEF Month

LEMMA Starts ==
  /\ \A n \in Int : FirstMonth <= n /\ n <= LastMonth + 1 => MonthStart[n] \in Int
  /\ \A m, n \in Int : FirstMonth <= m /\ m < n /\ n <= LastMonth + 1
                         => MonthStart[m] < MonthStart[n]
  /\ \A t : t \in Instant <=> /\ t \in Int /\ MonthStart[FirstMonth] <= t
                              /\ t < MonthStart[LastMonth + 1]
<1>1. \A n \in Int : FirstMonth <= n /\ n <= LastMonth + 1 => MonthStart[n] \in Int
  BY MonthAssumption
<1>2. \A m, n \in Int : FirstMonth <= m /\ m < n /\ n <= LastMonth + 1
                          => MonthStart[m] < MonthStart[n]
  <2> TAKE m, n \in Int
  <2> HAVE FirstMonth <= m /\ m < n /\ n <= LastMonth + 1
  <2>1. m \in FirstMonth..(LastMonth + 1) /\ n \in FirstMonth..(LastMonth + 1)
    BY Months
  <2> QED
    BY <2>1, MonthAssumption
<1>3. MonthStart[FirstMonth] \in Int /\ MonthStart[LastMonth + 1] \in Int
  BY <1>1, Months
<1> QED
  BY <1>1, <1>2, <1>3 DEF Instant

LEMMA Quarters ==
  /\ LastQuarter \in Int
  /\ \A n \in Month : BoundaryMonth(n) \in Month <=> QuarterIndex(n) < LastQuarter
<1>1. LastQuarter = LastMonth \div 3 /\ LastMonth = 3 * (LastMonth \div 3) + 2
  <2>1. LastMonth \in Int /\ (LastMonth % 12) = 11
    BY MonthAssumption
  <2>2. LastMonth = 3 * (LastMonth \div 3) + 2
    BY <2>1
  <2> QED
    BY <2>1, <2>2, QuarterArithmetic DEF LastQuarter
<1>2. ASSUME NEW n \in Month
      PROVE  BoundaryMonth(n) \in Month <=> QuarterIndex(n) < LastQuarter
  <2>1. n \in Int /\ FirstMonth <= n /\ n <= LastMonth
    BY Months
  <2>2. QuarterIndex(n) = n \div 3 /\ BoundaryMonth(n) = 3 * (n \div 3) + 3
    BY <2>1, QuarterArithmetic
  <2>3. n < 3 * (n \div 3) + 3
    BY <2>1
  <2> QED
    BY <1>1, <2>1, <2>2, <2>3, Months
<1> QED
  BY <1>1, <1>2, Months

LEMMA Instants ==
  ASSUME NEW t \in Instant
  PROVE  /\ t \in Int /\ MonthOf(t) \in Month
         /\ MonthOf(t) \in Int /\ FirstMonth <= MonthOf(t) /\ MonthOf(t) <= LastMonth
         /\ MonthStart[MonthOf(t)] \in Int /\ MonthStart[MonthOf(t) + 1] \in Int
         /\ MonthStart[MonthOf(t)] <= t /\ t < MonthStart[MonthOf(t) + 1]
         /\ QuarterAt(t) \in Int /\ QuarterAt(t) = MonthOf(t) \div 3
<1>1. MonthOf(t) \in Month /\ MonthStart[MonthOf(t)] <= t /\ t < MonthStart[MonthOf(t) + 1]
  BY InstantAssumption
<1>2. MonthOf(t) \in Int /\ FirstMonth <= MonthOf(t) /\ MonthOf(t) <= LastMonth
  BY <1>1, Months
<1>3. MonthStart[MonthOf(t)] \in Int /\ MonthStart[MonthOf(t) + 1] \in Int
  BY <1>2, Starts, Months
<1>4. QuarterAt(t) = MonthOf(t) \div 3
  BY <1>2, QuarterArithmetic DEF QuarterAt
<1> QED
  BY <1>1, <1>2, <1>3, <1>4, Starts

\* Time does not run backwards through the months, nor through the quarters.
LEMMA QuarterOrder ==
  ASSUME NEW t \in Instant, NEW u \in Instant, t <= u
  PROVE  MonthOf(t) <= MonthOf(u) /\ QuarterAt(t) <= QuarterAt(u)
<1> DEFINE m == MonthOf(t)
           n == MonthOf(u)
<1>1. /\ m \in Int /\ n \in Int /\ FirstMonth <= n /\ m <= LastMonth
      /\ MonthStart[m] \in Int /\ MonthStart[n + 1] \in Int
      /\ MonthStart[m] <= t /\ u < MonthStart[n + 1] /\ t \in Int /\ u \in Int
      /\ QuarterAt(t) = m \div 3 /\ QuarterAt(u) = n \div 3
  BY Instants
<1>2. ~(n + 1 < m)
  <2>1. n + 1 < m => MonthStart[n + 1] < MonthStart[m]
    BY <1>1, Starts, Months
  <2> QED
    BY <1>1, <2>1
<1>3. n + 1 # m
  BY <1>1
<1>4. m <= n
  BY <1>1, <1>2, <1>3
<1> QED
  BY <1>1, <1>4

\* What one cut relies on.
LEMMA NextQuarter ==
  ASSUME NEW t \in Instant, BoundaryMonth(MonthOf(t)) \in Month,
         NEW b, b = MonthStart[BoundaryMonth(MonthOf(t))]
  PROVE  /\ b \in Instant /\ t < b
         /\ QuarterAt(b) = QuarterAt(t) + 1
         /\ \A u \in Instant : t <= u /\ u < b => QuarterAt(u) = QuarterAt(t)
<1>1. PICK m \in Int : m = MonthOf(t)
  BY Instants
<1>2. PICK n \in Int : n = BoundaryMonth(m) /\ n = 3 * (m \div 3) + 3
  <2>1. BoundaryMonth(m) = 3 * (m \div 3) + 3
    BY QuarterArithmetic
  <2>2. 3 * (m \div 3) + 3 \in Int
    OBVIOUS
  <2> QED
    BY <2>1, <2>2
<1>3. /\ FirstMonth <= m /\ m + 1 <= n /\ n <= LastMonth
      /\ b = MonthStart[n] /\ b \in Int /\ t \in Int
  BY <1>1, <1>2, Instants, Months, Starts
<1>4. b \in Instant
  <2>1. n = FirstMonth \/ MonthStart[FirstMonth] < MonthStart[n]
    BY <1>3, Starts, Months
  <2>2. MonthStart[n] < MonthStart[LastMonth + 1]
    BY <1>3, Starts, Months
  <2> QED
    BY <1>3, <2>1, <2>2, Starts, Months
<1>5. t < b
  <2>1. t < MonthStart[m + 1] /\ MonthStart[m + 1] \in Int
    BY <1>1, Instants
  <2>2. m + 1 = n \/ MonthStart[m + 1] < MonthStart[n]
    BY <1>3, Starts, Months
  <2> QED
    BY <1>3, <2>1, <2>2
<1>6. PICK k \in Int : k = MonthOf(b)
  BY <1>4, Instants
<1>7. k = n
  <2>1. /\ FirstMonth <= k /\ k <= LastMonth
        /\ MonthStart[k] <= MonthStart[n] /\ MonthStart[n] < MonthStart[k + 1]
        /\ MonthStart[k] \in Int /\ MonthStart[k + 1] \in Int
    BY <1>3, <1>4, <1>6, Instants
  <2>2. n < k => MonthStart[n] < MonthStart[k]
    BY <1>3, <2>1, Starts, Months
  <2>3. k + 1 < n => MonthStart[k + 1] < MonthStart[n]
    BY <1>3, <2>1, Starts, Months
  <2>4. ~(n < k) /\ ~(k + 1 < n) /\ k + 1 # n
    BY <1>3, <2>1, <2>2, <2>3
  <2> QED
    BY <2>4
<1>8. QuarterAt(t) = m \div 3 /\ QuarterAt(b) = n \div 3
  BY <1>1, <1>4, <1>6, <1>7, Instants
<1>9. QuarterAt(b) = QuarterAt(t) + 1
  BY <1>2, <1>8
<1>10. ASSUME NEW u \in Instant, t <= u, u < b
       PROVE  QuarterAt(u) = QuarterAt(t)
  <2>1. PICK j \in Int : j = MonthOf(u) /\ MonthStart[j] <= u /\ QuarterAt(u) = j \div 3
    BY Instants
  <2>2. m <= j /\ j <= n
    <3>1. MonthOf(t) <= MonthOf(u)
      BY <1>10, QuarterOrder
    <3>2. MonthOf(u) <= MonthOf(b)
      <4>1. u <= b
        BY <1>3, <1>10, Starts
      <4> QED
        BY <1>4, <4>1, QuarterOrder
    <3> QED
      BY <1>1, <1>6, <1>7, <2>1, <3>1, <3>2
  <2>3. j # n
    BY <1>3, <1>10, <2>1, Instants
  <2> QED
    BY <1>2, <1>8, <2>1, <2>2, <2>3
<1> QED
  BY <1>4, <1>5, <1>9, <1>10

-----------------------------------------------------------------------------
\* One cut adds a piece that begins where the last one ended, ends later, not
\* after the interval, and lies in one quarter.
LEMMA CutEffect ==
  ASSUME IInv, Cut
  PROVE  /\ start \in Int /\ end \in Int /\ cur \in Int /\ cur' \in Int
         /\ start < end /\ cur < cur' /\ cur' <= end
         /\ start' = start /\ end' = end /\ pc' = "loop" /\ pc = "loop"
         /\ QuarterAt(cur) \in Int /\ QuarterAt(cur) < LastQuarter
         /\ cur \in Instant /\ cur' - 1 \in Instant
         /\ \A t \in Instant : cur <= t /\ t < cur' => QuarterAt(t) = QuarterAt(cur)
         /\ cur' < end => cur' \in Instant /\ QuarterAt(cur') = QuarterAt(cur) + 1
         /\ spans' = Append(spans, [quarter |-> QuarterAt(cur), start |-> cur, end |-> cur'])
<1>1. /\ start \in Int /\ end \in Int /\ cur \in Int /\ start < end
      /\ pc = "loop" /\ cur < end /\ cur \in Instant
      /\ BoundaryMonth(MonthOf(cur)) \in Month
      /\ start' = start /\ end' = end /\ pc' = "loop"
  BY DEF IInv, TypeOK, Resting, Cut, Expressible
<1>2. PICK b : b = MonthStart[BoundaryMonth(MonthOf(cur))]
  OBVIOUS
<1>3. /\ b \in Instant /\ cur < b /\ QuarterAt(b) = QuarterAt(cur) + 1
      /\ \A u \in Instant : cur <= u /\ u < b => QuarterAt(u) = QuarterAt(cur)
  BY <1>1, <1>2, NextQuarter
<1>4. cur' = IF b > end THEN end ELSE b
  BY <1>2 DEF Cut, Boundary
<1>5. b \in Int
  BY <1>3, Starts
<1>6. cur' \in Int /\ cur < cur' /\ cur' <= end /\ cur' <= b
  BY <1>1, <1>3, <1>4, <1>5
<1>7. cur' - 1 \in Instant
  BY <1>1, <1>3, <1>5, <1>6, Starts, Months
<1>8. QuarterAt(cur) \in Int /\ QuarterAt(cur) < LastQuarter
  BY <1>1, Instants, Quarters DEF QuarterAt
<1>9. \A t \in Instant : cur <= t /\ t < cur' => QuarterAt(t) = QuarterAt(cur)
  BY <1>3, <1>5, <1>6, Starts
<1>10. cur' < end => cur' = b
  BY <1>1, <1>4, <1>5
<1>11. cur' < end => cur' \in Instant /\ QuarterAt(cur') = QuarterAt(cur) + 1
  BY <1>3, <1>10
<1>12. spans' = Append(spans, [quarter |-> QuarterAt(cur), start |-> cur, end |-> cur'])
  BY DEF Cut
<1> QED
  BY <1>1, <1>6, <1>7, <1>8, <1>9, <1>11, <1>12

LEMMA InitInv == Init => IInv
<1> SUFFICES ASSUME Init PROVE IInv
  OBVIOUS
<1>1. TypeOK
  BY IntervalAssumption DEF Init, TypeOK
<1> QED
  BY <1>1 DEF Init, IInv, TypeOK, Tiling, FiledRightly, ConsecutiveQuarters,
              FailsAtTheEdges, Resting, Inside

LEMMA CutStep ==
  ASSUME IInv, Cut
  PROVE  IInv'
<1> DEFINE x == [quarter |-> QuarterAt(cur), start |-> cur, end |-> cur']
<1>1. PICK n \in Nat : n = Len(spans)
  BY DEF IInv, TypeOK
<1>2. /\ spans \in Seq(Span) /\ x \in Span
      /\ Tiling /\ FiledRightly /\ ConsecutiveQuarters /\ Resting
  BY CutEffect DEF IInv, TypeOK, Span
<1>3. /\ spans' \in Seq(Span) /\ Len(spans') = n + 1 /\ spans' # <<>>
      /\ spans'[n + 1] = x
      /\ \A i \in 1..n : spans'[i] = spans[i]
  BY <1>1, <1>2, CutEffect
<1>4. x.start = cur /\ x.end = cur' /\ x.quarter = QuarterAt(cur)
  OBVIOUS
<1>5. spans = <<>> <=> n = 0
  BY <1>1, <1>2
<1>6. n # 0 => /\ spans[1].start = start /\ spans[n].end = cur
               /\ spans[n].quarter + 1 = QuarterAt(cur)
               /\ start \in Instant /\ n \in 1..n
  BY <1>1, <1>2, <1>5, CutEffect DEF Tiling, Resting
<1>7. TypeOK'
  BY <1>3, CutEffect DEF TypeOK
<1>8. Tiling'
  <2>1. spans'[1].start = start
    BY <1>2, <1>3, <1>4, <1>5, <1>6 DEF Tiling
  <2>2. \A i \in 1..(n + 1) : spans'[i].start < spans'[i].end
    BY <1>1, <1>2, <1>3, <1>4, CutEffect DEF Tiling
  <2>3. \A i \in 1..n : spans'[i + 1].start = spans'[i].end
    <3> TAKE i \in 1..n
    <3>1. CASE i = n
      BY <1>3, <1>4, <1>6, <3>1
    <3>2. CASE i # n
      <4>1. i \in 1..(n - 1) /\ i + 1 \in 1..n
        BY <3>2
      <4> QED
        BY <1>1, <1>2, <1>3, <4>1 DEF Tiling
    <3> QED
      BY <3>1, <3>2
  <2> QED
    BY <1>3, <1>4, <2>1, <2>2, <2>3, CutEffect DEF Tiling
<1>9. FiledRightly'
  <2> SUFFICES ASSUME NEW i \in 1..(n + 1), NEW t \in Instant,
                      spans'[i].start <= t, t < spans'[i].end
               PROVE  QuarterAt(t) = spans'[i].quarter
    BY <1>3 DEF FiledRightly
  <2>1. CASE i = n + 1
    BY <1>3, <1>4, <2>1, CutEffect
  <2>2. CASE i \in 1..n
    BY <1>1, <1>2, <1>3, <2>2 DEF FiledRightly
  <2> QED
    BY <2>1, <2>2
<1>10. ConsecutiveQuarters'
  <2> SUFFICES ASSUME NEW i \in 1..n
               PROVE  spans'[i + 1].quarter = spans'[i].quarter + 1
    BY <1>3 DEF ConsecutiveQuarters
  <2>1. CASE i = n
    BY <1>3, <1>4, <1>6, <2>1
  <2>2. CASE i # n
    <3>1. i \in 1..(n - 1) /\ i + 1 \in 1..n
      BY <2>2
    <3> QED
      BY <1>1, <1>2, <1>3, <3>1 DEF ConsecutiveQuarters
  <2> QED
    BY <2>1, <2>2
<1>11. Resting'
  <2>1. start \in Instant
    BY <1>2, <1>5, <1>6, CutEffect DEF Tiling
  <2> QED
    BY <1>3, <1>4, <2>1, CutEffect DEF Resting, LastQuarter
<1>12. FailsAtTheEdges'
  BY CutEffect DEF FailsAtTheEdges
<1> QED
  BY <1>7, <1>8, <1>9, <1>10, <1>11, <1>12 DEF IInv

\* The loop raises only for an interval that cannot be cut.
LEMMA RaiseStep ==
  ASSUME IInv, Raise
  PROVE  IInv'
<1>1. /\ pc = "loop" /\ cur < end /\ ~Expressible /\ pc' = "error"
      /\ start' = start /\ end' = end /\ cur' = cur /\ spans' = spans
      /\ start \in Int /\ end \in Int /\ cur \in Int
  BY DEF Raise, IInv, TypeOK
<1>2. ~Inside
  <2> SUFFICES ASSUME Inside PROVE FALSE
    OBVIOUS
  <2>1. cur \in Instant
    <3>1. CASE spans = <<>>
      BY <3>1 DEF IInv, Tiling, Inside
    <3>2. CASE spans # <<>>
      BY <1>1, <3>2 DEF IInv, Resting
    <3> QED
      BY <3>1, <3>2
  <2>2. MonthOf(cur) \in Month /\ QuarterAt(cur) \in Int
    BY <2>1, Instants
  <2>3. ~(QuarterAt(cur) < LastQuarter)
    BY <1>1, <2>1, <2>2, Quarters DEF Expressible, QuarterAt
  <2>4. QuarterAt(cur) <= QuarterAt(end - 1)
    <3>1. end - 1 \in Instant /\ cur <= end - 1
      BY <1>1 DEF Inside
    <3> QED
      BY <2>1, <3>1, QuarterOrder
  <2>5. QuarterAt(end - 1) \in Int /\ QuarterAt(end - 1) < LastQuarter
    BY Instants DEF Inside
  <2> QED
    BY <2>2, <2>3, <2>4, <2>5, Quarters
<1> QED
  BY <1>1, <1>2 DEF IInv, TypeOK, Tiling, FiledRightly, ConsecutiveQuarters,
                    FailsAtTheEdges, Inside, Resting

\* The loop returns only when the interval has been cut to its end.
LEMMA ReturnStep ==
  ASSUME IInv, Return
  PROVE  IInv'
<1>1. /\ pc = "loop" /\ cur >= end /\ pc' = "done" /\ start < end
      /\ start' = start /\ end' = end /\ cur' = cur /\ spans' = spans
      /\ start \in Int /\ end \in Int /\ cur \in Int /\ cur <= end
  BY DEF Return, IInv, TypeOK, Tiling, Resting
<1>2. cur = end
  BY <1>1
<1>3. spans # <<>>
  BY <1>1, <1>2 DEF IInv, Tiling
<1>4. Len(spans) \in 1..Len(spans)
  BY <1>3 DEF IInv, TypeOK
<1>5. PICK s : s = spans[Len(spans)]
  OBVIOUS
<1>6. /\ s.end = cur /\ s.start < s.end /\ s.quarter < LastQuarter
      /\ start \in Instant /\ s.end - 1 \in Instant
      /\ s.start \in Int /\ s.end \in Int
  <2>1. s \in Span
    BY <1>4, <1>5 DEF IInv, TypeOK
  <2>2. s.end = cur /\ s.start < s.end
    BY <1>3, <1>4, <1>5 DEF IInv, Tiling
  <2>3. s.quarter < LastQuarter /\ start \in Instant /\ s.end - 1 \in Instant
    BY <1>3, <1>5 DEF IInv, Resting
  <2> QED
    BY <2>1, <2>2, <2>3 DEF Span
<1>7. QuarterAt(end - 1) = s.quarter
  <2>1. s.start <= end - 1 /\ end - 1 < s.end
    BY <1>2, <1>6
  <2> QED
    BY <1>2, <1>4, <1>5, <1>6, <2>1 DEF IInv, FiledRightly
<1>8. Inside
  BY <1>1, <1>2, <1>6, <1>7 DEF Inside
<1> QED
  BY <1>1, <1>2, <1>8 DEF IInv, TypeOK, Tiling, FiledRightly, ConsecutiveQuarters,
                          FailsAtTheEdges, Inside, Resting

\* IInv holds throughout the loop: the pieces tile the interval so far, lie in
\* consecutive quarters, and the loop rests on the first instant of a quarter
\* (quarter.py:41-59).
THEOREM Invariant == Spec => []IInv
<1>1. IInv /\ [Next]_vars => IInv'
  <2> SUFFICES ASSUME IInv, [Next]_vars PROVE IInv'
    OBVIOUS
  <2>1. CASE UNCHANGED vars
    BY <2>1 DEF vars, IInv, TypeOK, Tiling, FiledRightly, ConsecutiveQuarters,
                FailsAtTheEdges, Inside, Resting
  <2> QED
    BY <2>1, CutStep, RaiseStep, ReturnStep DEF Next
<1> QED
  BY <1>1, InitInv, PTL DEF Spec

\* The pieces are the interval, without gaps or overlaps (quarter.py:41-59).
THEOREM TilingHolds == Spec => []Tiling
  BY Invariant, PTL DEF IInv

\* Every instant is filed under its own quarter (quarter.py:44-57).
THEOREM FiledRightlyHolds == Spec => []FiledRightly
  BY Invariant, PTL DEF IInv

\* Consecutive pieces go to consecutive quarters, over the end of every year
\* (quarter.py:46-52), so an interval updates no row twice.
THEOREM ConsecutiveQuartersHolds == Spec => []ConsecutiveQuarters
  BY Invariant, PTL DEF IInv

\* The intervals that cannot be cut are those Ingest!Datable excludes
\* (quarter.py:38-39, 44, 52).
THEOREM FailsAtTheEdgesHolds == Spec => []FailsAtTheEdges
  BY Invariant, PTL DEF IInv

=============================================================================
