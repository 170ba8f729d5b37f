----------------------------- MODULE BlobProofs -----------------------------
(***************************************************************************)
(* Proofs about the blob, for any number of states, clocks and buckets:    *)
(* its layout is dense and free of collisions, updates stay inside it, and *)
(* seen as a table it takes an event wholly or not at all.                 *)
(***************************************************************************)
EXTENDS BlobTable, WellFoundedInduction, TLAPS

(* Multiples, quotients and remainders.                                    *)

\* A multiple that is larger by one step is larger by the step.
LEMMA Multiples ==
  ASSUME NEW n \in Nat \ {0}, NEW a \in Int, NEW b \in Int, a < b
  PROVE  a * n + n <= b * n
<1>1. PICK d \in Nat : b = a + 1 + d
  <2>1. b - a - 1 \in Nat /\ b = a + 1 + (b - a - 1)
    OBVIOUS
  <2> QED
    BY <2>1
<1>2. b * n = a * n + n + d * n /\ d * n \in Nat
  BY <1>1
<1> QED
  BY <1>2

\* Quotient and remainder are unique.
LEMMA DivMod ==
  ASSUME NEW n \in Nat \ {0}, NEW a \in Int, NEW q \in Int, NEW r \in 0..(n - 1),
         a = q * n + r
  PROVE  a \div n = q /\ a % n = r
<1>1. /\ a \div n \in Int /\ a % n \in 0..(n - 1)
      /\ a = (a \div n) * n + (a % n)
  OBVIOUS
<1>2. ~(a \div n < q)
  BY <1>1, Multiples
<1>3. ~(q < a \div n)
  BY <1>1, Multiples
<1>4. a \div n = q
  BY <1>1, <1>2, <1>3
<1> QED
  BY <1>1, <1>4

\* A number is a multiple and a rest.
LEMMA Quotient ==
  ASSUME NEW n \in Nat \ {0}, NEW a \in Int
  PROVE  a \div n \in Int /\ \E r \in 0..(n - 1) : a = (a \div n) * n + r
<1>1. a \div n \in Int /\ a % n \in 0..(n - 1) /\ a = (a \div n) * n + (a % n)
  OBVIOUS
<1> QED
  BY <1>1

\* m parts of length n, and a part of them that is not complete.
LEMMA Nested ==
  ASSUME NEW n \in Nat \ {0}, NEW m \in Nat \ {0}, NEW i \in 0..(m - 1), NEW r \in 0..(n - 1)
  PROVE  i * n + r \in 0..(m * n - 1) /\ i * n \in Nat
<1>1. i * n \in Nat /\ m * n \in Nat
  OBVIOUS
<1>2. i * n + n <= m * n
  BY Multiples
<1> QED
  BY <1>1, <1>2

-----------------------------------------------------------------------------
(* The layout.                                                             *)

\* A number below m * n, in exactly one way i * n + r.
LEMMA Divide ==
  ASSUME NEW n \in Nat \ {0}, NEW m \in Nat, NEW a \in 0..(m * n - 1)
  PROVE  \E i \in 0..(m - 1), r \in 0..(n - 1) : a = i * n + r
<1>1. PICK r \in 0..(n - 1) : a = (a \div n) * n + r
  <2>1. m * n \in Int
    OBVIOUS
  <2>2. a \in Int
    BY <2>1
  <2> QED
    BY <2>2, Quotient
<1>2. PICK i \in Int : i = a \div n /\ a = i * n + r
  <2>1. m * n \in Int
    OBVIOUS
  <2>2. a \in Int
    BY <2>1
  <2> QED
    BY <1>1, <2>2, Quotient
<1>3. i * n \in Int /\ m * n \in Int
  OBVIOUS
<1>4. ~(i < 0)
  <2>1. ASSUME i < 0 PROVE FALSE
    <3>1. i * n + n <= 0 * n
      BY <2>1, Multiples
    <3> QED
      BY <1>2, <1>3, <3>1
  <2> QED
    BY <2>1
<1>5. ~(m <= i)
  <2>1. ASSUME m <= i PROVE FALSE
    <3>1. m * n <= i * n
      <4>1. CASE m = i
        BY <4>1
      <4>2. CASE m < i
        <5>1. m * n + n <= i * n
          BY <4>2, Multiples
        <5> QED
          BY <1>3, <5>1
      <4> QED
        BY <2>1, <4>1, <4>2
    <3> QED
      BY <1>2, <1>3, <3>1
  <2> QED
    BY <2>1
<1>6. i \in 0..(m - 1)
  BY <1>4, <1>5
<1> QED
  BY <1>2, <1>6

\* There is no other way.
LEMMA Unique ==
  ASSUME NEW n \in Nat \ {0}, NEW i \in Int, NEW j \in Int,
         NEW r \in 0..(n - 1), NEW s \in 0..(n - 1), i * n + r = j * n + s
  PROVE  i = j /\ r = s
<1>1. PICK a \in Int : a = i * n + r
  OBVIOUS
<1>2. a \div n = i /\ a % n = r
  BY <1>1, DivMod
<1>3. a \div n = j /\ a % n = s
  BY <1>1, DivMod
<1> QED
  BY <1>2, <1>3

\* The group of a pair of states: holdings first, then transitions.
Group(s, t, n) == IF s = t THEN s ELSE n + TransGroupIndex(s, t, n)

\* The groups of the transitions are numbered without gaps.
LEMMA TransGroups ==
  ASSUME NEW n \in Nat, n >= 2
  PROVE  /\ \A s, t \in 0..(n - 1) :
              s # t => TransGroupIndex(s, t, n) \in 0..(n * (n - 1) - 1)
         /\ \A g \in 0..(n * (n - 1) - 1) :
              \E s, t \in 0..(n - 1) : s # t /\ TransGroupIndex(s, t, n) = g
         /\ \A s, t, u, v \in 0..(n - 1) :
              s # t /\ u # v /\ TransGroupIndex(s, t, n) = TransGroupIndex(u, v, n)
                => s = u /\ t = v
<1>1. n - 1 \in Nat \ {0} /\ n \in Nat \ {0}
  OBVIOUS
<1> DEFINE Rank(s, t) == IF t < s THEN t ELSE t - 1
<1>2. \A s, t \in 0..(n - 1) : s # t => Rank(s, t) \in 0..(n - 2)
  OBVIOUS
<1>3. \A s, t : TransGroupIndex(s, t, n) = s * (n - 1) + Rank(s, t)
  BY DEF TransGroupIndex
<1>4. ASSUME NEW s \in 0..(n - 1), NEW t \in 0..(n - 1), s # t
      PROVE  TransGroupIndex(s, t, n) \in 0..(n * (n - 1) - 1)
  <2>1. PICK m \in Nat \ {0} : m = n - 1
    BY <1>1
  <2>2. PICK r \in 0..(m - 1) : r = Rank(s, t)
    BY <1>2, <1>4, <2>1
  <2>3. s * m + r \in 0..(n * m - 1)
    BY <1>1, Nested
  <2> QED
    BY <1>3, <2>1, <2>2, <2>3
<1>5. ASSUME NEW g \in 0..(n * (n - 1) - 1)
      PROVE  \E s, t \in 0..(n - 1) : s # t /\ TransGroupIndex(s, t, n) = g
  <2>1. PICK m \in Nat \ {0} : m = n - 1
    BY <1>1
  <2>2. PICK s \in 0..(n - 1), r \in 0..(m - 1) : g = s * m + r
    BY <1>1, <2>1, Divide
  <2>3. PICK t \in 0..(n - 1) : s # t /\ Rank(s, t) = r
    <3>1. CASE r < s
      BY <2>1, <3>1
    <3>2. CASE r >= s
      <4>1. r + 1 \in 0..(n - 1) /\ s # r + 1 /\ Rank(s, r + 1) = r
        BY <2>1, <3>2
      <4> QED
        BY <4>1
    <3> QED
      BY <3>1, <3>2
  <2> QED
    BY <1>3, <2>1, <2>2, <2>3
<1>6. ASSUME NEW s \in 0..(n - 1), NEW t \in 0..(n - 1), NEW u \in 0..(n - 1),
             NEW v \in 0..(n - 1), s # t, u # v,
             TransGroupIndex(s, t, n) = TransGroupIndex(u, v, n)
      PROVE  s = u /\ t = v
  <2>1. PICK m \in Nat \ {0} : m = n - 1
    BY <1>1
  <2>2. PICK r \in 0..(m - 1), q \in 0..(m - 1) : r = Rank(s, t) /\ q = Rank(u, v)
    BY <1>2, <1>6, <2>1
  <2>3. s * m + r = u * m + q
    BY <1>3, <1>6, <2>1, <2>2
  <2>4. s = u /\ r = q
    BY <2>3, Unique
  <2> QED
    BY <1>6, <2>2, <2>4
<1> QED
  BY <1>4, <1>5, <1>6

\* So are all groups.
LEMMA Groups ==
  ASSUME NEW n \in Nat, n >= 2
  PROVE  /\ \A s, t \in 0..(n - 1) : Group(s, t, n) \in 0..(n * n - 1)
         /\ \A g \in 0..(n * n - 1) : \E s, t \in 0..(n - 1) : Group(s, t, n) = g
         /\ \A s, t, u, v \in 0..(n - 1) :
              Group(s, t, n) = Group(u, v, n) => s = u /\ t = v
<1>1. PICK k \in Nat : k = n * (n - 1) /\ n * n = n + k
  <2>1. n * (n - 1) = n * n - n /\ n * n \in Nat /\ n * (n - 1) \in Nat
    OBVIOUS
  <2> QED
    BY <2>1
<1>2. \A s, t \in 0..(n - 1) : s # t => TransGroupIndex(s, t, n) \in 0..(k - 1)
  BY <1>1, TransGroups
<1>3. \A s, t \in 0..(n - 1) : Group(s, t, n) \in 0..(n * n - 1)
  BY <1>1, <1>2 DEF Group
<1>4. ASSUME NEW g \in 0..(n * n - 1)
      PROVE  \E s, t \in 0..(n - 1) : Group(s, t, n) = g
  <2>1. CASE g < n
    <3>1. g \in 0..(n - 1) /\ Group(g, g, n) = g
      BY <2>1 DEF Group
    <3> QED
      BY <3>1
  <2>2. CASE g >= n
    <3>1. g - n \in 0..(k - 1)
      BY <1>1, <2>2
    <3>2. PICK s \in 0..(n - 1), t \in 0..(n - 1) : s # t /\ TransGroupIndex(s, t, n) = g - n
      BY <1>1, <3>1, TransGroups
    <3>3. Group(s, t, n) = g
      BY <3>2 DEF Group
    <3> QED
      BY <3>3
  <2> QED
    BY <2>1, <2>2
<1>5. ASSUME NEW s \in 0..(n - 1), NEW t \in 0..(n - 1), NEW u \in 0..(n - 1),
             NEW v \in 0..(n - 1), Group(s, t, n) = Group(u, v, n)
      PROVE  s = u /\ t = v
  <2>1. CASE s = t /\ u = v
    BY <1>5, <2>1 DEF Group
  <2>2. CASE s # t /\ u # v
    <3>1. PICK g \in Int, h \in Int : g = TransGroupIndex(s, t, n) /\ h = TransGroupIndex(u, v, n)
      BY <1>2, <2>2
    <3>2. g = h
      BY <1>5, <2>2, <3>1 DEF Group
    <3>3. TransGroupIndex(s, t, n) = TransGroupIndex(u, v, n)
      BY <3>1, <3>2
    <3>4. \A i, j, u1, v1 \in 0..(n - 1) :
            i # j /\ u1 # v1 /\ TransGroupIndex(i, j, n) = TransGroupIndex(u1, v1, n)
              => i = u1 /\ j = v1
      BY TransGroups
    <3> QED
      BY <2>2, <3>3, <3>4
  <2>3. CASE (s = t) # (u = v)
    BY <1>2, <1>5, <2>3 DEF Group
  <2> QED
    BY <2>1, <2>2, <2>3
<1> QED
  BY <1>3, <1>4, <1>5

\* The index of a cell: its group, its clock and its bucket.
LEMMA IndexParts ==
  ASSUME NEW n \in Nat, n >= 2, NEW s \in 0..(n - 1), NEW t \in 0..(n - 1),
         NEW c \in Clock, NEW b \in Bucket
  PROVE  IndexFor(<<s, t, c, b>>, n) =
           Group(s, t, n) * GroupSize + (c * BucketsPerWeek + b)
<1>1. GroupSize \in Nat /\ BucketsPerWeek \in Nat /\ c \in Nat /\ b \in Nat
  BY LayoutAssumption DEF GroupSize, Clock, Bucket
<1>2. c * BucketsPerWeek \in Nat
  BY <1>1
<1>3. CASE s = t
  BY <1>1, <1>2, <1>3 DEF IndexFor, HoldIndex, Group
<1>4. CASE s # t
  <2>1. PICK g \in Int : g = TransGroupIndex(s, t, n)
    <3>1. n * (n - 1) \in Int
      OBVIOUS
    <3>2. TransGroupIndex(s, t, n) \in 0..(n * (n - 1) - 1)
      BY <1>4, TransGroups
    <3> QED
      BY <3>1, <3>2
  <2>2. (n + g) * GroupSize = n * GroupSize + g * GroupSize
    BY <1>1
  <2>3. n * GroupSize \in Int /\ g * GroupSize \in Int
    BY <1>1
  <2>4. IndexFor(<<s, t, c, b>>, n) = n * GroupSize + g * GroupSize + c * BucketsPerWeek + b
    BY <1>4, <2>1 DEF IndexFor, TransIndex
  <2>5. Group(s, t, n) = n + g
    BY <1>4, <2>1 DEF Group
  <2> QED
    BY <1>1, <1>2, <2>2, <2>3, <2>4, <2>5
<1> QED
  BY <1>3, <1>4

\* The layout of the blob for any number of states: one place for each counter,
\* and a counter for each place (blob.py:26-32, 79-123).
THEOREM LayoutDense == \A n \in MinStates..MaxStates : Dense(n)
<1> SUFFICES ASSUME NEW n \in MinStates..MaxStates
             PROVE  /\ \A x \in Cells(n) : IndexFor(x, n) \in 0..(ValueCount(n) - 1)
                    /\ \A i \in 0..(ValueCount(n) - 1) : \E x \in Cells(n) : IndexFor(x, n) = i
                    /\ \A x, y \in Cells(n) : IndexFor(x, n) = IndexFor(y, n) => x = y
  BY DEF Dense
<1>1. n \in Nat /\ n >= 2 /\ n * n \in Nat \ {0}
  <2>1. n \in Nat /\ n >= 2
    BY DEF MinStates, MaxStates
  <2> QED
    BY <2>1
<1>2. PICK w \in Nat \ {0}, k \in Nat \ {0}, g \in Nat \ {0} :
        w = BucketsPerWeek /\ k = ClockCount /\ g = GroupSize /\ g = k * w
  <2>1. \A i, j \in Nat \ {0} : i * j \in Nat \ {0} /\ i * j = j * i
    OBVIOUS
  <2> QED
    BY <2>1, LayoutAssumption DEF GroupSize
<1>3. PICK m \in Nat \ {0} : m = n * n /\ ValueCount(n) = m * g
  BY <1>1, <1>2 DEF ValueCount
<1>4. Clock = 0..(k - 1) /\ Bucket = 0..(w - 1)
  BY <1>2 DEF Clock, Bucket
<1>5. \A x \in Cells(n) :
        \E s, t \in 0..(n - 1), c \in 0..(k - 1), b \in 0..(w - 1), i \in 0..(m - 1) :
          /\ x = <<s, t, c, b>> /\ i = Group(s, t, n)
          /\ c * w + b \in 0..(g - 1)
          /\ IndexFor(x, n) = i * g + (c * w + b)
  <2> TAKE x \in Cells(n)
  <2>1. PICK s \in 0..(n - 1), t \in 0..(n - 1), c \in 0..(k - 1), b \in 0..(w - 1) :
          x = <<s, t, c, b>>
    BY <1>4 DEF Cells
  <2>2. PICK i \in 0..(m - 1) : i = Group(s, t, n)
    BY <1>1, <1>3, Groups
  <2>3. c * w + b \in 0..(g - 1)
    BY <1>2, Nested
  <2>4. IndexFor(x, n) = i * g + (c * w + b)
    BY <1>1, <1>2, <1>4, <2>1, <2>2, IndexParts
  <2> QED
    BY <2>1, <2>2, <2>3, <2>4
<1>6. ASSUME NEW x \in Cells(n) PROVE IndexFor(x, n) \in 0..(ValueCount(n) - 1)
  <2>1. PICK i \in 0..(m - 1), r \in 0..(g - 1) : IndexFor(x, n) = i * g + r
    BY <1>5
  <2> QED
    BY <1>3, <2>1, Nested
<1>7. ASSUME NEW j \in 0..(ValueCount(n) - 1) PROVE \E x \in Cells(n) : IndexFor(x, n) = j
  <2>1. PICK i \in 0..(m - 1), r \in 0..(g - 1) : j = i * g + r
    <3>1. j \in 0..(m * g - 1)
      BY <1>3
    <3> QED
      BY ONLY <3>1, Divide, m \in Nat \ {0}, g \in Nat \ {0}
  <2>2. PICK c \in 0..(k - 1), b \in 0..(w - 1) : r = c * w + b
    <3>1. r \in 0..(k * w - 1)
      BY <1>2
    <3> QED
      BY ONLY <3>1, Divide, k \in Nat \ {0}, w \in Nat \ {0}
  <2>3. PICK s \in 0..(n - 1), t \in 0..(n - 1) : i = Group(s, t, n)
    BY <1>1, <1>3, Groups
  <2>4. <<s, t, c, b>> \in Cells(n)
    BY <1>4 DEF Cells
  <2>5. IndexFor(<<s, t, c, b>>, n) = i * g + r
    BY <1>1, <1>2, <1>4, <2>2, <2>3, IndexParts
  <2> QED
    BY <2>1, <2>4, <2>5
<1>8. ASSUME NEW x \in Cells(n), NEW y \in Cells(n), IndexFor(x, n) = IndexFor(y, n)
      PROVE  x = y
  <2>1. PICK s \in 0..(n - 1), t \in 0..(n - 1), c \in 0..(k - 1), b \in 0..(w - 1),
             i \in 0..(m - 1) :
          /\ x = <<s, t, c, b>> /\ i = Group(s, t, n)
          /\ c * w + b \in 0..(g - 1)
          /\ IndexFor(x, n) = i * g + (c * w + b)
    BY <1>5
  <2>2. PICK u \in 0..(n - 1), v \in 0..(n - 1), d \in 0..(k - 1), e \in 0..(w - 1),
             j \in 0..(m - 1) :
          /\ y = <<u, v, d, e>> /\ j = Group(u, v, n)
          /\ d * w + e \in 0..(g - 1)
          /\ IndexFor(y, n) = j * g + (d * w + e)
    BY <1>5
  <2>3. i = j /\ c * w + b = d * w + e
    <3>1. PICK p \in 0..(g - 1), q \in 0..(g - 1) : p = c * w + b /\ q = d * w + e
      BY <2>1, <2>2
    <3>2. i \in Int /\ j \in Int
      OBVIOUS
    <3>3. i * g + p = j * g + q
      <4>1. i * g + (c * w + b) = j * g + (d * w + e)
        BY ONLY <1>8, <2>1, <2>2
      <4> QED
        BY ONLY <3>1, <4>1
    <3>4. i = j /\ p = q
      BY ONLY <3>2, <3>3, Unique, g \in Nat \ {0}, p \in 0..(g - 1), q \in 0..(g - 1)
    <3> QED
      BY ONLY <3>1, <3>4
  <2>4. c = d /\ b = e
    <3>1. c \in Int /\ d \in Int
      OBVIOUS
    <3> QED
      BY ONLY <2>3, <3>1, Unique, w \in Nat \ {0}, b \in 0..(w - 1), e \in 0..(w - 1)
  <2>5. s = u /\ t = v
    <3>1. Group(s, t, n) = Group(u, v, n)
      BY ONLY <2>1, <2>2, <2>3
    <3>2. \A i1, i2, i3, i4 \in 0..(n - 1) :
            Group(i1, i2, n) = Group(i3, i4, n) => i1 = i3 /\ i2 = i4
      BY <1>1, Groups
    <3> QED
      BY <3>1, <3>2
  <2> QED
    BY <2>1, <2>2, <2>4, <2>5
<1> QED
  BY <1>6, <1>7, <1>8

-----------------------------------------------------------------------------
Spans == Seq([bucket : Bucket, amount : Nat])

\* A sequence that is not empty has a head and a tail.
LEMMA Parts ==
  ASSUME NEW S, NEW q \in Seq(S), q # <<>>
  PROVE  Head(q) \in S /\ Tail(q) \in Seq(S)
  OBVIOUS

\* The slot of a span lies in the blob, and holds a number.
LEMMA SlotInside ==
  ASSUME IInv, event # NoEvent, todo # <<>>
  PROVE  /\ Slot \in 0..(ValueCount(NumStates) - 1)
         /\ data[Slot] \in 0..(Limit - 1)
         /\ Head(todo).amount \in Nat /\ Tail(todo) \in Spans
<1>1. /\ event \in Event /\ clock \in 1..ClockCount /\ todo \in Spans
      /\ data \in Counters
  <2>1. clock \in 0..ClockCount /\ clock > 0 /\ ClockCount \in Nat
    BY LayoutAssumption DEF IInv, TypeOK
  <2>2. clock \in 1..ClockCount
    BY <2>1
  <2> QED
    BY <2>2 DEF IInv, TypeOK, Spans
<1>2. Head(todo) \in [bucket : Bucket, amount : Nat] /\ Tail(todo) \in Spans
  BY ONLY <1>1, Parts, todo # <<>> DEF Spans
<1>3. <<from[event], to[event], clock - 1, Head(todo).bucket>> \in Cells(NumStates)
  BY <1>1, <1>2, EventAssumption, LayoutAssumption DEF Cells, State, Clock
<1>4. Slot \in 0..(ValueCount(NumStates) - 1)
  BY <1>3, LayoutDense, LayoutAssumption DEF Dense, Slot, Index
<1> QED
  BY <1>1, <1>2, <1>4 DEF Counters

\* The empty blob is a blob.
LEMMA ZerosAreCounters == Zeros \in Counters
  BY LayoutAssumption DEF Zeros, Counters

\* The end of an update leaves nothing behind.
LEMMA EndStep ==
  ASSUME IInv, NEW o \in {"recorded", "failed"}, End(o), event # NoEvent,
         stored' = stored \/ stored' = data
  PROVE  IInv'
<1>1. /\ verdict' = [verdict EXCEPT ![event] = o]
      /\ data' = Zeros /\ event' = NoEvent /\ clock' = 0 /\ todo' = <<>>
  BY DEF End
<1>2. 0 \in 0..ClockCount /\ <<>> \in Spans
  BY LayoutAssumption DEF Spans
<1>3. verdict' \in [Event -> {"none", "recorded", "failed"}]
  BY <1>1 DEF IInv, TypeOK
<1>4. stored' \in Counters
  BY DEF IInv, TypeOK
<1> QED
  BY <1>1, <1>2, <1>3, <1>4, ZerosAreCounters DEF IInv, TypeOK, Spans

\* Updates write inside the blob only, and no counter ever leaves its 64 bits
\* (blob.py:60-76).
THEOREM Invariant == Spec => []IInv
<1>1. Init => IInv
  BY ZerosAreCounters, LayoutAssumption DEF Init, IInv, TypeOK
<1>2. IInv /\ [Next]_vars => IInv'
  <2> SUFFICES ASSUME IInv, [Next]_vars PROVE IInv'
    OBVIOUS
  <2>1. ASSUME NEW e \in Event, Start(e) PROVE IInv'
    BY <2>1, EventAssumption DEF Start, IInv, TypeOK
  <2>2. CASE Split
    <3>1. /\ event \in Event /\ clock \in Clock /\ clock + 1 \in 0..ClockCount /\ clock + 1 > 0
      <4>1. event \in Event
        BY <2>2 DEF Split, IInv, TypeOK
      <4>2. clock \in 0..ClockCount /\ clock < ClockCount /\ ClockCount \in Nat
        BY <2>2, LayoutAssumption DEF Split, IInv, TypeOK
      <4> QED
        BY <4>1, <4>2 DEF Clock
    <3>2. todo' \in Spans
      <4>1. spans[event][clock] \in Spans
        BY <3>1, EventAssumption DEF Spans
      <4>2. <<>> \in Spans
        BY DEF Spans
      <4> QED
        BY <2>2, <4>1, <4>2 DEF Split
    <3> QED
      BY <2>2, <3>1, <3>2 DEF Split, IInv, TypeOK, Spans
  <2>3. CASE SplitRaises
    BY <2>3, EndStep DEF SplitRaises
  <2>4. CASE Add
    <3>1. PICK i, a : i = Slot /\ a = Sum
      OBVIOUS
    <3>2. /\ i \in 0..(ValueCount(NumStates) - 1) /\ a \in 0..(Limit - 1)
          /\ Tail(todo) \in Spans
      BY <2>4, <3>1, SlotInside, LayoutAssumption DEF Add, Sum
    <3>3. data' = [data EXCEPT ![i] = a] /\ data \in Counters
      BY <2>4, <3>1 DEF Add, IInv, TypeOK
    <3>4. data' \in Counters
      BY <3>2, <3>3 DEF Counters
    <3> QED
      BY <2>4, <3>2, <3>4 DEF Add, IInv, TypeOK, Spans
  <2>5. CASE Overflow
    BY <2>5, EndStep DEF Overflow
  <2>6. CASE Commit
    BY <2>6, EndStep DEF Commit
  <2>7. CASE UNCHANGED vars
    BY <2>7 DEF vars, IInv, TypeOK
  <2> QED
    BY <2>1, <2>2, <2>3, <2>4, <2>5, <2>6, <2>7 DEF Next
<1> QED
  BY <1>1, <1>2, PTL DEF Spec

\* In every state the blob stored has a place for each counter of the row, and
\* no other (blob.py:26-32, 79-123).
THEOREM LayoutHolds == Spec => []LayoutIsDense
<1>1. Dense(NumStates)
  BY LayoutDense, LayoutAssumption
<1>2. IInv => LayoutIsDense
  <2> SUFFICES ASSUME IInv PROVE DOMAIN stored = {Index(x) : x \in Cell}
    BY <1>1 DEF LayoutIsDense
  <2>1. DOMAIN stored = 0..(ValueCount(NumStates) - 1)
    BY DEF IInv, TypeOK, Counters
  <2>2. \A x \in Cell : Index(x) \in 0..(ValueCount(NumStates) - 1)
    BY <1>1 DEF Dense, Index, Cell
  <2>3. \A i \in 0..(ValueCount(NumStates) - 1) : \E x \in Cell : Index(x) = i
    BY <1>1 DEF Dense, Index, Cell
  <2> QED
    BY <2>1, <2>2, <2>3
<1> QED
  BY <1>2, Invariant, PTL

-----------------------------------------------------------------------------
(* What a sequence of spans adds up to.                                    *)

\* Induction, for a set of numbers.
LEMMA Induction ==
  ASSUME NEW T \in SUBSET Nat, 0 \in T, \A n \in T : n + 1 \in T
  PROVE  T = Nat
<1> SUFFICES ASSUME Nat \ T # {} PROVE FALSE
  OBVIOUS
<1> DEFINE R == OpToRel(<, Nat)
<1>1. \A x, y \in Nat : y < x => <<y, x>> \in R
  BY DEF OpToRel
<1>2. IsWellFoundedOn(R, Nat)
  BY NatLessThanWellFounded
<1> HIDE DEF R
<1>3. PICK x \in Nat \ T : \A y \in Nat \ T : ~(<<y, x>> \in R)
  BY <1>2, WFMin
<1>4. x - 1 \in Nat /\ x - 1 < x
  BY <1>3
<1>5. x - 1 \in T
  BY <1>1, <1>3, <1>4
<1> QED
  BY <1>3, <1>4, <1>5

\* f sums up the first k numbers of a, one after the other.
SumsUp(f, a, k) == \A i \in 0..k : f[i] = IF i = 0 THEN 0 ELSE f[i - 1] + a[i]

\* There are such sums.
LEMMA SumsExist ==
  ASSUME NEW n \in Nat, NEW a \in [1..n -> Nat]
  PROVE  \E f \in [0..n -> Nat] : SumsUp(f, a, n)
<1> DEFINE T == {k \in Nat : k <= n => \E f \in [0..k -> Nat] : SumsUp(f, a, k)}
<1>1. 0 \in T
  <2>1. [i \in 0..0 |-> 0] \in [0..0 -> Nat]
    OBVIOUS
  <2>2. SumsUp([i \in 0..0 |-> 0], a, 0)
    BY DEF SumsUp
  <2> QED
    BY <2>1, <2>2
<1>2. ASSUME NEW k \in T, k + 1 <= n PROVE \E g \in [0..(k + 1) -> Nat] : SumsUp(g, a, k + 1)
  <2>1. k \in Nat /\ k <= n
    BY <1>2
  <2>2. PICK f \in [0..k -> Nat] : SumsUp(f, a, k)
    BY <2>1
  <2>3. PICK g : g = [i \in 0..(k + 1) |-> IF i <= k THEN f[i] ELSE f[k] + a[k + 1]]
    OBVIOUS
  <2>4. a[k + 1] \in Nat /\ f[k] \in Nat
    BY <1>2, <2>1
  <2>5. g \in [0..(k + 1) -> Nat]
    BY <2>1, <2>3, <2>4
  <2>6. ASSUME NEW i \in 0..(k + 1) PROVE g[i] = IF i = 0 THEN 0 ELSE g[i - 1] + a[i]
    <3>1. CASE i <= k
      <4>1. g[i] = f[i] /\ (i # 0 => g[i - 1] = f[i - 1])
        BY <2>1, <2>3, <3>1
      <4>2. i \in 0..k
        BY <2>1, <3>1
      <4> QED
        BY <2>2, <4>1, <4>2 DEF SumsUp
    <3>2. CASE i = k + 1
      BY <2>1, <2>3, <3>2
    <3> QED
      BY <2>1, <3>1, <3>2
  <2> QED
    BY <2>5, <2>6 DEF SumsUp
<1>3. ASSUME NEW k \in T PROVE k + 1 \in T
  <2>1. k + 1 \in Nat
    OBVIOUS
  <2>2. k + 1 <= n => \E g \in [0..(k + 1) -> Nat] : SumsUp(g, a, k + 1)
    BY <1>2
  <2> QED
    BY <2>1, <2>2
<1>4. T \in SUBSET Nat
  OBVIOUS
<1> HIDE DEF T
<1>5. n \in T
  BY <1>1, <1>3, <1>4, Induction
<1> QED
  BY <1>5 DEF T

\* They are unique.
LEMMA SumsUnique ==
  ASSUME NEW n \in Nat, NEW a \in [1..n -> Nat], NEW f \in [0..n -> Nat], NEW g,
         SumsUp(f, a, n), SumsUp(g, a, n)
  PROVE  \A i \in 0..n : g[i] = f[i]
<1> DEFINE T == {k \in Nat : k <= n => g[k] = f[k]}
<1>1. 0 \in T
  BY DEF SumsUp
<1>2. ASSUME NEW k \in T PROVE k + 1 \in T
  <2> SUFFICES ASSUME k + 1 <= n PROVE g[k + 1] = f[k + 1]
    OBVIOUS
  <2>1. g[k] = f[k] /\ k + 1 \in 0..n /\ k + 1 # 0 /\ (k + 1) - 1 = k
    OBVIOUS
  <2> QED
    BY <2>1 DEF SumsUp
<1>3. T \in SUBSET Nat
  OBVIOUS
<1> HIDE DEF T
<1>4. T = Nat
  BY <1>1, <1>2, <1>3, Induction
<1>5. \A k \in 0..n : k \in T
  BY <1>4
<1> QED
  BY <1>5 DEF T

\* What a span adds is a number.
LEMMA GainIs ==
  ASSUME NEW s \in Spans, NEW b, NEW i \in 1..Len(s)
  PROVE  Gain(s[i], b) \in Nat
<1>1. \A S : \A q \in Seq(S) : \A j \in 1..Len(q) : q[j] \in S
  OBVIOUS
<1>2. s[i] \in [bucket : Bucket, amount : Nat]
  BY <1>1 DEF Spans
<1> QED
  BY <1>2 DEF Gain

\* What AddedTo computes, span by span.
LEMMA Running ==
  ASSUME NEW s \in Spans, NEW b
  PROVE  \E f \in [0..Len(s) -> Nat] :
           /\ AddedTo(s, b) = f[Len(s)] /\ f[0] = 0
           /\ \A i \in 1..Len(s) : f[i] = f[i - 1] + Gain(s[i], b)
<1>1. PICK n \in Nat : n = Len(s)
  BY DEF Spans
<1>2. PICK a : a = [i \in 1..n |-> Gain(s[i], b)]
  OBVIOUS
<1>3. \A i \in 1..n : Gain(s[i], b) \in Nat /\ a[i] = Gain(s[i], b)
  BY <1>1, <1>2, GainIs
<1>4. a \in [1..n -> Nat]
  BY <1>2, <1>3
<1> DEFINE Sums(f) == [i \in 0..n |-> IF i = 0 THEN 0 ELSE f[i - 1] + Gain(s[i], b)]
<1>5. PICK f \in [0..n -> Nat] : SumsUp(f, a, n)
  BY <1>1, <1>4, SumsExist
<1>6. f = Sums(f)
  <2>1. \A i \in 0..n : f[i] = IF i = 0 THEN 0 ELSE f[i - 1] + Gain(s[i], b)
    BY <1>3, <1>5 DEF SumsUp
  <2> QED
    BY <2>1
<1> DEFINE g == CHOOSE g : g = Sums(g)
<1>7. g = Sums(g)
  BY <1>6
<1>8. AddedTo(s, b) = g[n]
  BY <1>1 DEF AddedTo
<1> HIDE DEF g
<1>9. SumsUp(g, a, n)
  <2>1. \A i \in 0..n : g[i] = IF i = 0 THEN 0 ELSE g[i - 1] + Gain(s[i], b)
    BY <1>7
  <2> QED
    BY <1>3, <2>1 DEF SumsUp
<1>10. g[n] = f[n]
  BY <1>1, <1>4, <1>5, <1>9, SumsUnique
<1>11. f[0] = 0 /\ \A i \in 1..n : f[i] = f[i - 1] + Gain(s[i], b)
  BY <1>3, <1>5 DEF SumsUp
<1> QED
  BY <1>1, <1>8, <1>10, <1>11

\* A sequence adds what its first span adds, and what the others do.
LEMMA AddedSpanwise ==
  ASSUME NEW s \in Spans, NEW b
  PROVE  /\ AddedTo(s, b) \in Nat
         /\ s = <<>> => AddedTo(s, b) = 0
         /\ s # <<>> => AddedTo(s, b) = Gain(Head(s), b) + AddedTo(Tail(s), b)
<1>1. PICK f \in [0..Len(s) -> Nat] :
        /\ AddedTo(s, b) = f[Len(s)] /\ f[0] = 0
        /\ \A i \in 1..Len(s) : f[i] = f[i - 1] + Gain(s[i], b)
  BY Running
<1>2. Len(s) \in Nat /\ AddedTo(s, b) \in Nat
  BY <1>1 DEF Spans
<1>3. s = <<>> => AddedTo(s, b) = 0
  BY <1>1
<1>4. ASSUME s # <<>> PROVE AddedTo(s, b) = Gain(Head(s), b) + AddedTo(Tail(s), b)
  <2>1. PICK n \in Nat : n + 1 = Len(s)
    <3>1. Len(s) # 0
      BY <1>4 DEF Spans
    <3>2. Len(s) - 1 \in Nat
      BY <1>2, <3>1
    <3> QED
      BY <3>2
  <2>2. /\ Tail(s) \in Spans /\ Len(Tail(s)) = n /\ Head(s) = s[1]
        /\ \A i \in 1..n : Tail(s)[i] = s[i + 1]
    BY <1>4, <2>1 DEF Spans
  <2>3. PICK g \in [0..n -> Nat] :
          /\ AddedTo(Tail(s), b) = g[n] /\ g[0] = 0
          /\ \A i \in 1..n : g[i] = g[i - 1] + Gain(s[i + 1], b)
    <3>1. PICK g \in [0..Len(Tail(s)) -> Nat] :
            /\ AddedTo(Tail(s), b) = g[Len(Tail(s))] /\ g[0] = 0
            /\ \A i \in 1..Len(Tail(s)) : g[i] = g[i - 1] + Gain(Tail(s)[i], b)
      BY <2>2, Running
    <3> QED
      BY <2>2, <3>1
  <2>4. PICK h \in Nat : h = Gain(Head(s), b) /\ f[1] = h
    <3>1. f[1] = f[0] + Gain(s[1], b) /\ f[1] \in Nat
      BY <1>1, <2>1
    <3>2. Gain(s[1], b) \in Nat
      BY <2>1, GainIs
    <3> QED
      BY <1>1, <2>2, <3>1, <3>2
  <2> DEFINE T == {k \in Nat : k <= n => f[k + 1] = h + g[k]}
  <2>5. 0 \in T
    BY <2>3, <2>4
  <2>6. ASSUME NEW k \in T PROVE k + 1 \in T
    <3> SUFFICES ASSUME k + 1 <= n PROVE f[(k + 1) + 1] = h + g[k + 1]
      OBVIOUS
    <3>1. f[k + 1] = h + g[k] /\ k + 2 \in 1..Len(s) /\ k + 1 \in 1..n
      BY <2>1
    <3>2. f[k + 2] = f[k + 1] + Gain(s[k + 2], b) /\ g[k + 1] = g[k] + Gain(s[k + 2], b)
      BY <1>1, <2>3, <3>1
    <3>3. g[k] \in Nat /\ Gain(s[k + 2], b) \in Nat
      <4>1. k \in 0..n
        BY <3>1
      <4> QED
        BY <2>3, <3>1, <4>1, GainIs
    <3> QED
      BY <3>1, <3>2, <3>3
  <2>7. T \in SUBSET Nat
    OBVIOUS
  <2> HIDE DEF T
  <2>8. n \in T
    BY <2>5, <2>6, <2>7, Induction
  <2>9. f[n + 1] = h + g[n]
    BY <2>8 DEF T
  <2> QED
    BY <1>1, <2>1, <2>3, <2>4, <2>9
<1> QED
  BY <1>2, <1>3, <1>4

-----------------------------------------------------------------------------
(* The blob as a table.                                                    *)

\* The parts of a cell, and its place in the blob.
LEMMA CellFacts ==
  ASSUME NEW x \in Cell
  PROVE  /\ x[1] \in State /\ x[2] \in State /\ x[3] \in Clock /\ x[4] \in Bucket
         /\ x = <<x[1], x[2], x[3], x[4]>>
         /\ x[3] \in Int /\ x[3] >= 0 /\ x[3] < ClockCount
         /\ Index(x) \in 0..(ValueCount(NumStates) - 1)
         /\ \A y \in Cell : Index(x) = Index(y) => x = y
<1>1. /\ x[1] \in State /\ x[2] \in State /\ x[3] \in Clock /\ x[4] \in Bucket
      /\ x = <<x[1], x[2], x[3], x[4]>>
  BY DEF Cell, Cells, State
<1>2. x[3] \in Int /\ x[3] >= 0 /\ x[3] < ClockCount
  BY <1>1, LayoutAssumption DEF Clock
<1>3. Dense(NumStates)
  BY LayoutDense, LayoutAssumption
<1>4. /\ Index(x) \in 0..(ValueCount(NumStates) - 1)
      /\ \A y \in Cell : Index(x) = Index(y) => x = y
  BY <1>3 DEF Dense, Index, Cell
<1> QED
  BY <1>1, <1>2, <1>4

\* The counters of a blob are numbers.
LEMMA CounterIs ==
  ASSUME NEW d \in Counters, NEW x \in Cell
  PROVE  d[Index(x)] \in Nat /\ d[Index(x)] < Limit
<1>1. Index(x) \in 0..(ValueCount(NumStates) - 1)
  BY CellFacts
<1>2. d[Index(x)] \in 0..(Limit - 1)
  BY <1>1 DEF Counters
<1> QED
  BY <1>2, LayoutAssumption

\* The increments of an event.
LEMMA IncrementIs ==
  ASSUME NEW e \in Event, NEW x \in Cell
  PROVE  /\ Increment[e][x] \in Nat
         /\ (x[1] # from[e] \/ x[2] # to[e] \/ raises[e][x[3]] # "nothing")
              => Increment[e][x] = 0
         /\ (x[1] = from[e] /\ x[2] = to[e] /\ raises[e][x[3]] = "nothing")
              => Increment[e][x] = AddedTo(spans[e][x[3]], x[4])
<1>1. x[3] \in Clock /\ spans[e][x[3]] \in Spans
  BY CellFacts, EventAssumption DEF Spans
<1>2. AddedTo(spans[e][x[3]], x[4]) \in Nat
  BY <1>1, AddedSpanwise
<1> QED
  BY <1>2 DEF Increment

\* What is left to add is a number.
LEMMA LeftIs ==
  ASSUME IInv, event # NoEvent, NEW x \in Cell
  PROVE  Left(x) \in Nat
<1>1. event \in Event /\ todo \in Spans
  BY DEF IInv, TypeOK, Spans
<1>2. Increment[event][x] \in Nat /\ AddedTo(todo, x[4]) \in Nat
  BY <1>1, IncrementIs, AddedSpanwise
<1> QED
  BY <1>2 DEF Left

\* Nothing is added yet when an update starts.
LEMMA StartUnderway ==
  ASSUME IInv, NEW e \in Event, Start(e)
  PROVE  Underway'
<1>1. /\ event = NoEvent /\ event' = e /\ data' = stored /\ stored' = stored /\ clock' = 0
      /\ stored \in Counters
  BY DEF Start, IInv, TypeOK
<1>2. \A c \in Clock : ~(c < clock')
  BY <1>1, LayoutAssumption DEF Clock
<1>3. ASSUME NEW x \in Cell
      PROVE  data'[Index(x)] + Left(x)' = stored'[Index(x)] + Increment[event'][x]
  <2>1. x[3] >= clock'
    BY <1>1, CellFacts
  <2>2. Left(x)' = Increment[event'][x]
    BY <1>1, <2>1, IncrementIs DEF Left
  <2> QED
    BY <1>1, <2>2
<1> QED
  BY <1>2, <1>3 DEF Underway

\* The next clock: what was left for it is now to do.
LEMMA SplitUnderway ==
  ASSUME IInv, Underway, Split
  PROVE  Underway'
<1>1. /\ event # NoEvent /\ todo = <<>> /\ ~Aborts(event, clock)
      /\ clock' = clock + 1
      /\ todo' = IF raises[event][clock] = "nothing" THEN spans[event][clock] ELSE <<>>
      /\ UNCHANGED <<stored, data, event, verdict>>
  BY DEF Split
<1>2. event \in Event /\ clock \in Nat /\ todo \in Spans
  BY <1>1, LayoutAssumption DEF IInv, TypeOK, Spans
<1>3. ASSUME NEW c \in Clock, c < clock' PROVE ~Aborts(event', c)
  <2>1. c \in Int /\ (c < clock \/ c = clock)
    BY <1>1, <1>2, <1>3, LayoutAssumption DEF Clock
  <2> QED
    BY <1>1, <2>1 DEF Underway
<1>4. ASSUME NEW x \in Cell PROVE Left(x)' = Left(x)
  <2>1. x[3] \in Int
    BY CellFacts
  <2>2. AddedTo(todo, x[4]) = 0
    BY <1>1, <1>2, AddedSpanwise
  <2>3. CASE x[1] # from[event] \/ x[2] # to[event]
    BY <1>1, <2>3 DEF Left
  <2>4. CASE x[1] = from[event] /\ x[2] = to[event] /\ x[3] = clock
    <3>1. Left(x) = Increment[event][x]
      BY <1>2, <2>1, <2>4 DEF Left
    <3>2. Left(x)' = AddedTo(todo', x[4])
      BY <1>1, <1>2, <2>1, <2>4 DEF Left
    <3>3. CASE raises[event][clock] = "nothing"
      BY <1>1, <1>2, <2>4, <3>1, <3>2, <3>3, IncrementIs
    <3>4. CASE raises[event][clock] # "nothing"
      <4>1. todo' = todo
        BY <1>1, <3>4
      <4> QED
        BY <1>2, <2>2, <2>4, <3>1, <3>2, <3>4, <4>1, IncrementIs
    <3> QED
      BY <3>3, <3>4
  <2>5. CASE x[1] = from[event] /\ x[2] = to[event] /\ x[3] # clock
    BY <1>1, <1>2, <2>1, <2>2, <2>5 DEF Left
  <2> QED
    BY <2>3, <2>4, <2>5
<1> QED
  BY <1>1, <1>3, <1>4 DEF Underway

\* A span: what its counter gains is no longer left; no other counter has its
\* place.
LEMMA AddUnderway ==
  ASSUME IInv, Underway, Add
  PROVE  Underway'
<1>1. /\ event # NoEvent /\ todo # <<>>
      /\ data' = [data EXCEPT ![Slot] = Sum] /\ todo' = Tail(todo)
      /\ UNCHANGED <<stored, event, clock, verdict>>
  BY DEF Add
<1>2. /\ event \in Event /\ clock \in Nat /\ todo \in Spans /\ data \in Counters
      /\ stored \in Counters /\ clock - 1 \in Clock
  <2>1. /\ event \in Event /\ clock \in 0..ClockCount /\ clock > 0 /\ todo \in Spans
        /\ data \in Counters /\ stored \in Counters
    BY <1>1 DEF IInv, TypeOK, Spans
  <2> QED
    BY <2>1, LayoutAssumption DEF Clock
<1>3. PICK h : h = Head(todo) /\ h \in [bucket : Bucket, amount : Nat] /\ Tail(todo) \in Spans
  BY ONLY <1>1, <1>2, Parts DEF Spans
<1>4. PICK y \in Cell : y = <<from[event], to[event], clock - 1, h.bucket>>
  BY <1>2, <1>3, EventAssumption, LayoutAssumption DEF Cell, Cells, State
<1>5. Slot = Index(y) /\ Sum = data[Index(y)] + h.amount
  BY <1>3, <1>4 DEF Slot, Sum
<1>6. ASSUME NEW x \in Cell
      PROVE  data'[Index(x)] + Left(x)' = data[Index(x)] + Left(x)
  <2>1. /\ data[Index(x)] \in Nat /\ x[3] \in Int
        /\ Index(x) \in 0..(ValueCount(NumStates) - 1)
    BY <1>2, CounterIs, CellFacts
  <2>2. AddedTo(todo, x[4]) = Gain(h, x[4]) + AddedTo(Tail(todo), x[4])
    BY <1>1, <1>2, <1>3, AddedSpanwise
  <2>3. AddedTo(Tail(todo), x[4]) \in Nat
    BY <1>3, AddedSpanwise
  <2>4. CASE x = y
    <3>1. data'[Index(x)] = data[Index(x)] + h.amount
      BY <1>1, <1>2, <1>5, <2>1, <2>4 DEF Counters
    <3>2. /\ x[1] = from[event] /\ x[2] = to[event] /\ x[3] = clock - 1 /\ x[4] = h.bucket
      BY <1>4, <2>4
    <3>3. Left(x) = AddedTo(todo, x[4]) /\ Left(x)' = AddedTo(Tail(todo), x[4])
      BY <1>1, <1>2, <3>2 DEF Left
    <3>4. Gain(h, x[4]) = h.amount /\ h.amount \in Nat
      BY <1>3, <3>2 DEF Gain
    <3> QED
      BY <2>1, <2>2, <2>3, <3>1, <3>3, <3>4
  <2>5. CASE x # y
    <3>1. data'[Index(x)] = data[Index(x)]
      <4>1. Index(x) # Index(y)
        BY <2>5, CellFacts
      <4> QED
        BY <1>1, <1>2, <1>5, <2>1, <4>1 DEF Counters
    <3>2. Left(x)' = Left(x)
      <4>1. CASE x[1] = from[event] /\ x[2] = to[event] /\ x[3] = clock - 1
        <5>1. x[4] # h.bucket
          BY <1>4, <2>5, <4>1, CellFacts
        <5>2. Gain(h, x[4]) = 0
          BY <5>1 DEF Gain
        <5> QED
          BY <1>1, <1>2, <2>2, <2>3, <4>1, <5>2 DEF Left
      <4>2. CASE ~(x[1] = from[event] /\ x[2] = to[event] /\ x[3] = clock - 1)
        BY <1>1, <1>2, <2>1, <4>2 DEF Left
      <4> QED
        BY <4>1, <4>2
    <3> QED
      BY <3>1, <3>2
  <2> QED
    BY <2>4, <2>5
<1> QED
  BY <1>1, <1>6 DEF Underway

\* In every state of an update, what it has added and what it has left are the
\* event's increments (ingest.py:130-137, 191-198).
THEOREM UnderwayHolds == Spec => []Underway
<1>1. Init => Underway
  BY DEF Init, Underway
<1>2. IInv /\ Underway /\ [Next]_vars => Underway'
  <2> SUFFICES ASSUME IInv, Underway, [Next]_vars PROVE Underway'
    OBVIOUS
  <2>1. ASSUME NEW e \in Event, Start(e) PROVE Underway'
    BY <2>1, StartUnderway
  <2>2. CASE Split \/ Add
    BY <2>2, SplitUnderway, AddUnderway
  <2>3. CASE SplitRaises \/ Overflow \/ Commit
    BY <2>3 DEF SplitRaises, Overflow, Commit, End, Underway
  <2>4. CASE UNCHANGED vars
    BY <2>4 DEF vars, Underway, Left
  <2> QED
    BY <2>1, <2>2, <2>3, <2>4 DEF Next
<1> QED
  BY <1>1, <1>2, Invariant, PTL DEF Spec

\* The event whose update runs.
LEMMA Updating ==
  ASSUME IInv, event # NoEvent
  PROVE  /\ event \in Event /\ verdict[event] = "none" /\ todo \in Spans
         /\ clock \in 0..ClockCount /\ data \in Counters /\ stored \in Counters
  BY DEF IInv, TypeOK, Spans

\* The empty blob is the empty table.
LEMMA TableStarts == Init => Table!TableInit
<1> SUFFICES ASSUME Init PROVE Table!TableInit
  OBVIOUS
<1>1. ASSUME NEW x \in Cell PROVE stored[Index(x)] = 0
  <2>1. Index(x) \in 0..(ValueCount(NumStates) - 1)
    BY CellFacts
  <2> QED
    BY <2>1 DEF Init, Zeros
<1> QED
  BY <1>1 DEF Table!TableInit, Init

\* An update that ends without an exception has added the whole event.
LEMMA CommitRecords ==
  ASSUME IInv, Underway, Commit
  PROVE  Table!Record(event)
<1>1. /\ event # NoEvent /\ todo = <<>> /\ clock = ClockCount /\ stored' = data
      /\ verdict' = [verdict EXCEPT ![event] = "recorded"]
  BY DEF Commit, End
<1>2. /\ event \in Event /\ verdict[event] = "none" /\ todo \in Spans
      /\ data \in Counters /\ stored \in Counters
  BY <1>1, Updating
<1>3. ASSUME NEW c \in Clock PROVE ~Aborts(event, c)
  <2>1. c < clock
    BY <1>1, LayoutAssumption DEF Clock
  <2> QED
    BY <1>1, <2>1 DEF Underway
<1>4. ASSUME NEW x \in Cell
      PROVE  /\ stored'[Index(x)] = stored[Index(x)] + Increment[event][x]
             /\ stored[Index(x)] + Increment[event][x] < Limit
  <2>1. Left(x) = 0
    <3>1. AddedTo(todo, x[4]) = 0
      BY <1>1, <1>2, AddedSpanwise
    <3>2. ~(x[3] >= clock)
      BY <1>1, CellFacts, LayoutAssumption
    <3> QED
      BY <3>1, <3>2 DEF Left
  <2>2. data[Index(x)] \in Nat /\ data[Index(x)] < Limit
    BY <1>2, CounterIs
  <2>3. data[Index(x)] + 0 = stored[Index(x)] + Increment[event][x]
    BY <1>1, <2>1 DEF Underway
  <2> QED
    BY <1>1, <2>2, <2>3
<1>5. Table!Fits(event)
  BY <1>4 DEF Table!Fits
<1> QED
  BY <1>1, <1>2, <1>3, <1>4, <1>5 DEF Table!Record

\* An update that ends with one has added nothing, and the event could not have
\* been added as a whole.
LEMMA EndFails ==
  ASSUME IInv, Underway, SplitRaises \/ Overflow
  PROVE  Table!Fail(event)
<1>1. event # NoEvent /\ stored' = stored /\ verdict' = [verdict EXCEPT ![event] = "failed"]
  BY DEF SplitRaises, Overflow, End
<1>2. /\ event \in Event /\ verdict[event] = "none" /\ todo \in Spans
      /\ clock \in 0..ClockCount /\ data \in Counters /\ stored \in Counters
  BY <1>1, Updating
<1>3. CASE SplitRaises
  <2>1. clock \in Clock /\ Aborts(event, clock)
    BY <1>2, <1>3, LayoutAssumption DEF SplitRaises, Clock
  <2> QED
    BY <1>1, <1>2, <2>1 DEF Table!Fail
<1>4. CASE Overflow
  <2>1. todo # <<>> /\ Sum >= Limit /\ clock - 1 \in Clock
    <3>1. clock > 0
      BY <1>4 DEF Overflow, IInv
    <3> QED
      BY <1>2, <1>4, <3>1, LayoutAssumption DEF Overflow, Clock
  <2>2. PICK h : h = Head(todo) /\ h \in [bucket : Bucket, amount : Nat] /\ Tail(todo) \in Spans
    BY ONLY <1>2, <2>1, Parts DEF Spans
  <2>3. PICK y \in Cell : y = <<from[event], to[event], clock - 1, h.bucket>>
    BY <1>2, <2>1, <2>2, EventAssumption, LayoutAssumption DEF Cell, Cells, State
  <2>4. Sum = data[Index(y)] + h.amount
    BY <2>2, <2>3 DEF Slot, Sum
  <2>5. Left(y) = AddedTo(todo, h.bucket)
    BY <1>2, <2>1, <2>3, LayoutAssumption DEF Left
  <2>6. AddedTo(todo, h.bucket) >= h.amount
    <3>1. AddedTo(todo, h.bucket) = Gain(h, h.bucket) + AddedTo(Tail(todo), h.bucket)
      BY <1>2, <2>1, <2>2, AddedSpanwise
    <3>2. AddedTo(Tail(todo), h.bucket) \in Nat
      BY <2>2, AddedSpanwise
    <3>3. Gain(h, h.bucket) = h.amount /\ h.amount \in Nat
      BY <2>2 DEF Gain
    <3> QED
      BY <3>1, <3>2, <3>3
  <2>7. data[Index(y)] + Left(y) = stored[Index(y)] + Increment[event][y]
    BY <1>1 DEF Underway
  <2>8. data[Index(y)] \in Nat /\ AddedTo(todo, h.bucket) \in Nat /\ h.amount \in Nat
    BY <1>2, <2>2, CounterIs, AddedSpanwise
  <2>9. stored[Index(y)] + Increment[event][y] >= Limit
    BY <2>1, <2>4, <2>5, <2>6, <2>7, <2>8, LayoutAssumption
  <2>10. ~Table!Fits(event)
    <3>1. stored[Index(y)] + Increment[event][y] \in Nat
      BY <1>2, CounterIs, IncrementIs
    <3>2. ~(stored[Index(y)] + Increment[event][y] < Limit)
      BY <2>9, <3>1, LayoutAssumption
    <3> QED
      BY <3>2 DEF Table!Fits
  <2> QED
    BY <1>1, <1>2, <2>10 DEF Table!Fail
<1> QED
  BY <1>3, <1>4

\* Every step of an update is a step of the table or none at all.
LEMMA TableSteps ==
  IInv /\ Underway /\ [Next]_vars => [Table!TableNext]_(Table!tableVars)
<1> SUFFICES ASSUME IInv, Underway, [Next]_vars
             PROVE  Table!TableNext \/ UNCHANGED Table!tableVars
  OBVIOUS
<1>1. ASSUME stored' = stored, verdict' = verdict PROVE UNCHANGED Table!tableVars
  BY <1>1 DEF Table!tableVars
<1>2. ASSUME NEW e \in Event, Start(e) PROVE UNCHANGED Table!tableVars
  BY <1>1, <1>2 DEF Start
<1>3. CASE Split \/ Add
  BY <1>1, <1>3 DEF Split, Add
<1>4. CASE SplitRaises \/ Overflow
  <2>1. event \in Event
    BY <1>4, Updating DEF SplitRaises, Overflow
  <2> QED
    BY <1>4, <2>1, EndFails DEF Table!TableNext
<1>5. CASE Commit
  <2>1. event \in Event
    BY <1>5, Updating DEF Commit
  <2> QED
    BY <1>5, <2>1, CommitRecords DEF Table!TableNext
<1>6. CASE UNCHANGED vars
  BY <1>1, <1>6 DEF vars
<1> QED
  BY <1>2, <1>3, <1>4, <1>5, <1>6 DEF Next

\* For any layout and any events, whatever their clocks raise and however far
\* their counters are filled: seen as a table, an update adds its event to all
\* its counters at once, or fails and adds nothing, and it fails only when it
\* has to (ingest.py:130-137, 191-198; blob.py:60-123).
THEOREM UpdateIsOneStep == Spec => ImplementsTable
<1>1. Spec => Table!TableInit
  BY TableStarts DEF Spec
<1>2. Spec => [][Table!TableNext]_(Table!tableVars)
  BY Invariant, UnderwayHolds, TableSteps, PTL DEF Spec
<1> QED
  BY <1>1, <1>2 DEF ImplementsTable, Table!TableSpec

=============================================================================
