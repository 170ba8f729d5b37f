-------------------------- MODULE ReportingProofs --------------------------
(***************************************************************************)
(* Proofs about the reporting service: its bootstrap, for any number of    *)
(* threads and any installation, and the validation asset, for any number  *)
(* of runs.                                                                *)
(***************************************************************************)
EXTENDS Bootstrap, ValidationFlow, FiniteSetTheorems, SequenceTheorems, WellFoundedInduction, TLAPS

-----------------------------------------------------------------------------
(* The search for the root.                                                *)

\* A set of numbers has a least one.
LEMMA Least ==
  ASSUME NEW T \in SUBSET Nat, T # {}
  PROVE  \E x \in T : \A y \in T : x <= y
<1> DEFINE R == OpToRel(<, Nat)
<1>1. \A x, y \in Nat : y < x => <<y, x>> \in R
  BY DEF OpToRel
<1>2. IsWellFoundedOn(R, Nat)
  BY NatLessThanWellFounded
<1> HIDE DEF R
<1>3. PICK x \in T : \A y \in T : ~(<<y, x>> \in R)
  BY <1>2, WFMin
<1>4. \A y \in T : ~(y < x)
  BY <1>1, <1>3
<1> QED
  BY <1>4

\* The walk upwards ends at the first directory that fits, or nowhere.
LEMMA FirstFits ==
  ASSUME NEW fits \in SUBSET (Nat \ {0})
  PROVE  /\ First(fits) \in Nat
         /\ First(fits) = Nowhere <=> fits = {}
         /\ fits # {} => First(fits) \in fits /\ \A j \in fits : First(fits) <= j
<1>1. CASE fits = {}
  BY <1>1 DEF First, Nowhere
<1>2. CASE fits # {}
  <2>1. PICK x \in fits : \A j \in fits : x <= j
    BY <1>2, Least
  <2>2. First(fits) \in fits /\ \A j \in fits : First(fits) <= j
    BY <1>2, <2>1 DEF First
  <2> QED
    BY <1>2, <2>2 DEF Nowhere
<1> QED
  BY <1>1, <1>2

LEMMA RootsFound ==
  ASSUME NEW place
  PROVE  Root(place) \in Nat /\ Marked(place) \in Nat
  BY FirstFits DEF Root, Marked

\* In a checkout both searches end at its root.
LEMMA CheckoutRoot ==
  ASSUME NEW place \in Seq(SUBSET Entry), Checkout(place)
  PROVE  Root(place) = Marked(place)
<1>1. PICK i \in 1..Len(place) :
        Entry \ {"git"} \subseteq place[i] /\ \A j \in 1..(i - 1) : ~IsMarked(place[j])
  BY DEF Checkout
<1>2. IsRoot(place[i]) /\ IsMarked(place[i])
  BY <1>1 DEF IsRoot, IsMarked, Entry
<1>3. \A j \in 1..Len(place) : IsRoot(place[j]) => IsMarked(place[j])
  BY DEF IsRoot, IsMarked
<1>4. \A j \in 1..Len(place) : IsMarked(place[j]) => i <= j
  BY <1>1
<1>5. Root(place) = i
  <2> DEFINE fits == {j \in 1..Len(place) : IsRoot(place[j])}
  <2>1. i \in fits /\ fits \in SUBSET (Nat \ {0}) /\ \A j \in fits : i <= j
    BY <1>2, <1>3, <1>4
  <2> HIDE DEF fits
  <2>2. First(fits) \in fits /\ First(fits) <= i /\ i <= First(fits)
    BY <2>1, FirstFits
  <2> QED
    BY <2>1, <2>2 DEF Root, fits
<1>6. Marked(place) = i
  <2> DEFINE fits == {j \in 1..Len(place) : IsMarked(place[j])}
  <2>1. i \in fits /\ fits \in SUBSET (Nat \ {0}) /\ \A j \in fits : i <= j
    BY <1>2, <1>4
  <2> HIDE DEF fits
  <2>2. First(fits) \in fits /\ First(fits) <= i /\ i <= First(fits)
    BY <2>1, FirstFits
  <2> QED
    BY <2>1, <2>2 DEF Marked, fits
<1> QED
  BY <1>5, <1>6

-----------------------------------------------------------------------------
(* The bootstrap.                                                          *)

\* A directory is put in front of a path.
LEMMA Prefixed ==
  ASSUME NEW S, NEW roots \in Seq(S), NEW src \in S
  PROVE  /\ <<src>> \o roots \in Seq(S) /\ Len(<<src>> \o roots) = Len(roots) + 1
         /\ (<<src>> \o roots)[1] = src
         /\ \A i \in 1..Len(roots) : (<<src>> \o roots)[i + 1] = roots[i]
         /\ \A i \in 2..(Len(roots) + 1) : (<<src>> \o roots)[i] = roots[i - 1]
  OBVIOUS

\* The layout has the parts it should have.
LEMMA Layouts ==
  ASSUME BootTypeOK
  PROVE  /\ layout.path \in Seq({SharedSrc, ServiceSrc, "other"})
         /\ layout.code \in Seq(SUBSET Entry) /\ layout.cwd \in Seq(SUBSET Entry)
  BY BootstrapAssumption DEF BootTypeOK

LEMMA BootInitInv == BootInit => BootInv
<1> SUFFICES ASSUME BootInit PROVE BootInv
  OBVIOUS
<1> USE DEF BootInit
<1>1. layout.path \in Seq({SharedSrc, ServiceSrc, "other"})
  BY BootstrapAssumption
<1>2. BootTypeOK
  <2>1. cached \in {<<"none", Nowhere>>} /\ lock \in SUBSET Thread /\ bound \in SUBSET Function
    OBVIOUS
  <2>2. importFaults \in 0..MaxImportFaults /\ retries \in 0..MaxRetries
    BY BootstrapAssumption
  <2>3. pc \in [Thread -> Stages]
    BY DEF Stages
  <2> QED
    BY <1>1, <2>1, <2>2, <2>3 DEF BootTypeOK
<1>3. BlockInv
  BY DEF BlockInv, Holding, Nowhere
<1>4. PathInOrder
  BY <1>1 DEF PathInOrder, Before, Has
<1>5. InsertInv
  BY DEF InsertInv
<1> QED
  BY <1>2, <1>3, <1>4, <1>5 DEF BootInv

\* Everything but an insertion leaves the path alone.
LEMMA PathStays ==
  ASSUME BootInv, UNCHANGED <<layout, path>>,
         \A t \in Thread : pc'[t] = "service" => pc[t] = "service"
  PROVE  PathInOrder' /\ InsertInv'
<1>1. SharedSettled' = SharedSettled
  BY DEF SharedSettled, HasRoot, RootDir
<1> QED
  BY <1>1 DEF BootInv, PathInOrder, InsertInv, Before, Has

\* An insertion keeps the path in order.
LEMMA InsertStep ==
  ASSUME BootInv, NEW t \in Thread, Insert(t)
  PROVE  BootTypeOK' /\ PathInOrder' /\ InsertInv'
<1> DEFINE Roots == {SharedSrc, ServiceSrc, "other"}
           n == Len(layout.path)
<1>1. /\ path \in Seq(Roots) /\ layout.path \in Seq(Roots) /\ layout' = layout
      /\ pc \in [Thread -> Stages] /\ HasRoot
  BY Layouts DEF BootInv, BootTypeOK, Insert
<1>2. SharedSrc # ServiceSrc /\ SharedSrc # "other" /\ ServiceSrc # "other"
  BY DEF SharedSrc, ServiceSrc
<1>3. PICK src \in {SharedSrc, ServiceSrc} :
        /\ \/ path' = path /\ (src = SharedSrc => SharedSettled)
           \/ path' = <<src>> \o path /\ ~Has(path, src) /\ (src = SharedSrc => ~SharedSettled)
        /\ \/ src = SharedSrc /\ pc' = [pc EXCEPT ![t] = "service"]
           \/ src = ServiceSrc /\ pc[t] = "service" /\ pc' = [pc EXCEPT ![t] = "import"]
  <2>1. CASE pc[t] = "shared" /\ path' = Inserted(SharedSrc, "shared-logic" \in RootDir)
             /\ pc' = [pc EXCEPT ![t] = "service"]
    <3>1. CASE "shared-logic" \in RootDir /\ ~Has(path, SharedSrc)
      BY <1>1, <2>1, <3>1 DEF Inserted, Has, SharedSettled
    <3>2. CASE ~("shared-logic" \in RootDir /\ ~Has(path, SharedSrc))
      BY <1>1, <2>1, <3>2 DEF Inserted, Has, SharedSettled
    <3> QED
      BY <3>1, <3>2
  <2>2. CASE pc[t] = "service" /\ path' = Inserted(ServiceSrc, "reporting" \in RootDir)
             /\ pc' = [pc EXCEPT ![t] = "import"]
    BY <1>2, <2>2 DEF Inserted, Has
  <2> QED
    BY <2>1, <2>2 DEF Insert, Goto
<1>4. HasRoot' = HasRoot /\ RootDir' = RootDir
  BY <1>1 DEF HasRoot, RootDir
<1>5. CASE path' = path
  <2>1. path' = path /\ (src = SharedSrc => SharedSettled)
    <3>1. ASSUME path' = <<src>> \o path PROVE FALSE
      <4>1. Len(path') = Len(path) + 1 /\ Len(path) \in Nat
        BY <1>1, <3>1, Prefixed
      <4> QED
        BY <1>5, <4>1
    <3> QED
      BY <1>3, <1>5, <3>1
  <2>2. BootTypeOK'
    BY <1>3, <2>1 DEF BootInv, BootTypeOK, Insert, Stages
  <2>3. PathInOrder'
    BY <1>1, <2>1 DEF BootInv, PathInOrder, Before, Has
  <2>4. SharedSettled' = SharedSettled
    BY <1>4, <2>1 DEF SharedSettled, Has
  <2> QED
    BY <1>1, <1>3, <2>1, <2>2, <2>3, <2>4 DEF BootInv, InsertInv, Has
<1>6. CASE path' # path
  <2>1. path' = <<src>> \o path /\ ~Has(path, src) /\ (src = SharedSrc => ~SharedSettled)
    BY <1>3, <1>6
  <2>2. /\ path' \in Seq(Roots) /\ Len(path') = Len(path) + 1 /\ path'[1] = src
        /\ \A i \in 1..Len(path) : path'[i + 1] = path[i]
        /\ \A i \in 2..Len(path') : path'[i] = path[i - 1]
    BY <1>1, <2>1, Prefixed
  <2>3. BootTypeOK'
    BY <1>3, <2>2 DEF BootInv, BootTypeOK, Insert, Stages
  <2>4. \A i \in 1..Len(path) : path[i] # src
    BY <2>1 DEF Has
  <2>5. Len(path) \in Nat /\ n \in Nat
    BY <1>1
  <2>6. Once(layout.path) => Once(path')
    <3>1. ASSUME Once(path), NEW i \in 1..Len(path'), NEW j \in 1..Len(path'),
                 path'[i] = path'[j], path'[i] # "other"
          PROVE  i = j
      <4>1. ASSUME NEW k \in 1..Len(path'), k # 1
            PROVE  k - 1 \in 1..Len(path) /\ path'[k] = path[k - 1] /\ path'[k] # src
        <5>1. k - 1 \in 1..Len(path) /\ k \in 2..Len(path')
          BY <2>2, <2>5, <4>1
        <5> QED
          BY <2>2, <2>4, <5>1
      <4>2. CASE i = 1 \/ j = 1
        BY <2>2, <3>1, <4>1, <4>2
      <4>3. CASE i # 1 /\ j # 1
        <5>1. i - 1 = j - 1
          BY <3>1, <4>1, <4>3 DEF Once
        <5> QED
          BY <5>1
      <4> QED
        BY <4>2, <4>3
    <3>2. Once(path) => Once(path')
      BY <3>1 DEF Once
    <3> QED
      BY <3>2 DEF BootInv, PathInOrder
  <2>7. Len(path') - n >= 0 /\ \A i \in 1..n : path'[Len(path') - n + i] = layout.path[i]
    <3>1. /\ Len(path) - n >= 0
          /\ \A i \in 1..n : path[Len(path) - n + i] = layout.path[i]
      BY DEF BootInv, PathInOrder
    <3>2. ASSUME NEW i \in 1..n PROVE path'[Len(path') - n + i] = layout.path[i]
      <4>1. Len(path) - n + i \in 1..Len(path)
        BY <2>5, <3>1
      <4>2. Len(path') - n + i = (Len(path) - n + i) + 1
        BY <2>2, <2>5
      <4>3. path'[(Len(path) - n + i) + 1] = path[Len(path) - n + i]
        BY <2>2, <4>1
      <4> QED
        BY <3>1, <4>2, <4>3
    <3>3. Len(path') - n >= 0
      BY <2>2, <2>5, <3>1
    <3> QED
      BY <3>2, <3>3
  <2>8. Has(path, ServiceSrc) => Has(path', ServiceSrc)
    BY <2>2, <2>5 DEF Has
  <2>9. Has(path, SharedSrc) => Has(path', SharedSrc)
    BY <2>2, <2>5 DEF Has
  <2>10. CASE src = SharedSrc
    <3>1. Has(path', SharedSrc) /\ SharedSettled'
      BY <2>2, <2>5, <2>10 DEF Has, SharedSettled
    <3>2. ~SharedSettled
      BY <2>1, <2>10
    <3>3. Before(SharedSrc, ServiceSrc)' => Has(path, ServiceSrc)
      BY <2>2, <2>5 DEF Before, Has
    <3>4. Has(path, ServiceSrc) => Has(layout.path, ServiceSrc)
      BY <3>2 DEF BootInv, InsertInv
    <3> QED
      BY <1>1, <2>3, <2>6, <2>7, <3>1, <3>3, <3>4 DEF PathInOrder, InsertInv
  <2>11. CASE src = ServiceSrc
    <3>1. ~Before(SharedSrc, ServiceSrc)'
      <4>1. ASSUME NEW i \in 1..Len(path'), NEW j \in 1..Len(path'), i < j, path'[j] = ServiceSrc
            PROVE  FALSE
        <5>1. j \in 2..Len(path') /\ j - 1 \in 1..Len(path)
          BY <2>2, <2>5, <4>1
        <5>2. path'[j] = path[j - 1] /\ path[j - 1] # src
          BY <2>2, <2>4, <5>1
        <5> QED
          BY <2>11, <4>1, <5>2
      <4> QED
        BY <4>1 DEF Before
    <3>2. SharedSettled
      BY <1>3, <1>2, <2>11 DEF BootInv, InsertInv
    <3>3. SharedSettled'
      BY <1>4, <2>9, <3>2 DEF SharedSettled
    <3> QED
      BY <1>1, <2>3, <2>6, <2>7, <3>1, <3>3 DEF PathInOrder, InsertInv
  <2> QED
    BY <2>10, <2>11
<1> QED
  BY <1>5, <1>6

\* Who is in the block holds the lock, and nobody else.
LEMMA OneInBlock ==
  ASSUME BootInv, NEW t \in Thread, pc[t] \in Holding
  PROVE  lock = {t}
  BY DEF BootInv, BlockInv

\* A step that changes neither the path nor who holds the lock.
LEMMA QuietStep ==
  ASSUME BootInv, NEW t \in Thread, NEW stage \in Stages, pc' = [pc EXCEPT ![t] = stage],
         UNCHANGED <<layout, path, event, lock>>,
         bound' \in SUBSET Function, bound \subseteq bound',
         pc[t] \in Holding <=> stage \in Holding, stage # "service",
         stage \in {"set", "call"} => bound' = Function,
         cached' \in {cached, RepositoryRoot},
         importFaults' \in 0..MaxImportFaults, retries' \in 0..MaxRetries
  PROVE  BootInv'
<1>1. cached' \in (Places \X Nat) \cup {<<"none", Nowhere>>}
  BY RootsFound DEF BootInv, BootTypeOK, RepositoryRoot, Places
<1>2. BootTypeOK'
  BY <1>1 DEF BootInv, BootTypeOK
<1>3. PathInOrder' /\ InsertInv'
  BY PathStays DEF BootInv, BootTypeOK
<1>4. RepositoryRoot' = RepositoryRoot
  BY DEF RepositoryRoot
<1>5. lock' = {u \in Thread : pc'[u] \in Holding}
  BY DEF BootInv, BootTypeOK, BlockInv
<1>6. event' \/ (\E u \in Thread : pc'[u] \in {"set", "call"}) => bound' = Function
  BY DEF BootInv, BootTypeOK, BlockInv
<1>7. BlockInv'
  BY <1>4, <1>5, <1>6 DEF BootInv, BlockInv
<1> QED
  BY <1>2, <1>3, <1>7 DEF BootInv

\* Who leaves the block, and with what.
LEMMA LeaveStep ==
  ASSUME BootInv, NEW t \in Thread, pc[t] \in Holding, NEW stage \in {"call", "failed"},
         pc' = [pc EXCEPT ![t] = stage], lock' = {}, event' \in BOOLEAN,
         event' \/ stage = "call" => bound = Function,
         UNCHANGED <<layout, path, bound, cached, retries>>,
         importFaults' \in 0..MaxImportFaults
  PROVE  BootInv'
<1>1. BootTypeOK'
  BY DEF BootInv, BootTypeOK, Stages
<1>2. PathInOrder' /\ InsertInv'
  BY PathStays DEF BootInv, BootTypeOK
<1>3. RepositoryRoot' = RepositoryRoot
  BY DEF RepositoryRoot
<1>4. lock' = {u \in Thread : pc'[u] \in Holding}
  <2>1. ASSUME NEW u \in Thread PROVE pc'[u] \notin Holding
    BY OneInBlock DEF BootInv, BootTypeOK, Holding
  <2> QED
    BY <2>1
<1>5. event' \/ (\E u \in Thread : pc'[u] \in {"set", "call"}) => bound' = Function
  BY DEF BootInv, BootTypeOK, BlockInv
<1>6. BlockInv'
  BY <1>3, <1>4, <1>5 DEF BootInv, BlockInv
<1> QED
  BY <1>1, <1>2, <1>6 DEF BootInv

LEMMA AcquireStep ==
  ASSUME BootInv, NEW t \in Thread, Acquire(t)
  PROVE  BootInv'
<1>1. /\ pc[t] = "acquire" /\ lock = {} /\ lock' = {t} /\ pc' = [pc EXCEPT ![t] = "recheck"]
      /\ UNCHANGED <<layout, path, event, bound, cached, importFaults, retries>>
  BY DEF Acquire, Goto
<1>2. BootTypeOK'
  BY <1>1 DEF BootInv, BootTypeOK, Stages
<1>3. PathInOrder' /\ InsertInv'
  BY <1>1, PathStays DEF BootInv, BootTypeOK
<1>4. RepositoryRoot' = RepositoryRoot
  BY <1>1 DEF RepositoryRoot
<1>5. \A u \in Thread : pc[u] \notin Holding
  BY <1>1 DEF BootInv, BlockInv
<1>6. lock' = {u \in Thread : pc'[u] \in Holding}
  BY <1>1, <1>5 DEF BootInv, BootTypeOK, Holding
<1>7. event' \/ (\E u \in Thread : pc'[u] \in {"set", "call"}) => bound' = Function
  BY <1>1 DEF BootInv, BootTypeOK, BlockInv
<1>8. BlockInv'
  BY <1>1, <1>4, <1>6, <1>7 DEF BootInv, BlockInv
<1> QED
  BY <1>2, <1>3, <1>8 DEF BootInv

LEMMA InsertKeeps ==
  ASSUME BootInv, NEW t \in Thread, Insert(t)
  PROVE  BootInv'
<1>1. BootTypeOK' /\ PathInOrder' /\ InsertInv'
  BY InsertStep
<1>2. PICK stage \in {"service", "import"} :
        /\ pc[t] \in {"shared", "service"} /\ pc' = [pc EXCEPT ![t] = stage]
        /\ UNCHANGED <<layout, event, lock, bound, cached, importFaults, retries>>
  BY DEF Insert, Goto
<1>3. RepositoryRoot' = RepositoryRoot
  BY <1>2 DEF RepositoryRoot
<1>4. lock' = {u \in Thread : pc'[u] \in Holding}
  BY <1>2 DEF BootInv, BootTypeOK, BlockInv, Holding
<1>5. event' \/ (\E u \in Thread : pc'[u] \in {"set", "call"}) => bound' = Function
  BY <1>2 DEF BootInv, BootTypeOK, BlockInv
<1>6. BlockInv'
  BY <1>2, <1>3, <1>4, <1>5 DEF BootInv, BlockInv
<1> QED
  BY <1>1, <1>6 DEF BootInv

\* Every step keeps the invariant.
LEMMA BootNextInv == BootInv /\ [BootNext]_bootVars => BootInv'
<1> SUFFICES ASSUME BootInv, [BootNext]_bootVars PROVE BootInv'
  OBVIOUS
<1> USE DEF Goto
<1>1. /\ bound \in SUBSET Function /\ importFaults \in 0..MaxImportFaults
      /\ retries \in 0..MaxRetries /\ event \in BOOLEAN
      /\ event => bound = Function
  BY DEF BootInv, BootTypeOK, BlockInv
<1>2. ASSUME NEW t \in Thread, Check(t) PROVE BootInv'
  BY <1>1, <1>2, QuietStep DEF Check, Holding, Stages
<1>3. ASSUME NEW t \in Thread, Recheck(t) PROVE BootInv'
  <2>1. CASE event
    BY <1>1, <1>3, <2>1, LeaveStep DEF Recheck, Holding
  <2>2. CASE ~event
    BY <1>1, <1>3, <2>2, QuietStep DEF Recheck, Holding, Stages
  <2> QED
    BY <2>1, <2>2
<1>4. ASSUME NEW t \in Thread, Import(t) PROVE BootInv'
  BY <1>1, <1>4, QuietStep DEF Import, Holding, Stages
<1>5. ASSUME NEW t \in Thread, Bind(t) PROVE BootInv'
  <2>1. PICK stage \in {"set", "bind"} : pc' = [pc EXCEPT ![t] = stage] /\ (stage = "set" => bound' = Function)
    BY <1>5 DEF Bind
  <2>2. /\ bound' \in SUBSET Function /\ bound \subseteq bound' /\ pc[t] = "bind"
        /\ UNCHANGED <<layout, path, event, lock, cached, importFaults, retries>>
    BY <1>1, <1>5 DEF Bind
  <2> QED
    BY <1>1, <2>1, <2>2, QuietStep DEF Holding, Stages
<1>6. ASSUME NEW t \in Thread, Set(t) PROVE BootInv'
  <2>1. bound = Function
    BY <1>6 DEF Set, BootInv, BlockInv
  <2> QED
    BY <1>1, <1>6, <2>1, LeaveStep DEF Set, Holding
<1>7. ASSUME NEW t \in Thread, Raise(t) PROVE BootInv'
  <2>1. importFaults' \in 0..MaxImportFaults /\ pc[t] \in Holding
    BY <1>1, <1>7, BootstrapAssumption DEF Raise, Holding
  <2> QED
    BY <1>1, <1>7, <2>1, LeaveStep DEF Raise
<1>8. ASSUME NEW t \in Thread, Call(t) PROVE BootInv'
  <2>1. PICK stage \in {"lost", "found"} : pc' = [pc EXCEPT ![t] = stage]
    BY <1>8 DEF Call
  <2>2. pc[t] = "call" /\ cached' \in {cached, RepositoryRoot}
        /\ UNCHANGED <<layout, path, event, lock, bound, importFaults, retries>>
    BY <1>8 DEF Call
  <2> QED
    BY <1>1, <2>1, <2>2, QuietStep DEF Holding, Stages
<1>9. ASSUME NEW t \in Thread, Again(t) PROVE BootInv'
  <2>1. retries' \in 0..MaxRetries
    BY <1>1, <1>9, BootstrapAssumption DEF Again
  <2> QED
    BY <1>1, <1>9, <2>1, QuietStep DEF Again, Holding, Stages
<1>10. ASSUME UNCHANGED bootVars PROVE BootInv'
  <2>1. PathInOrder' /\ InsertInv'
    BY <1>10, PathStays DEF bootVars
  <2> QED
    BY <1>10, <2>1 DEF bootVars, BootInv, BootTypeOK, BlockInv, RepositoryRoot
<1> QED
  BY <1>2, <1>3, <1>4, <1>5, <1>6, <1>7, <1>8, <1>9, <1>10, AcquireStep, InsertKeeps
     DEF BootNext, Ensure, AllDone

\* One thread at a time is in the block, and nobody calls a function that is
\* not bound, although the event is read outside the lock (assets.py:39-54).
THEOREM BootInvariant == BootSpec => []BootInv
  BY BootInitInv, BootNextInv, PTL DEF BootSpec

\* The import path keeps what the process started with, gets no root twice,
\* and the service's comes first unless it was there before
\* (bootstrap.py:45-58), whichever threads fail and come again.
THEOREM PathStaysInOrder == BootSpec => []PathInOrder
<1>1. BootInv => PathInOrder
  BY DEF BootInv
<1> QED
  BY <1>1, BootInvariant, PTL

\* In a checkout the search of the helpers ends at the directory from which
\* the bootstrap has taken the sources (paths.py:29-36, bootstrap.py:24-38).
THEOREM SearchesAgree == BootSpec => []RootsAgree
<1>1. BootInv => RootsAgree
  <2> SUFFICES ASSUME BootInv, cached[1] = "code", Checkout(layout.code)
               PROVE  cached[2] = Marked(layout.code)
    BY DEF RootsAgree
  <2>1. cached = RepositoryRoot
    BY DEF BootInv, BlockInv
  <2>2. RepositoryRoot = <<"code", Root(layout.code)>>
    BY <2>1 DEF RepositoryRoot
  <2>3. Root(layout.code) = Marked(layout.code)
    BY Layouts, CheckoutRoot DEF BootInv
  <2> QED
    BY <2>1, <2>2, <2>3
<1> QED
  BY <1>1, BootInvariant, PTL

-----------------------------------------------------------------------------
(* The validation flow.                                                    *)

\* The requests, one by one.
LEMMA Requests ==
  /\ Len(Flow) = 6
  /\ Flow[1].op = "reset"
  /\ Flow[2].op = "control" /\ Flow[2].of = "c1"
  /\ Flow[3].op = "control" /\ Flow[3].of = "c2"
  /\ Flow[4].op = "holding" /\ Flow[4].of = "c1"
  /\ Flow[5].op = "holding" /\ Flow[5].of = "c2"
  /\ Flow[6].op = "snapshot"
  BY DEF Flow

\* The request in front is taken out of the backlog.
LEMMA FrontTaken ==
  ASSUME NEW S, NEW q \in Seq(S), Len(q) # 0
  PROVE  LET rest == SubSeq(q, 1, 1 - 1) \o SubSeq(q, 1 + 1, Len(q)) IN
           /\ rest \in Seq(S) /\ Len(rest) = Len(q) - 1
           /\ \A i \in 1..(Len(q) - 1) : rest[i] = q[i + 1]
<1> DEFINE front == SubSeq(q, 1, 1 - 1)
           back == SubSeq(q, 1 + 1, Len(q))
<1>1. front \in Seq(S) /\ Len(front) = 0
  <2>1. front = <<>>
    BY SubSeqEmpty, 1 - 1 < 1, 1 \in Int, 1 - 1 \in Int
  <2>2. <<>> \in Seq(S) /\ Len(<<>>) = 0
    OBVIOUS
  <2> HIDE DEF front
  <2> QED
    BY <2>1, <2>2
<1>2. back \in Seq(S) /\ Len(back) = Len(q) - 1 /\ \A i \in 1..(Len(q) - 1) : back[i] = q[i + 1]
  <2>1. q # <<>> /\ 1 + 1 = 2
    OBVIOUS
  <2>2. back = Tail(q)
    BY <2>1, TailIsSubSeq
  <2> HIDE DEF back
  <2> QED
    BY <2>1, <2>2, HeadTailProperties
<1> HIDE DEF front, back
<1>3. front \o back \in Seq(S) /\ Len(front \o back) = Len(q) - 1
  BY <1>1, <1>2
<1>4. \A i \in 1..(Len(q) - 1) : (front \o back)[i] = back[i]
  BY <1>1, <1>2
<1> QED
  BY <1>2, <1>3, <1>4 DEF front, back

\* Contents that are made of parts of the right kinds.
LEMMA ContentsParts ==
  /\ Empty \in Contents /\ Empty.controls = {} /\ \A c \in Control : Empty.counted[c] = {}
  /\ \A x \in Contents : x.controls \subseteq Control /\ \A c \in Control : x.counted[c] \subseteq Run
  BY DEF Empty, Contents

\* What a request does to the test database.
LEMMA EffectOf ==
  ASSUME NEW r \in Run, NEW n \in 1..6, db \in Contents
  PROVE  LET new == Effect(r, Flow[n]) IN
         /\ new \in Contents
         /\ n = 1 => new = Empty
         /\ n # 1 => /\ db.controls \subseteq new.controls
                     /\ \A c \in Control : db.counted[c] \subseteq new.counted[c]
         /\ n = 2 => "c1" \in new.controls
         /\ n = 3 => "c2" \in new.controls
         /\ n = 4 => r \in new.counted["c1"]
         /\ n = 5 => r \in new.counted["c2"]
         /\ n = 6 => new = db
         /\ \A c \in Control : new.counted[c] \subseteq db.counted[c] \cup {r}
<1> DEFINE new == Effect(r, Flow[n])
<1>1. "c1" \in Control /\ "c2" \in Control
  BY DEF Control
<1>2. CASE n = 1
  BY <1>2, Requests, ContentsParts DEF Effect
<1>3. CASE n = 2
  <2>1. new = [db EXCEPT !.controls = @ \cup {"c1"}]
    BY <1>3, Requests DEF Effect
  <2> QED
    BY <1>1, <1>3, <2>1 DEF Contents
<1>4. CASE n = 3
  <2>1. new = [db EXCEPT !.controls = @ \cup {"c2"}]
    BY <1>4, Requests DEF Effect
  <2> QED
    BY <1>1, <1>4, <2>1 DEF Contents
<1>5. CASE n = 4
  <2>1. new = [db EXCEPT !.counted["c1"] = @ \cup {r}]
    BY <1>5, Requests DEF Effect
  <2> QED
    BY <1>1, <1>5, <2>1 DEF Contents
<1>6. CASE n = 5
  <2>1. new = [db EXCEPT !.counted["c2"] = @ \cup {r}]
    BY <1>6, Requests DEF Effect
  <2> QED
    BY <1>1, <1>6, <2>1 DEF Contents
<1>7. CASE n = 6
  <2>1. new = db
    BY <1>7, Requests DEF Effect
  <2> QED
    BY <1>7, <2>1
<1> QED
  BY <1>2, <1>3, <1>4, <1>5, <1>6, <1>7

LEMMA FlowInitInv == Init => IInv
<1> SUFFICES ASSUME Init PROVE IInv
  OBVIOUS
<1> USE DEF Init
<1>1. TypeOK
  <2>1. queue \in Seq(Run \X (1..Len(Flow)))
    OBVIOUS
  <2>2. step \in [Run -> 1..Len(Flow)]
    BY Requests
  <2>3. faults \in 0..MaxFaults
    BY FlowAssumption
  <2> QED
    BY <2>1, <2>2, <2>3, ContentsParts DEF TypeOK
<1>2. \A r \in Run : PendingInv(r) /\ r \notin Active
  BY DEF PendingInv, Pending, Active
<1> QED
  BY <1>1, <1>2 DEF IInv, Active

\* What the types say of one run and of the backlog.
LEMMA FlowTypes ==
  ASSUME TypeOK
  PROVE  /\ \A r \in Run : /\ step[r] \in 1..6 /\ with[r] \subseteq Run
                           /\ phase[r] \in {"idle", "send", "wait", "read", "success", "failure", "error"}
                           /\ answer[r] \in {"none", "ok", "refused"}
         /\ queue \in Seq(Run \X (1..6)) /\ Len(queue) \in Nat
         /\ \A i \in 1..Len(queue) : queue[i][1] \in Run /\ queue[i][2] \in 1..6
         /\ db \in Contents /\ snap \in Contents
         /\ faults \in Nat
<1>1. queue \in Seq(Run \X (1..6))
  BY Requests DEF TypeOK
<1>2. \A i \in 1..Len(queue) : queue[i] \in Run \X (1..6)
  BY <1>1
<1> QED
  BY <1>1, <1>2, Requests, FlowAssumption DEF TypeOK, Ended

\* What the server has done to the request of r in front, its n-th.
Served(r, n, carried) ==
  /\ Len(queue) # 0 /\ queue[1][1] = r /\ queue[1][2] = n
  /\ queue' \in Seq(Run \X (1..6)) /\ Len(queue') = Len(queue) - 1
  /\ \A i \in 1..(Len(queue) - 1) : queue'[i] = queue[i + 1]
  /\ answer' = IF phase[r] = "wait" /\ step[r] = n
                 THEN [answer EXCEPT ![r] = IF carried THEN "ok" ELSE "refused"]
                 ELSE answer
  /\ carried => /\ db' = Effect(r, Flow[n]) /\ faults' = faults
                /\ snap' = IF n = 6 THEN db ELSE snap
  /\ ~carried => /\ db' = db /\ snap' = snap
                 /\ \/ faults' = faults + 1 /\ faults < MaxFaults
                    \/ faults' = faults /\ Unknown(Flow[n])
  /\ UNCHANGED <<up, step, phase, seen, with>>

LEMMA ServeIsServed ==
  ASSUME TypeOK, Serve
  PROVE  \E r \in Run, n \in 1..6, carried \in BOOLEAN : Served(r, n, carried)
<1> DEFINE r == queue[1][1]
           n == queue[1][2]
<1>1. Handle(1) /\ Len(queue) # 0 /\ UNCHANGED <<up, step, phase, seen, with>>
  BY DEF Serve, NextInLine
<1>2. queue \in Seq(Run \X (1..6)) /\ r \in Run /\ n \in 1..6
  BY <1>1, FlowTypes
<1>3. /\ queue' \in Seq(Run \X (1..6)) /\ Len(queue') = Len(queue) - 1
      /\ \A i \in 1..(Len(queue) - 1) : queue'[i] = queue[i + 1]
  BY <1>1, <1>2, FrontTaken DEF Handle
<1>4. Flow[n].op = "snapshot" <=> n = 6
  BY <1>2, Requests
<1>5. CASE ~Unknown(Flow[n]) /\ db' = Effect(r, Flow[n])
           /\ snap' = (IF Flow[n].op = "snapshot" THEN db ELSE snap)
           /\ Reply(r, n, "ok") /\ faults' = faults
  <2>1. Served(r, n, TRUE)
    BY <1>1, <1>3, <1>4, <1>5 DEF Served, Reply
  <2> QED
    BY <1>2, <2>1
<1>6. CASE Unknown(Flow[n]) /\ Reply(r, n, "refused") /\ UNCHANGED <<db, snap, faults>>
  <2>1. Served(r, n, FALSE)
    BY <1>1, <1>3, <1>6 DEF Served, Reply
  <2> QED
    BY <1>2, <2>1
<1>7. CASE Fault /\ Reply(r, n, "refused") /\ UNCHANGED <<db, snap>>
  <2>1. Served(r, n, FALSE)
    BY <1>1, <1>3, <1>7 DEF Served, Reply, Fault
  <2> QED
    BY <1>2, <2>1
<1> QED
  BY <1>1, <1>5, <1>6, <1>7 DEF Handle

\* What is executed stays executed, in order; the rest has not begun.
LEMMA ExecutedInOrder ==
  ASSUME TypeOK, NEW r \in Run, PendingInv(r)
  PROVE  /\ \A k \in 1..6 : Executed(r, k) => \A j \in 1..k : Executed(r, j)
         /\ \A k \in 1..6 : step[r] > k => Executed(r, k)
         /\ phase[r] = "wait" /\ Pending(r) # {} =>
              \A k \in 1..6 : Executed(r, k) <=> step[r] > k
  BY FlowTypes DEF Executed, PendingInv

\* An active run whose request is in front waits for its answer.
LEMMA ServedWaits ==
  ASSUME IInv, NEW r \in Run, NEW n \in 1..6, NEW carried \in BOOLEAN, Served(r, n, carried)
  PROVE  /\ 1 \in Pending(r) /\ (r \in Active => phase[r] = "wait")
         /\ phase[r] = "wait" => step[r] = n /\ answer[r] = "none"
         /\ \A q \in Run : /\ Pending(q)' = {i \in 1..(Len(queue) - 1) : i + 1 \in Pending(q)}
                           /\ q # r => answer'[q] = answer[q] /\ 1 \notin Pending(q)
         /\ Pending(r)' = {}
         /\ phase[r] = "wait" => answer'[r] = IF carried THEN "ok" ELSE "refused"
         /\ phase[r] # "wait" => answer'[r] = answer[r]
<1>1. Len(queue) \in Nat /\ Len(queue) # 0 /\ queue[1][1] = r /\ queue[1][2] = n /\ TypeOK
  BY FlowTypes DEF Served, IInv
<1>2. 1 \in Pending(r) /\ PendingInv(r)
  BY <1>1 DEF Pending, IInv
<1>3. phase[r] \notin {"idle", "send", "read"}
  BY <1>2 DEF PendingInv
<1>4. r \in Active => phase[r] = "wait"
  BY <1>3 DEF Active
<1>5. phase[r] = "wait" => step[r] = n /\ answer[r] = "none"
  BY <1>1, <1>2, FlowTypes DEF PendingInv
<1>6. \A q \in Run : Pending(q)' = {i \in 1..(Len(queue) - 1) : i + 1 \in Pending(q)}
  BY <1>1 DEF Served, Pending
<1>7. \A q \in Run : q # r => answer'[q] = answer[q] /\ 1 \notin Pending(q)
  BY <1>1 DEF Served, Pending, TypeOK
<1>8. Pending(r)' = {}
  <2>1. \A i \in Pending(r) : i = 1
    BY <1>2 DEF PendingInv
  <2> QED
    BY <1>1, <1>6, <2>1
<1>9. /\ phase[r] = "wait" => answer'[r] = IF carried THEN "ok" ELSE "refused"
      /\ phase[r] # "wait" => answer'[r] = answer[r]
  BY <1>1, <1>5 DEF Served, TypeOK
<1> QED
  BY <1>2, <1>4, <1>5, <1>6, <1>7, <1>8, <1>9

\* The server goes on.
LEMMA ServeStep ==
  ASSUME IInv, Serve
  PROVE  IInv'
<1>1. PICK r \in Run, n \in 1..6, carried \in BOOLEAN : Served(r, n, carried)
  BY ServeIsServed DEF IInv
<1>2. TypeOK /\ db \in Contents /\ snap \in Contents /\ Len(queue) \in Nat /\ Len(queue) # 0
  BY <1>1, FlowTypes DEF IInv, Served
<1>3. /\ UNCHANGED <<up, step, phase, seen, with>> /\ Active' = Active
      /\ faults' \in Nat /\ faults' >= faults /\ faults \in Nat
  BY <1>1, <1>2, FlowTypes DEF Served, Active
<1>4. TypeOK'
  <2>1. db' \in Contents /\ snap' \in Contents
    BY <1>1, <1>2, EffectOf DEF Served
  <2>2. answer' \in [Run -> {"none", "ok", "refused"}]
    BY <1>1, <1>2 DEF Served, TypeOK
  <2>3. queue' \in Seq(Run \X (1..Len(Flow)))
    BY <1>1, Requests DEF Served
  <2>4. faults' \in 0..MaxFaults
    BY <1>1, <1>2, FlowAssumption DEF Served, TypeOK
  <2> QED
    BY <1>2, <1>3, <2>1, <2>2, <2>3, <2>4 DEF TypeOK
<1>5. faults' = 0 => up'
  BY <1>3 DEF IInv
<1>6. \A q \in Run : Pending(q)' = {i \in 1..(Len(queue) - 1) : i + 1 \in Pending(q)}
  BY <1>1, ServedWaits
<1>7. ASSUME NEW q \in Run PROVE PendingInv(q)'
  <2>1. PendingInv(q)
    BY DEF IInv
  <2>2. \A i, j \in Pending(q)' : i = j
    BY <1>6, <2>1 DEF PendingInv
  <2>3. ASSUME NEW i \in Pending(q)', phase[q] = "wait" PROVE queue'[i][2] = step[q]
    <3>1. i \in 1..(Len(queue) - 1) /\ i + 1 \in Pending(q)
      BY <1>6, <2>3
    <3> QED
      BY <1>1, <2>1, <2>3, <3>1 DEF Served, PendingInv
  <2>4. CASE q = r
    <3>1. phase[q] \notin {"idle", "send", "read"}
      BY <1>1, <2>1, <2>4, ServedWaits DEF PendingInv
    <3>2. Pending(q)' = {} /\ (phase[q] = "wait" => answer'[q] # "none")
      BY <1>1, <2>4, ServedWaits
    <3> QED
      BY <1>3, <2>1, <2>2, <2>3, <3>1, <3>2 DEF PendingInv
  <2>5. CASE q # r
    <3>1. answer'[q] = answer[q] /\ 1 \notin Pending(q)
      BY <1>1, <2>5, ServedWaits
    <3>2. Pending(q) \subseteq 1..Len(queue)
      BY DEF Pending
    <3>3. Pending(q)' = {} <=> Pending(q) = {}
      <4>1. ASSUME NEW i \in Pending(q) PROVE i - 1 \in Pending(q)'
        BY <1>2, <1>6, <3>1, <3>2
      <4> QED
        BY <1>6, <4>1
    <3> QED
      BY <1>3, <2>1, <2>2, <2>3, <3>1, <3>3 DEF PendingInv
  <2> QED
    BY <2>4, <2>5
<1>8. \A p, q \in Active' : q \in Company(p)'
  BY <1>3 DEF IInv, Company
\* What is executed now was executed before, or is the request in front.
<1>9. ASSUME NEW q \in Active, NEW k \in 1..6
      PROVE  Executed(q, k)' <=> Executed(q, k) \/ (q = r /\ k = n /\ carried)
  <2>1. q \in Run /\ PendingInv(q)
    BY DEF Active, IInv
  <2>2. CASE q # r
    BY <1>1, <1>3, <2>1, <2>2, ServedWaits DEF Executed
  <2>3. CASE q = r
    <3>1. phase[q] = "wait" /\ step[q] = n /\ answer[q] = "none"
          /\ answer'[q] = IF carried THEN "ok" ELSE "refused"
      BY <1>1, <2>3, ServedWaits
    <3> QED
      BY <1>2, <1>3, <2>1, <2>3, <3>1, FlowTypes DEF Executed
  <2> QED
    BY <2>2, <2>3
\* The company of q sees r's effect only where r belongs to it.
<1>10. ASSUME NEW q \in Active PROVE OrderInv(q)'
  <2>1. q \in Run /\ OrderInv(q) /\ PendingInv(q) /\ Company(q)' = Company(q)
    BY <1>3 DEF Active, IInv, Company
  <2>2. ASSUME NEW i \in 1..Len(queue'), NEW j \in 1..Len(queue'), queue'[i][1] = q, i < j
        PROVE  queue'[j][1] \in Company(q)
    <3>1. /\ i + 1 \in 1..Len(queue) /\ j + 1 \in 1..Len(queue) /\ i + 1 < j + 1
          /\ queue'[i] = queue[i + 1] /\ queue'[j] = queue[j + 1]
      BY <1>1, <1>2, <2>2 DEF Served
    <3> QED
      BY <2>1, <2>2, <3>1 DEF OrderInv
  <2>3. Executed(q, 1) => r \in Company(q)
    BY <1>1, <1>2, <2>1 DEF OrderInv, Served
  <2>4. \A c \in Control : /\ Effect(r, Flow[n]).counted[c] \subseteq db.counted[c] \cup {r}
                           /\ n = 1 => Effect(r, Flow[n]).counted[c] = {}
    BY <1>2, EffectOf, ContentsParts
  <2>5. Executed(q, 6) => Executed(q, 1)
    BY <1>2, <2>1, ExecutedInOrder
  <2>6. CASE Executed(q, 1)
    <3>1. \A i \in 1..Len(queue') : queue'[i][1] \in Company(q)
      <4>1. ASSUME NEW i \in 1..Len(queue') PROVE queue'[i][1] \in Company(q)
        <5>1. i + 1 \in 1..Len(queue) /\ queue'[i] = queue[i + 1]
          BY <1>1, <1>2, <4>1 DEF Served
        <5> QED
          BY <2>1, <2>6, <5>1 DEF OrderInv
      <4> QED
        BY <4>1
    <3>2. \A c \in Control : db'.counted[c] \subseteq Company(q)
      BY <1>1, <2>1, <2>3, <2>4, <2>6 DEF Served, OrderInv
    <3>3. Executed(q, 6)' => \A c \in Control : snap'.counted[c] \subseteq Company(q)
      <4>1. Executed(q, 6)' => Executed(q, 6) \/ (n = 6 /\ carried)
        BY <1>9
      <4>2. snap' = snap \/ snap' = db
        BY <1>1 DEF Served
      <4>3. n = 6 /\ carried => snap' = db
        BY <1>1 DEF Served
      <4> QED
        BY <2>1, <2>6, <4>1, <4>2, <4>3 DEF OrderInv
    <3> QED
      BY <2>1, <2>2, <3>1, <3>2, <3>3 DEF OrderInv
  <2>7. CASE ~Executed(q, 1) /\ ~Executed(q, 1)'
    <3>1. q = r => n = 1
      BY <1>1, <1>2, <2>1, <2>7, ServedWaits, ExecutedInOrder
    <3>2. ~Executed(q, 6)'
      BY <1>9, <2>5, <2>7, <3>1
    <3> QED
      BY <2>1, <2>2, <2>7, <3>2 DEF OrderInv
  <2>8. CASE ~Executed(q, 1) /\ Executed(q, 1)'
    <3>1. q = r /\ n = 1 /\ carried
      BY <1>9, <2>8
    <3>2. ~Executed(q, 6)'
      BY <1>9, <2>5, <2>8, <3>1
    <3>3. \A i \in 1..Len(queue') : queue'[i][1] \in Company(q)
      <4>1. ASSUME NEW i \in 1..Len(queue') PROVE queue'[i][1] \in Company(q)
        <5>1. i + 1 \in 1..Len(queue) /\ 1 < i + 1 /\ 1 \in 1..Len(queue) /\ queue'[i] = queue[i + 1]
          BY <1>1, <1>2, <4>1 DEF Served
        <5> QED
          BY <1>1, <2>1, <3>1, <5>1 DEF OrderInv, Served
      <4> QED
        BY <4>1
    <3>4. \A c \in Control : db'.counted[c] = {}
      BY <1>1, <2>4, <3>1 DEF Served
    <3> QED
      BY <2>1, <2>2, <3>2, <3>3, <3>4 DEF OrderInv
  <2> QED
    BY <2>6, <2>7, <2>8
<1>11. ASSUME NEW q \in Active PROVE AloneInv(q)'
  <2> SUFFICES ASSUME with[q] = {} PROVE AloneInv(q)'
    BY <1>3 DEF AloneInv
  <2>1. q \in Run /\ AloneInv(q) /\ OrderInv(q) /\ PendingInv(q) /\ Company(q) = {q}
    BY DEF Active, IInv, Company
  <2>2. CASE q # r
    <3>1. ~Executed(q, 1)
      BY <1>1, <1>2, <2>1, <2>2 DEF OrderInv, Served
    <3>2. \A k \in 1..6 : ~Executed(q, k)'
      BY <1>2, <1>9, <2>1, <2>2, <3>1, ExecutedInOrder
    <3>3. answer'[q] = answer[q]
      BY <1>1, <2>1, <2>2, ServedWaits
    <3> QED
      BY <1>3, <2>1, <3>2, <3>3 DEF AloneInv
  <2>3. CASE q = r
    <3>1. phase[q] = "wait" /\ step[q] = n /\ answer'[q] = IF carried THEN "ok" ELSE "refused"
      BY <1>1, <2>3, ServedWaits
    <3>2. \A k \in 1..6 : Executed(q, k) <=> k < n
      BY <1>1, <1>2, <2>1, <2>3, <3>1, ServedWaits, ExecutedInOrder
    <3>3. \A k \in 1..6 : Executed(q, k)' => k < n \/ (k = n /\ carried)
      BY <1>9, <2>1, <3>2
    <3>4. /\ 2 < n => "c1" \in db.controls
          /\ 3 < n => "c2" \in db.controls
          /\ 4 < n => q \in db.counted["c1"]
          /\ 5 < n => q \in db.counted["c2"]
      BY <2>1, <3>2 DEF AloneInv
    <3>5. CASE carried
      <4>1. db' = Effect(q, Flow[n]) /\ (n = 6 => snap' = db) /\ answer'[q] = "ok"
        BY <1>1, <2>3, <3>1, <3>5 DEF Served
      <4>2. "c1" \in Control /\ "c2" \in Control /\ \A c \in Control : c = "c1" \/ c = "c2"
        BY DEF Control
      <4>3. /\ n # 1 => /\ db.controls \subseteq db'.controls
                        /\ \A c \in Control : db.counted[c] \subseteq db'.counted[c]
            /\ n = 2 => "c1" \in db'.controls
            /\ n = 3 => "c2" \in db'.controls
            /\ n = 4 => q \in db'.counted["c1"]
            /\ n = 5 => q \in db'.counted["c2"]
        BY <1>2, <2>1, <4>1, EffectOf
      <4>4. /\ Executed(q, 2)' => "c1" \in db'.controls
            /\ Executed(q, 3)' => "c2" \in db'.controls
        BY <3>3, <3>4, <4>2, <4>3
      <4>5. /\ Executed(q, 4)' => q \in db'.counted["c1"]
            /\ Executed(q, 5)' => q \in db'.counted["c2"]
        BY <3>3, <3>4, <4>2, <4>3
      <4>6. ASSUME Executed(q, 6)'
            PROVE  snap'.controls = Control /\ \A c \in Control : q \in snap'.counted[c]
        <5>1. n = 6 /\ snap' = db
          BY <3>3, <4>1, <4>6
        <5>2. "c1" \in db.controls /\ "c2" \in db.controls /\ db.controls \subseteq Control
          BY <1>2, <3>4, <5>1, ContentsParts
        <5> QED
          BY <3>4, <4>2, <5>1, <5>2
      <4> QED
        BY <4>1, <4>4, <4>5, <4>6 DEF AloneInv
    <3>6. CASE ~carried
      <4>1. db' = db /\ snap' = snap
        BY <1>1, <3>6 DEF Served
      <4>2. ~Unknown(Flow[n])
        BY <3>4, Requests DEF Unknown
      <4>3. faults' > 0
        BY <1>1, <1>3, <3>6, <4>2 DEF Served
      <4>4. \A k \in 1..6 : Executed(q, k)' => Executed(q, k)
        BY <3>2, <3>3, <3>6
      <4> QED
        BY <2>1, <4>1, <4>3, <4>4 DEF AloneInv
    <3> QED
      BY <3>5, <3>6
  <2> QED
    BY <2>2, <2>3
<1> QED
  BY <1>3, <1>4, <1>5, <1>7, <1>8, <1>10, <1>11 DEF IInv

\* What the types say after a turn of r.
LEMMA Turned ==
  ASSUME TypeOK, NEW r \in Run, NEW new, Turn(r, new)
  PROVE  phase'[r] = new /\ \A q \in Run : q # r => phase'[q] = phase[q]
  BY DEF TypeOK, Turn

\* A step of a run with its own state only: it is active, and the others see
\* nothing of it.
LEMMA OwnStep ==
  ASSUME IInv, NEW r \in Active, TypeOK', UNCHANGED <<db, snap, queue, up, with>>,
         faults' >= faults,
         \A q \in Run : q # r =>
           phase'[q] = phase[q] /\ step'[q] = step[q] /\ answer'[q] = answer[q],
         PendingInv(r)',
         r \in Active' => OrderInv(r)' /\ AloneInv(r)'
  PROVE  IInv'
<1>1. r \in Run /\ faults \in Nat /\ faults' \in Nat /\ TypeOK
  BY FlowAssumption DEF Active, IInv, TypeOK
<1>2. faults' = 0 => up'
  BY <1>1 DEF IInv
<1>3. Active' \subseteq Active
  BY DEF Active
<1>4. \A q \in Run : Company(q)' = Company(q) /\ Pending(q)' = Pending(q)
  BY DEF Company, Pending
<1>5. \A p, q \in Active' : p \in Company(q)'
  BY <1>3, <1>4 DEF IInv, Active
<1>6. ASSUME NEW q \in Run PROVE PendingInv(q)'
  <2>1. CASE q # r
    BY <1>4, <2>1 DEF IInv, PendingInv
  <2> QED
    BY <2>1
<1>7. ASSUME NEW q \in Active', q # r PROVE OrderInv(q)' /\ AloneInv(q)'
  <2>1. q \in Run /\ OrderInv(q) /\ AloneInv(q) /\ Company(q)' = Company(q)
    BY <1>3, <1>4, <1>7 DEF Active, IInv
  <2>2. \A k \in 1..6 : Executed(q, k)' <=> Executed(q, k)
    BY <1>7, <2>1 DEF Executed
  <2>3. OrderInv(q)'
    BY <2>1, <2>2 DEF OrderInv
  <2>4. AloneInv(q)'
    BY <1>1, <1>7, <2>1, <2>2 DEF AloneInv
  <2> QED
    BY <2>3, <2>4
<1> QED
  BY <1>2, <1>5, <1>6, <1>7 DEF IInv

\* A run takes its answer: what is executed does not change.
LEMMA ReceiveStep ==
  ASSUME IInv, NEW r \in Run, Receive(r)
  PROVE  IInv'
<1>1. /\ TypeOK /\ PendingInv(r) /\ r \in Active /\ OrderInv(r) /\ AloneInv(r)
      /\ phase[r] = "wait" /\ answer[r] # "none"
      /\ UNCHANGED <<db, snap, queue, up, seen, with, faults>>
  BY DEF IInv, Receive, Active
<1>2. Pending(r) = {} /\ Pending(r)' = {}
  BY <1>1 DEF PendingInv, Pending
<1>3. answer'[r] = "none" /\ \A q \in Run : q # r => answer'[q] = answer[q]
  BY <1>1 DEF Receive, TypeOK
<1>4. answer' \in [Run -> {"none", "ok", "refused"}]
  BY <1>1 DEF Receive, TypeOK
<1>5. faults \in Nat
  BY <1>1, FlowTypes
<1>6. CASE answer[r] = "refused" /\ Turn(r, "failure") /\ UNCHANGED step
  <2>1. phase'[r] = "failure" /\ \A q \in Run : q # r => phase'[q] = phase[q]
    BY <1>1, <1>6, Turned
  <2>2. TypeOK'
    BY <1>1, <1>4, <1>6 DEF TypeOK, Turn, Ended
  <2>3. PendingInv(r)' /\ r \notin Active'
    BY <1>2, <2>1 DEF PendingInv, Active
  <2> QED
    BY <1>1, <1>3, <1>5, <1>6, <2>1, <2>2, <2>3, OwnStep
<1>7. CASE answer[r] = "ok" /\ step[r] < Len(Flow) /\ Turn(r, "send")
           /\ step' = [step EXCEPT ![r] = @ + 1]
  <2>1. phase'[r] = "send" /\ \A q \in Run : q # r => phase'[q] = phase[q]
    BY <1>1, <1>7, Turned
  <2>2. step[r] \in 1..5 /\ step'[r] = step[r] + 1 /\ \A q \in Run : q # r => step'[q] = step[q]
    BY <1>1, <1>7, FlowTypes, Requests DEF TypeOK
  <2>3. TypeOK'
    <3>1. phase' \in [Run -> {"idle", "send", "wait", "read"} \cup Ended]
      BY <1>1, <1>7 DEF TypeOK, Turn
    <3>2. step' \in [Run -> 1..Len(Flow)]
      BY <1>1, <1>7, <2>2, Requests DEF TypeOK
    <3> QED
      BY <1>1, <1>4, <3>1, <3>2 DEF TypeOK
  <2>4. PendingInv(r)'
    BY <1>2, <1>3, <2>1 DEF PendingInv
  <2>5. \A k \in 1..6 : Executed(r, k)' <=> Executed(r, k)
    BY <1>1, <1>3, <1>7, <2>1, <2>2 DEF Executed
  <2>6. OrderInv(r)'
    BY <1>1, <2>5 DEF OrderInv, Company
  <2>7. AloneInv(r)'
    BY <1>1, <1>3, <2>5 DEF AloneInv
  <2> QED
    BY <1>1, <1>3, <1>5, <2>1, <2>2, <2>3, <2>4, <2>6, <2>7, OwnStep
<1>8. CASE answer[r] = "ok" /\ step[r] = Len(Flow) /\ Turn(r, "read") /\ UNCHANGED step
  <2>1. phase'[r] = "read" /\ \A q \in Run : q # r => phase'[q] = phase[q]
    BY <1>1, <1>8, Turned
  <2>2. TypeOK'
    BY <1>1, <1>4, <1>8 DEF TypeOK, Turn
  <2>3. PendingInv(r)'
    BY <1>2, <1>3, <1>8, <2>1 DEF PendingInv
  <2>4. \A k \in 1..6 : Executed(r, k)' <=> Executed(r, k)
    BY <1>1, <1>3, <1>8, <2>1, FlowTypes, Requests DEF Executed
  <2>5. OrderInv(r)'
    BY <1>1, <2>4 DEF OrderInv, Company
  <2>6. AloneInv(r)'
    BY <1>1, <1>3, <2>4 DEF AloneInv
  <2> QED
    BY <1>1, <1>3, <1>5, <1>8, <2>1, <2>2, <2>3, <2>5, <2>6, OwnStep
<1> QED
  BY <1>6, <1>7, <1>8 DEF Receive

\* A run ends, by what it reads or because it gives up.
LEMMA ReadStep ==
  ASSUME IInv, NEW r \in Run, Read(r)
  PROVE  IInv'
<1>1. /\ TypeOK /\ r \in Active /\ PendingInv(r) /\ phase[r] = "read"
      /\ UNCHANGED <<db, snap, queue, up, step, answer, with>>
  BY DEF IInv, Read, Active
<1>2. PICK new \in {"success", "failure"} : Turn(r, new)
  BY DEF Read
<1>3. phase'[r] = new /\ \A q \in Run : q # r => phase'[q] = phase[q]
  BY <1>1, <1>2, Turned
<1>4. faults' >= faults /\ faults' \in 0..MaxFaults /\ seen' \in [Run -> Contents]
  BY <1>1, FlowAssumption DEF Read, Fault, TypeOK
<1>5. phase' \in [Run -> {"idle", "send", "wait", "read"} \cup Ended]
  BY <1>1, <1>2 DEF TypeOK, Turn, Ended
<1>6. TypeOK'
  BY <1>1, <1>4, <1>5 DEF TypeOK
<1>7. PendingInv(r)' /\ r \notin Active'
  BY <1>1, <1>3 DEF PendingInv, Pending, Active
<1> QED
  BY <1>1, <1>3, <1>4, <1>6, <1>7, OwnStep

LEMMA TimeoutStep ==
  ASSUME IInv, NEW r \in Run, Timeout(r)
  PROVE  IInv'
<1>1. /\ TypeOK /\ r \in Active /\ PendingInv(r) /\ phase[r] = "wait" /\ Turn(r, "error")
      /\ UNCHANGED <<db, snap, queue, up, step, answer, seen, with, faults>>
  BY DEF IInv, Timeout, Active
<1>2. phase'[r] = "error" /\ \A q \in Run : q # r => phase'[q] = phase[q]
  BY <1>1, Turned
<1>3. TypeOK' /\ faults \in Nat
  BY <1>1, FlowTypes DEF TypeOK, Turn, Ended
<1>4. PendingInv(r)' /\ r \notin Active'
  BY <1>1, <1>2 DEF PendingInv, Pending, Active
<1> QED
  BY <1>1, <1>2, <1>3, <1>4, OwnStep

\* A request joins the backlog, behind those of the runs that are active too.
LEMMA SendStep ==
  ASSUME IInv, NEW r \in Run, Send(r)
  PROVE  IInv'
<1>1. /\ TypeOK /\ r \in Active /\ PendingInv(r) /\ phase[r] = "send"
      /\ UNCHANGED <<db, snap, up, step, answer, seen, with, faults>>
  BY DEF IInv, Send, Active
<1>2. /\ Len(queue) \in Nat /\ queue \in Seq(Run \X (1..6)) /\ step[r] \in 1..6
      /\ faults \in Nat /\ Pending(r) = {} /\ answer[r] = "none"
  BY <1>1, FlowTypes DEF PendingInv
<1>3. CASE up /\ queue' = Append(queue, <<r, step[r]>>) /\ Turn(r, "wait")
  <2>1. phase'[r] = "wait" /\ \A q \in Run : q # r => phase'[q] = phase[q]
    BY <1>1, <1>3, Turned
  <2>2. /\ Len(queue') = Len(queue) + 1 /\ queue' \in Seq(Run \X (1..6))
        /\ queue'[Len(queue) + 1] = <<r, step[r]>>
        /\ \A i \in 1..Len(queue) : queue'[i] = queue[i]
    BY <1>2, <1>3
  <2>3. TypeOK'
    BY <1>1, <1>3, <2>2, Requests DEF TypeOK, Turn
  <2>4. Active' = Active
    BY <1>1, <2>1 DEF Active
  <2>5. \A q \in Run : q # r => Pending(q)' = Pending(q)
    BY <1>2, <2>2 DEF Pending
  <2>6. Pending(r)' = {Len(queue) + 1}
    BY <1>2, <2>2 DEF Pending
  <2>7. ASSUME NEW q \in Run PROVE PendingInv(q)'
    <3>1. CASE q = r
      <4>1. Pending(r)' # {} /\ \A i, j \in Pending(r)' : i = j
        BY <2>6
      <4>2. \A i \in Pending(r)' : queue'[i][2] = step'[r]
        BY <1>1, <2>2, <2>6
      <4> QED
        BY <1>1, <1>2, <2>1, <3>1, <4>1, <4>2 DEF PendingInv
    <3>2. CASE q # r
      <4>1. \A i \in Pending(q) : queue'[i] = queue[i]
        BY <2>2 DEF Pending
      <4> QED
        BY <1>1, <2>1, <2>5, <3>2, <4>1 DEF PendingInv, IInv
    <3> QED
      BY <3>1, <3>2
  <2>8. \A p, q \in Active' : p \in Company(q)'
    BY <1>1, <2>4 DEF IInv, Company
  <2>9. ASSUME NEW q \in Active' PROVE OrderInv(q)' /\ AloneInv(q)'
    <3>1. /\ q \in Run /\ OrderInv(q) /\ AloneInv(q) /\ Company(q)' = Company(q)
          /\ r \in Company(q)
      BY <1>1, <2>4, <2>9 DEF Active, IInv, Company
    <3>2. \A k \in 1..6 : Executed(q, k)' <=> Executed(q, k)
      BY <1>1, <2>1, <3>1 DEF Executed
    <3>3. \A i \in 1..Len(queue') : i = Len(queue) + 1 \/ i \in 1..Len(queue)
      BY <1>2, <2>2
    <3>4. ASSUME NEW i \in 1..Len(queue'), NEW j \in 1..Len(queue'), queue'[i][1] = q, i < j
          PROVE  queue'[j][1] \in Company(q)
      <4>1. CASE j = Len(queue) + 1
        BY <2>2, <3>1, <4>1
      <4>2. CASE j \in 1..Len(queue)
        <5>1. i \in 1..Len(queue)
          BY <1>2, <3>4, <4>2
        <5> QED
          BY <2>2, <3>1, <3>4, <4>2, <5>1 DEF OrderInv
      <4> QED
        BY <3>3, <4>1, <4>2
    <3>5. ASSUME Executed(q, 1), NEW i \in 1..Len(queue') PROVE queue'[i][1] \in Company(q)
      BY <2>2, <3>1, <3>3, <3>5 DEF OrderInv
    <3>6. OrderInv(q)'
      BY <1>1, <3>1, <3>2, <3>4, <3>5 DEF OrderInv
    <3>7. AloneInv(q)'
      BY <1>1, <3>1, <3>2 DEF AloneInv
    <3> QED
      BY <3>6, <3>7
  <2> QED
    BY <1>1, <2>3, <2>7, <2>8, <2>9 DEF IInv
<1>4. CASE ~up /\ Turn(r, "failure") /\ UNCHANGED queue
  <2>1. phase'[r] = "failure" /\ \A q \in Run : q # r => phase'[q] = phase[q]
    BY <1>1, <1>4, Turned
  <2>2. TypeOK'
    BY <1>1, <1>4 DEF TypeOK, Turn, Ended
  <2>3. PendingInv(r)' /\ r \notin Active'
    BY <1>1, <1>2, <1>4, <2>1 DEF PendingInv, Pending, Active
  <2> QED
    BY <1>1, <1>2, <1>4, <2>1, <2>2, <2>3, OwnStep
<1> QED
  BY <1>3, <1>4 DEF Send

\* A new run joins the company of those that are active, and finds in the
\* backlog what the others have left.
LEMMA LaunchStep ==
  ASSUME IInv, NEW r \in Run, Launch(r)
  PROVE  IInv'
<1>1. /\ TypeOK /\ PendingInv(r) /\ phase[r] = "idle"
      /\ UNCHANGED <<db, snap, queue, up, step, answer, seen, faults>>
  BY FlowAssumption DEF IInv, Launch
<1>2. step[r] = 1 /\ Pending(r) = {} /\ answer[r] = "none"
  BY <1>1 DEF PendingInv
<1>3. phase'[r] = "send" /\ \A q \in Run : q # r => phase'[q] = phase[q]
  BY <1>1, Turned DEF Launch
<1>4. Active' = Active \cup {r} /\ r \notin Active /\ Active \subseteq Run
  BY <1>1, <1>3 DEF Active
<1>5. /\ with'[r] = Active
      /\ \A q \in Active : with'[q] = with[q] \cup {r}
      /\ with' \in [Run -> SUBSET Run]
  BY <1>1, <1>4 DEF Launch, TypeOK
<1>6. TypeOK'
  BY <1>1, <1>5 DEF TypeOK, Launch, Turn
<1>7. ASSUME NEW q \in Run PROVE PendingInv(q)'
  <2>1. Pending(q)' = Pending(q) /\ PendingInv(q)
    BY <1>1 DEF Pending, IInv
  <2>2. CASE q = r
    BY <1>1, <1>2, <1>3, <2>1, <2>2 DEF PendingInv
  <2>3. CASE q # r
    BY <1>1, <1>3, <2>1, <2>3 DEF PendingInv
  <2> QED
    BY <2>2, <2>3
<1>8. \A p, q \in Active' : p \in Company(q)'
  BY <1>4, <1>5 DEF IInv, Company
<1>9. ASSUME NEW q \in Active PROVE OrderInv(q)' /\ AloneInv(q)'
  <2>1. q \in Run /\ OrderInv(q) /\ Company(q) \subseteq Company(q)' /\ with'[q] # {} /\ q # r
    BY <1>4, <1>5, <1>9 DEF Active, IInv, Company
  <2>2. \A k \in 1..6 : Executed(q, k)' <=> Executed(q, k)
    BY <1>1, <1>3, <2>1 DEF Executed
  <2>3. OrderInv(q)'
    <3>1. \A i, j \in 1..Len(queue) : queue[i][1] = q /\ i < j => queue[j][1] \in Company(q)'
      BY <2>1 DEF OrderInv
    <3>2. Executed(q, 1) => \A i \in 1..Len(queue) : queue[i][1] \in Company(q)'
      BY <2>1 DEF OrderInv
    <3>3. Executed(q, 1) => \A c \in Control : db.counted[c] \subseteq Company(q)'
      BY <2>1 DEF OrderInv
    <3>4. Executed(q, 6) => \A c \in Control : snap.counted[c] \subseteq Company(q)'
      BY <2>1 DEF OrderInv
    <3> QED
      BY <1>1, <2>2, <3>1, <3>2, <3>3, <3>4 DEF OrderInv
  <2> QED
    BY <2>1, <2>3 DEF AloneInv
<1>10. OrderInv(r)' /\ AloneInv(r)'
  <2>1. \A k \in 1..6 : ~Executed(r, k)'
    BY <1>1, <1>2, <1>3 DEF Executed
  <2>2. \A i \in 1..Len(queue) : queue[i][1] # r
    BY <1>2 DEF Pending
  <2> QED
    BY <1>1, <1>2, <2>1, <2>2 DEF OrderInv, AloneInv
<1> QED
  BY <1>1, <1>4, <1>6, <1>7, <1>8, <1>9, <1>10 DEF IInv

\* A crash empties the backlog and ends the runs that wait for it.
LEMMA CrashStep ==
  ASSUME IInv, Crash
  PROVE  IInv'
<1>1. TypeOK /\ queue' = <<>> /\ UNCHANGED <<db, snap, step, answer, seen, with>>
  BY DEF IInv, Crash
<1>2. faults' \in 0..MaxFaults /\ faults' > 0
  BY <1>1, FlowAssumption DEF Crash, Fault, TypeOK
<1>3. \A q \in Run : phase'[q] = IF phase[q] = "wait" /\ answer[q] = "none"
                                   THEN "error" ELSE phase[q]
  BY DEF Crash
<1>4. TypeOK'
  <2>1. phase' \in [Run -> {"idle", "send", "wait", "read"} \cup Ended]
    BY <1>1 DEF Crash, TypeOK, Ended
  <2>2. queue' \in Seq(Run \X (1..Len(Flow)))
    <3>1. <<>> \in Seq(Run \X (1..Len(Flow)))
      OBVIOUS
    <3> QED
      BY <1>1, <3>1
  <2>3. up' \in BOOLEAN
    BY DEF Crash
  <2> QED
    BY <1>1, <1>2, <2>1, <2>2, <2>3 DEF TypeOK
<1>5. Active' \subseteq Active
  BY <1>3 DEF Active
<1>6. ASSUME NEW q \in Run PROVE PendingInv(q)'
  <2>1. PendingInv(q) /\ Pending(q)' = {}
    BY <1>1 DEF IInv, Pending
  <2> QED
    BY <1>1, <1>3, <2>1 DEF PendingInv
<1>7. \A p, q \in Active' : p \in Company(q)'
  BY <1>1, <1>5 DEF IInv, Company
<1>8. ASSUME NEW q \in Active' PROVE OrderInv(q)' /\ AloneInv(q)'
  <2>1. q \in Run /\ OrderInv(q) /\ AloneInv(q) /\ Company(q)' = Company(q) /\ phase'[q] = phase[q]
    BY <1>1, <1>3, <1>5 DEF Active, IInv, Company
  <2>2. \A k \in 1..6 : Executed(q, k)' <=> Executed(q, k)
    BY <1>1, <2>1 DEF Executed
  <2>3. OrderInv(q)'
    BY <1>1, <2>1, <2>2 DEF OrderInv
  <2>4. AloneInv(q)'
    BY <1>1, <1>2, <2>1, <2>2 DEF AloneInv
  <2> QED
    BY <2>3, <2>4
<1> QED
  BY <1>2, <1>4, <1>6, <1>7, <1>8 DEF IInv

\* Nothing that the invariant speaks of changes, but that the server is there.
LEMMA RestartStep ==
  ASSUME IInv, up' = TRUE \/ up' = up,
         UNCHANGED <<db, snap, queue, step, phase, answer, seen, with, faults>>
  PROVE  IInv'
<1>1. TypeOK' /\ (faults' = 0 => up')
  BY DEF IInv, TypeOK
<1>2. Active' = Active
  BY DEF Active
<1>3. \A q \in Run : PendingInv(q)'
  BY DEF IInv, PendingInv, Pending
<1>4. \A p, q \in Active' : p \in Company(q)'
  BY <1>2 DEF IInv, Company
<1>5. \A q \in Active' : OrderInv(q)' /\ AloneInv(q)'
  BY <1>2 DEF IInv, OrderInv, AloneInv, Executed, Company
<1> QED
  BY <1>1, <1>3, <1>4, <1>5 DEF IInv

LEMMA FlowStep == IInv /\ [Next]_vars => IInv'
<1> SUFFICES ASSUME IInv, [Next]_vars PROVE IInv'
  OBVIOUS
<1>1. CASE Serve
  BY <1>1, ServeStep
<1>2. CASE Crash
  BY <1>2, CrashStep
<1>3. CASE Restart
  BY <1>3, RestartStep DEF Restart
<1>4. ASSUME NEW r \in Run, Launch(r) PROVE IInv'
  BY <1>4, LaunchStep
<1>5. ASSUME NEW r \in Run, Advance(r) PROVE IInv'
  BY <1>5, SendStep, ReceiveStep, ReadStep DEF Advance
<1>6. ASSUME NEW r \in Run, Timeout(r) PROVE IInv'
  BY <1>6, TimeoutStep
<1>7. CASE AllEnded \/ UNCHANGED vars
  BY <1>7, RestartStep DEF AllEnded, vars
<1> QED
  BY <1>1, <1>2, <1>3, <1>4, <1>5, <1>6, <1>7 DEF Next

\* However many runs of the asset there are, and whatever requests earlier ones
\* have left behind: a run has at most one request on its way, what it has
\* executed stands, and from its reset on only runs that were active with it
\* have touched the database (assets.py:154-176).
THEOREM FlowInvariant == Spec => []IInv
<1>1. Init => IInv
  BY FlowInitInv
<1>2. IInv /\ [Next]_vars => IInv'
  BY FlowStep
<1> QED
  BY <1>1, <1>2, PTL DEF Spec

\* How a run can end, and that it has ended then.
LEMMA Ends ==
  ASSUME IInv, [Next]_vars, NEW r \in Run
  PROVE  /\ phase[r] \in Ended =>
              phase'[r] = phase[r] /\ seen'[r] = seen[r] /\ with'[r] = with[r]
         /\ faults' >= faults
         /\ phase'[r] = "success" /\ phase[r] # "success" =>
              phase[r] = "read" /\ seen'[r] = snap /\ with'[r] = with[r]
         /\ phase'[r] = "failure" /\ phase[r] # "failure" =>
              /\ r \in Active /\ with'[r] = with[r]
              /\ \/ ~up \/ faults' > 0 \/ answer[r] = "refused"
                 \/ phase[r] = "read" /\ (Cardinality(snap.controls) < 2
                                            \/ Cardinality(Rows(snap)) < 2)
<1>1. TypeOK /\ faults \in Nat /\ phase[r] \in {"idle", "send", "wait", "read", "success", "failure", "error"}
  BY FlowTypes DEF IInv
<1>2. CASE Serve
  <2>1. UNCHANGED <<phase, seen, with>>
    BY <1>2 DEF Serve
  <2>2. faults' >= faults
    BY <1>1, <1>2, ServeIsServed DEF Served
  <2> QED
    BY <2>1, <2>2
<1>3. CASE Crash
  <2>1. /\ phase'[r] = IF phase[r] = "wait" /\ answer[r] = "none" THEN "error" ELSE phase[r]
        /\ UNCHANGED <<seen, with>> /\ faults' >= faults
    BY <1>1, <1>3 DEF Crash, Fault
  <2> QED
    BY <1>1, <2>1 DEF Ended
<1>4. CASE Restart \/ AllEnded \/ UNCHANGED vars
  BY <1>1, <1>4 DEF Restart, AllEnded, vars
<1>5. ASSUME NEW q \in Run, Launch(q)
      PROVE  /\ phase[r] \in Ended => phase'[r] = phase[r] /\ with'[r] = with[r]
             /\ phase'[r] \in {"success", "failure"} => phase'[r] = phase[r]
             /\ UNCHANGED <<seen, faults>>
  <2>1. Turn(q, "send") /\ phase[q] = "idle" /\ UNCHANGED <<seen, faults>>
    BY <1>5, FlowAssumption DEF Launch
  <2>2. phase[r] \in Ended => q # r /\ r \notin Active
    BY <2>1 DEF Ended, Active
  <2>3. phase[r] \in Ended => with'[r] = with[r]
    BY <1>5, <2>2 DEF Launch
  <2> QED
    BY <1>1, <2>1, <2>2, <2>3, Turned
\* What the turn of another run leaves alone.
<1>6. ASSUME NEW q \in Run, Advance(q) \/ Timeout(q), q # r
      PROVE  phase'[r] = phase[r] /\ seen'[r] = seen[r] /\ with'[r] = with[r] /\ faults' >= faults
  <2>1. \E new : Turn(q, new)
    BY <1>6 DEF Advance, Send, Receive, Read, Timeout
  <2>2. phase'[r] = phase[r]
    BY <1>1, <1>6, <2>1, Turned
  <2>3. seen'[r] = seen[r] /\ with' = with /\ faults' >= faults
    BY <1>1, <1>6 DEF Advance, Send, Receive, Read, Timeout, Fault, TypeOK
  <2> QED
    BY <2>2, <2>3
<1>7. CASE Send(r)
  <2>1. /\ phase[r] = "send" /\ UNCHANGED <<seen, with, faults>>
        /\ Turn(r, "wait") \/ (Turn(r, "failure") /\ ~up)
    BY <1>7 DEF Send
  <2> QED
    BY <1>1, <2>1, Turned DEF Ended, Active
<1>8. CASE Receive(r)
  <2>1. /\ phase[r] = "wait" /\ UNCHANGED <<seen, with, faults>>
        /\ Turn(r, "send") \/ Turn(r, "read") \/ (Turn(r, "failure") /\ answer[r] = "refused")
    BY <1>8 DEF Receive
  <2> QED
    BY <1>1, <2>1, Turned DEF Ended, Active
<1>9. CASE Read(r)
  <2>1. phase[r] = "read" /\ with' = with
    BY <1>9 DEF Read
  <2>2. CASE seen' = [seen EXCEPT ![r] = snap] /\ UNCHANGED faults
             /\ Turn(r, IF Cardinality(snap.controls) < 2 \/ Cardinality(Rows(snap)) < 2
                          THEN "failure" ELSE "success")
    <3>1. seen'[r] = snap
      BY <1>1, <2>2 DEF TypeOK
    <3>2. phase'[r] = IF Cardinality(snap.controls) < 2 \/ Cardinality(Rows(snap)) < 2
                        THEN "failure" ELSE "success"
      BY <1>1, <2>2, Turned
    <3> QED
      BY <1>1, <2>1, <2>2, <3>1, <3>2 DEF Ended, Active
  <2>3. CASE Fault /\ Turn(r, "failure") /\ UNCHANGED seen
    <3>1. phase'[r] = "failure" /\ faults' > 0 /\ faults' >= faults
      BY <1>1, <2>3, Turned DEF Fault
    <3> QED
      BY <2>1, <3>1 DEF Ended, Active
  <2> QED
    BY <1>9, <2>2, <2>3 DEF Read
<1>10. CASE Timeout(r)
  <2>1. phase[r] = "wait" /\ phase'[r] = "error" /\ UNCHANGED <<seen, with, faults>>
    BY <1>1, <1>10, Turned DEF Timeout
  <2> QED
    BY <1>1, <2>1 DEF Ended
<1>11. CASE \E q \in Run : Launch(q)
  BY <1>1, <1>5, <1>11
<1>12. CASE \E q \in Run : q # r /\ (Advance(q) \/ Timeout(q))
  BY <1>1, <1>6, <1>12
<1> QED
  BY <1>2, <1>3, <1>4, <1>7, <1>8, <1>9, <1>10, <1>11, <1>12 DEF Next, Advance

\* A run that reads the snapshot has got through all its requests.
LEMMA ReadsItsOwn ==
  ASSUME IInv, NEW r \in Run, phase[r] = "read"
  PROVE  /\ \A c \in Control : snap.counted[c] \subseteq Company(r)
         /\ with[r] = {} => snap.controls = Control /\ \A c \in Control : r \in snap.counted[c]
<1>1. r \in Active /\ PendingInv(r) /\ OrderInv(r) /\ AloneInv(r)
  BY DEF IInv, Active
<1>2. Executed(r, 6)
  BY <1>1, Requests DEF PendingInv, Executed
<1> QED
  BY <1>1, <1>2 DEF OrderInv, AloneInv

\* For any number of runs and any interleaving of clients that give up: a run
\* that succeeds has counted the events of its company only, and alone exactly
\* its own (assets.py:154-176).
THEOREM RunsAreIsolated == Spec => []FlowIsolated
<1>1. Init => FlowIsolated
  BY DEF Init, FlowIsolated
<1>2. IInv /\ FlowIsolated /\ [Next]_vars => FlowIsolated'
  <2> SUFFICES ASSUME IInv, FlowIsolated, [Next]_vars,
                      NEW r \in Run, phase'[r] = "success", NEW c \in Control
               PROVE  /\ seen'[r].counted[c] \subseteq {r} \cup with'[r]
                      /\ with'[r] = {} => seen'[r].counted[c] = {r}
    BY DEF FlowIsolated
  <2>1. CASE phase[r] = "success"
    BY <2>1, Ends DEF FlowIsolated, Ended
  <2>2. CASE phase[r] # "success"
    <3>1. phase[r] = "read" /\ seen'[r] = snap /\ with'[r] = with[r]
      BY <2>2, Ends
    <3> QED
      BY <3>1, ReadsItsOwn DEF Company
  <2> QED
    BY <2>1, <2>2
<1> QED
  BY <1>1, <1>2, FlowInvariant, PTL DEF Spec

\* A run without company that fails has met a fault of the server: whatever
\* earlier runs have left in the backlog does not fail it (assets.py:285).
THEOREM FailuresAreFaults == Spec => []NoFalseAlarm
<1>1. Init => NoFalseAlarm
  BY DEF Init, NoFalseAlarm
<1>2. IInv /\ NoFalseAlarm /\ [Next]_vars => NoFalseAlarm'
  <2> SUFFICES ASSUME IInv, NoFalseAlarm, [Next]_vars,
                      NEW r \in Run, phase'[r] = "failure", with'[r] = {}
               PROVE  faults' > 0
    BY DEF NoFalseAlarm
  <2>1. faults \in Nat /\ faults' \in Nat /\ faults' >= faults
    <3>1. TypeOK /\ TypeOK'
      BY FlowStep DEF IInv
    <3>2. faults \in 0..MaxFaults /\ faults' \in 0..MaxFaults
      BY <3>1 DEF TypeOK
    <3>3. faults' >= faults
      BY Ends
    <3> QED
      BY <3>2, <3>3, FlowAssumption
  <2>2. CASE phase[r] = "failure"
    <3>1. with[r] = {} /\ phase[r] = "failure"
      BY <2>2, Ends DEF Ended
    <3>2. faults > 0
      BY <3>1 DEF NoFalseAlarm
    <3> QED
      BY <2>1, <3>2
  <2>3. CASE phase[r] # "failure"
    <3>1. /\ r \in Active /\ with[r] = {}
          /\ \/ ~up \/ faults' > 0 \/ answer[r] = "refused"
             \/ phase[r] = "read" /\ (Cardinality(snap.controls) < 2
                                        \/ Cardinality(Rows(snap)) < 2)
      BY <2>3, Ends
    <3>2. ~up => faults > 0
      BY <2>1 DEF IInv
    <3>3. answer[r] = "refused" => faults > 0
      BY <3>1 DEF IInv, AloneInv
    <3>4. phase[r] = "read" => snap.controls = Control /\ Rows(snap) = Control
      <4>1. ASSUME phase[r] = "read"
            PROVE  snap.controls = Control /\ \A c \in Control : r \in snap.counted[c]
        BY <3>1, <4>1, ReadsItsOwn
      <4> QED
        BY <4>1 DEF Rows
    <3>5. Cardinality(Control) = 2
      <4>1. IsFiniteSet({"c1"}) /\ Cardinality({"c1"}) = 1 /\ "c2" \notin {"c1"}
        BY FS_Singleton
      <4>2. Control = {"c1"} \cup {"c2"}
        BY DEF Control
      <4> QED
        BY <4>1, <4>2, FS_AddElement
    <3> QED
      BY <2>1, <3>1, <3>2, <3>3, <3>4, <3>5
  <2> QED
    BY <2>2, <2>3
<1> QED
  BY <1>1, <1>2, FlowInvariant, PTL DEF Spec

=============================================================================
