-------------------------- MODULE SnapshotsProofs --------------------------
(***************************************************************************)
(* Theorems about the snapshot directory, for any number of exports,       *)
(* sources and names, and any bounds.                                      *)
(***************************************************************************)
EXTENDS Snapshots, FiniteSetTheorems, TLAPS

USE NameAssumption

LEMMA InitInv == Init => IInv
<1> SUFFICES ASSUME Init PROVE IInv
  OBVIOUS
<1> USE DEF Init, NoFile, Stub, Time, Exporting
<1>1. TypeOK
  BY DEF TypeOK, File, Reader, Run, Sensor
<1>2. DirInv /\ ExportInv /\ NoStray /\ ReaderInv
  BY DEF DirInv, ExportInv, NoStray, ReaderInv
<1> QED
  BY <1>1, <1>2 DEF IInv

LEMMA ExporterTypes ==
  ASSUME TypeOK, NEW e \in Export, Begin(e) \/ Step(e) \/ Fail(e)
  PROVE  TypeOK'
<1> USE DEF TypeOK, Time, Exporting, Goto, faults
<1>1. CASE Begin(e)
  BY <1>1 DEF Begin, reading
<1>2. CASE Connect(e)
  BY <1>2 DEF Connect, reading
<1>3. CASE ReadSource(e)
  <2>1. [of |-> source[e], version |-> version[source[e]], mtime |-> 0] \in File
    BY DEF File
  <2> QED
    BY <1>3, <2>1 DEF ReadSource, reading
<1>4. CASE Flush(e)
  <2>1. clock' \in 0..MaxTime
    BY <1>4 DEF Flush
  <2>2. [of |-> copy[e].of, version |-> copy[e].version, mtime |-> clock'] \in File
    BY <2>1 DEF File
  <2>3. copy' \in [Export -> File]
    BY <1>4, <2>2 DEF Flush
  <2> QED
    BY <1>4, <2>1, <2>3 DEF Flush, reading
<1>5. CASE Replace(e)
  BY <1>5 DEF Replace, reading
<1>6. CASE Fail(e)
  BY <1>6 DEF Fail, reading
<1>7. CASE Cleanup(e)
  BY <1>7 DEF Cleanup, reading
<1> QED
  BY <1>1, <1>2, <1>3, <1>4, <1>5, <1>6, <1>7 DEF Step

LEMMA ReaderTypes ==
  ASSUME TypeOK, ReaderInv, NEW r \in Reader, List(r) \/ Pick(r) \/ Summarize(r)
  PROVE  TypeOK'
<1> USE DEF TypeOK, Time, RunOutcomes, ReaderAt, Settle, faults
<1>1. CASE List(r)
  BY <1>1 DEF List, exporting, Visible
<1>2. CASE Pick(r)
  <2>1. CASE cands[r] \subseteq Visible
    BY <1>2, <2>1 DEF Pick, exporting
  <2>2. CASE ~(cands[r] \subseteq Visible)
    BY <1>2, <2>2 DEF Pick, exporting
  <2> QED
    BY <2>1, <2>2
<1>3. CASE Summarize(r)
  <2>1. ASSUME clock < MaxTime PROVE Stub(clock + 1) \in File
    BY <2>1 DEF Stub, File
  <2>2. path[r] \in Name
    BY <1>3 DEF Summarize, ReaderInv
  <2>3. dir[path[r]].mtime \in 0..MaxTime
    BY <2>2 DEF File
  <2> QED
    BY <1>3, <2>1, <2>2, <2>3 DEF Summarize, exporting, Visible
<1> QED
  BY <1>1, <1>2, <1>3

LEMMA OtherTypes ==
  ASSUME TypeOK, ReaderInv,
         (\E s \in Source : Commit(s)) \/ CrashService \/ (\E n \in Name : Remove(n))
           \/ Compare \/ Launch \/ Save \/ CrashDaemon \/ UNCHANGED vars
  PROVE  TypeOK'
<1> USE DEF TypeOK, Time, RunOutcomes, ReaderAt, Settle, faults
<1>0. Sensor \in Reader /\ 0 \in 0..MaxTime
  BY DEF Reader, Sensor
<1>1. ASSUME NEW s \in Source, Commit(s) PROVE TypeOK'
  BY <1>1 DEF Commit, reading
<1>2. CASE CrashService
  BY <1>2 DEF CrashService, reading
<1>3. ASSUME NEW n \in Name, Remove(n) PROVE TypeOK'
  <2>1. NoFile \in File
    BY DEF NoFile, Stub, File, Time
  <2> QED
    BY <1>3, <2>1 DEF Remove, exporting, reading
<1>4. CASE Compare
  <2>1. path[Sensor] \in Name
    BY <1>4, <1>0 DEF Compare, ReaderInv
  <2>2. dir[path[Sensor]].mtime \in 0..MaxTime
    BY <2>1 DEF File
  <2> QED
    BY <1>4, <1>0, <2>2 DEF Compare, exporting
<1>5. CASE Launch
  BY <1>5, <1>0 DEF Launch, exporting
<1>6. CASE Save
  BY <1>6, <1>0 DEF Save, exporting
<1>7. CASE CrashDaemon
  BY <1>7, <1>0 DEF CrashDaemon, exporting
<1>8. CASE UNCHANGED vars
  BY <1>8 DEF vars
<1> QED
  BY <1>1, <1>2, <1>3, <1>4, <1>5, <1>6, <1>7, <1>8

LEMMA Cases ==
  ASSUME [Next]_vars
  PROVE  \/ \E s \in Source : Commit(s)
         \/ \E e \in Export : Begin(e)
         \/ \E e \in Export : Connect(e)
         \/ \E e \in Export : ReadSource(e)
         \/ \E e \in Export : Flush(e)
         \/ \E e \in Export : Replace(e)
         \/ \E e \in Export : Fail(e)
         \/ \E e \in Export : Cleanup(e)
         \/ CrashService
         \/ \E n \in Name : Remove(n)
         \/ \E r \in Reader : List(r)
         \/ \E r \in Reader : Pick(r)
         \/ \E r \in Run : Summarize(r)
         \/ Compare /\ ~Testing
         \/ Launch /\ ~Testing
         \/ Save /\ ~Testing
         \/ CrashDaemon
         \/ UNCHANGED vars
BY DEF Next, Step, Tick, Summary, Reader

LEMMA TypeStep == IInv /\ [Next]_vars => TypeOK'
<1> SUFFICES ASSUME IInv, [Next]_vars PROVE TypeOK'
  OBVIOUS
<1>1. TypeOK /\ ReaderInv
  BY DEF IInv
<1>2. Run \subseteq Reader
  BY DEF Reader
<1> QED
  BY <1>1, <1>2, Cases, ExporterTypes, ReaderTypes, OtherTypes DEF Step

LEMMA DirStep == IInv /\ [Next]_vars => DirInv'
<1> SUFFICES ASSUME IInv, [Next]_vars PROVE DirInv'
  OBVIOUS
<1> USE DEF DirInv, Time
<1>0. TypeOK /\ DirInv /\ ExportInv /\ ReaderInv
  BY DEF IInv
<1>t. /\ version \in [Source -> 0..MaxVersion] /\ dir \in [Name -> File]
      /\ clock \in 0..MaxTime /\ copy \in [Export -> File]
      /\ \A n \in Name : dir[n].mtime \in 0..MaxTime /\ dir[n].version \in 0..MaxVersion
           /\ dir[n].of \in Source \cup {NoSource}
  BY <1>0 DEF TypeOK, File
<1>1. ASSUME NEW s \in Source, Commit(s) PROVE DirInv'
  BY <1>0, <1>t, <1>1 DEF Commit, Stub
<1>2. ASSUME NEW e \in Export, Flush(e) PROVE DirInv'
  BY <1>0, <1>t, <1>2 DEF Flush, Stub
<1>3. ASSUME NEW e \in Export, Replace(e) PROVE DirInv'
  <2>1. /\ copy[e].of = source[e] /\ copy[e].version <= version[source[e]]
        /\ copy[e].mtime \in 1..clock /\ source[e] # NoSource
    BY <1>0, <1>3 DEF Replace, ExportInv
  <2> QED
    BY <1>0, <1>t, <1>3, <2>1 DEF Replace, Stub
<1>4. ASSUME NEW n \in Name, Remove(n) PROVE DirInv'
  BY <1>0, <1>t, <1>4 DEF Remove, NoFile, Stub, exporting
<1>5. ASSUME NEW r \in Run, Summarize(r) PROVE DirInv'
  BY <1>0, <1>t, <1>5 DEF Summarize, Stub, exporting
<1>6. CASE UNCHANGED <<version, dir, clock>>
  BY <1>0, <1>6 DEF Stub
<1>7. \/ \E e \in Export : Begin(e) \/ Connect(e) \/ ReadSource(e) \/ Fail(e) \/ Cleanup(e)
      \/ CrashService
      \/ \E r \in Reader : List(r) \/ Pick(r)
      \/ Compare \/ Launch \/ Save \/ CrashDaemon \/ UNCHANGED vars
      => UNCHANGED <<version, dir, clock>>
  BY DEF Begin, Connect, ReadSource, Fail, Cleanup, CrashService, List, Pick, Compare,
         Launch, Save, CrashDaemon, vars, exporting
<1> QED
  BY <1>1, <1>2, <1>3, <1>4, <1>5, <1>6, <1>7, Cases

LEMMA ExportStep == IInv /\ [Next]_vars => ExportInv' /\ NoStray'
<1> SUFFICES ASSUME IInv, [Next]_vars PROVE ExportInv' /\ NoStray'
  OBVIOUS
<1> USE DEF ExportInv, NoStray, Time, Exporting, Goto
<1>0. ExportInv /\ NoStray
  BY DEF IInv
<1>t. /\ version \in [Source -> 0..MaxVersion] /\ clock \in 0..MaxTime
      /\ copy \in [Export -> File] /\ temp \in [Export -> BOOLEAN]
      /\ since \in [Export -> 0..MaxVersion]
      /\ pc \in [Export -> Exporting \cup {"new", "answered", "failed", "littered", "dead"}]
      /\ \A e \in Export : copy[e].version \in 0..MaxVersion /\ copy[e].mtime \in 0..MaxTime
  BY DEF IInv, TypeOK, File
<1>1. ASSUME NEW s \in Source, Commit(s) PROVE ExportInv' /\ NoStray'
  BY <1>0, <1>t, <1>1 DEF Commit
<1>2. ASSUME NEW e \in Export, Begin(e) PROVE ExportInv' /\ NoStray'
  BY <1>0, <1>t, <1>2 DEF Begin
<1>3. ASSUME NEW e \in Export, Connect(e) PROVE ExportInv' /\ NoStray'
  BY <1>0, <1>t, <1>3 DEF Connect
<1>4. ASSUME NEW e \in Export, ReadSource(e) PROVE ExportInv' /\ NoStray'
  BY <1>0, <1>t, <1>4 DEF ReadSource
<1>5. ASSUME NEW e \in Export, Flush(e) PROVE ExportInv' /\ NoStray'
  BY <1>0, <1>t, <1>5 DEF Flush
<1>6. ASSUME NEW e \in Export, Replace(e) \/ Fail(e) \/ Cleanup(e) PROVE ExportInv' /\ NoStray'
  BY <1>0, <1>t, <1>6 DEF Replace, Fail, Cleanup
<1>7. CASE CrashService
  BY <1>0, <1>t, <1>7 DEF CrashService
<1>8. ASSUME NEW r \in Run, Summarize(r) PROVE ExportInv' /\ NoStray'
  BY <1>0, <1>t, <1>8 DEF Summarize, exporting
<1>9. CASE UNCHANGED <<exporting, clock>>
  BY <1>0, <1>9 DEF exporting
<1>10. \/ \E n \in Name : Remove(n)
       \/ \E r \in Reader : List(r) \/ Pick(r)
       \/ Compare \/ Launch \/ Save \/ CrashDaemon \/ UNCHANGED vars
       => UNCHANGED <<exporting, clock>>
  BY DEF Remove, List, Pick, Compare, Launch, Save, CrashDaemon, vars, exporting
<1> QED
  BY <1>1, <1>2, <1>3, <1>4, <1>5, <1>6, <1>7, <1>8, <1>9, <1>10, Cases

LEMMA ReaderStep == IInv /\ [Next]_vars => ReaderInv'
<1> SUFFICES ASSUME IInv, [Next]_vars PROVE ReaderInv'
  OBVIOUS
<1> USE DEF ReaderInv, ReaderAt, Settle, Sensor
<1>0. ReaderInv
  BY DEF IInv
<1>t. /\ at \in [Reader -> {"none", "start", "max", "picked", "launch", "save"} \cup RunOutcomes]
      /\ cands \in [Reader -> SUBSET Name] /\ path \in [Reader -> Name \cup {NoName}]
      /\ saw \in [Reader -> Time] /\ -1 \in Reader /\ Run \subseteq Reader /\ -1 \notin Run
  BY DEF IInv, TypeOK, Reader, Run, Time
<1>1. ASSUME NEW r \in Reader, List(r) PROVE ReaderInv'
  BY <1>0, <1>t, <1>1 DEF List
<1>2. ASSUME NEW r \in Reader, Pick(r) PROVE ReaderInv'
  BY <1>0, <1>t, <1>2 DEF Pick
<1>3. ASSUME NEW r \in Run, Summarize(r) PROVE ReaderInv'
  BY <1>0, <1>t, <1>3 DEF Summarize
<1>4. CASE Compare
  BY <1>0, <1>t, <1>4 DEF Compare
<1>5. CASE Launch
  BY <1>0, <1>t, <1>5 DEF Launch
<1>6. CASE Save \/ CrashDaemon
  BY <1>0, <1>t, <1>6 DEF Save, CrashDaemon
<1>7. CASE UNCHANGED reading
  BY <1>0, <1>7 DEF reading
<1>8. \/ \E s \in Source : Commit(s)
      \/ \E e \in Export : Begin(e) \/ Connect(e) \/ ReadSource(e) \/ Flush(e) \/ Replace(e)
           \/ Fail(e) \/ Cleanup(e)
      \/ CrashService \/ (\E n \in Name : Remove(n)) \/ UNCHANGED vars
      => UNCHANGED reading
  BY DEF Commit, Begin, Connect, ReadSource, Flush, Replace, Fail, Cleanup, CrashService,
         Remove, vars, reading
<1> QED
  BY <1>1, <1>2, <1>3, <1>4, <1>5, <1>6, <1>7, <1>8, Cases

\* The inductive invariant holds for any exports, sources and names.
THEOREM Invariant == Spec => []IInv
<1>1. IInv /\ [Next]_vars => IInv'
  BY TypeStep, DirStep, ExportStep, ReaderStep DEF IInv
<1> QED
  BY InitInv, <1>1, PTL DEF Spec

-----------------------------------------------------------------------------
(* The directory shows complete backups only.                              *)

\* The names that are, or may become, empty files: deleted ones which a reader
\* has listed and those it has created anew.  Only a deletion adds a name.
Lost == {n \in Name : IF n \in Visible THEN dir[n].of = NoSource
                                       ELSE \E r \in Reader : n \in cands[r]}
LostInv == IsFiniteSet(Lost) /\ Cardinality(Lost) <= removals

LEMMA LostStep ==
  ASSUME IInv, [Next]_vars
  PROVE  \/ removals' = removals /\ Lost' \subseteq Lost
         \/ removals' = removals + 1 /\ \E n \in Name : Lost' \subseteq Lost \cup {n}
<1> USE DEF Lost, Visible
<1> DEFINE Kept == removals' = removals /\ Lost' \subseteq Lost
<1>t. /\ dir \in [Name -> File] /\ cands \in [Reader -> SUBSET Name] /\ Run \subseteq Reader
      /\ ReaderInv /\ ExportInv
  BY DEF IInv, TypeOK, Reader
<1>1. ASSUME NEW e \in Export, Replace(e) PROVE Kept
  <2>1. copy[e].of # NoSource /\ copy[e].mtime # 0 /\ out[e] \in Name
    BY <1>t, <1>1 DEF Replace, ExportInv
  <2> QED
    BY <1>t, <1>1, <2>1 DEF Replace, reading, faults
<1>2. ASSUME NEW r \in Reader, List(r) \/ Pick(r) PROVE Kept
  BY <1>t, <1>2 DEF List, Pick, Settle, faults
<1>3. ASSUME NEW r \in Run, Summarize(r) PROVE Kept
  <2>1. path[r] \in cands[r] /\ path[r] \in Name
    BY <1>t, <1>3 DEF Summarize, ReaderInv
  <2> QED
    BY <1>t, <1>3, <2>1 DEF Summarize, Settle, faults
<1>4. CASE Compare \/ Launch \/ Save \/ CrashDaemon
  BY <1>t, <1>4 DEF Compare, Launch, Save, CrashDaemon, Settle, faults
<1>5. ASSUME NEW n \in Name, Remove(n)
      PROVE  removals' = removals + 1 /\ Lost' \subseteq Lost \cup {n}
  BY <1>t, <1>5 DEF Remove, reading
<1>6. \/ \E s \in Source : Commit(s)
      \/ \E e \in Export : Begin(e) \/ Connect(e) \/ ReadSource(e) \/ Flush(e) \/ Fail(e) \/ Cleanup(e)
      \/ CrashService \/ UNCHANGED vars
      => UNCHANGED <<dir, cands, removals>>
  BY DEF Commit, Begin, Connect, ReadSource, Flush, Fail, Cleanup, CrashService, vars, reading,
         faults
<1>7. CASE UNCHANGED <<dir, cands, removals>>
  BY <1>7
<1> QED
  BY <1>1, <1>2, <1>3, <1>4, <1>5, <1>6, <1>7, Cases

\* Readers of the directory see complete backups, for any exports, failures
\* and crashes, and at most one empty file for each deletion
\* (snapshot.py:55-84, assets.py:218).
THEOREM VisibleCompleteHolds == Spec => []VisibleComplete
<1>1. Init => LostInv
  <2>1. Init => Lost = {}
    BY DEF Init, Lost, Visible, NoFile, Stub
  <2>2. Init => removals = 0
    BY DEF Init
  <2> QED
    BY <2>1, <2>2, FS_EmptySet DEF LostInv
<1>2. IInv /\ LostInv /\ [Next]_vars => LostInv'
  <2> SUFFICES ASSUME IInv, LostInv, [Next]_vars PROVE LostInv'
    OBVIOUS
  <2>1. removals \in Nat /\ Cardinality(Lost) \in Nat
    BY FS_CardinalityType DEF LostInv, IInv, TypeOK
  <2>2. CASE removals' = removals /\ Lost' \subseteq Lost
    <3>1. IsFiniteSet(Lost') /\ Cardinality(Lost') <= Cardinality(Lost)
      BY <2>2, FS_Subset DEF LostInv
    <3>2. Cardinality(Lost') \in Nat
      BY <3>1, FS_CardinalityType
    <3> QED
      BY <2>1, <2>2, <3>1, <3>2 DEF LostInv
  <2>3. ASSUME NEW n \in Name, removals' = removals + 1, Lost' \subseteq Lost \cup {n}
        PROVE  LostInv'
    <3>0. \A S : IsFiniteSet(S) =>
            /\ IsFiniteSet(S \cup {n})
            /\ Cardinality(S \cup {n}) = Cardinality(S) \/ Cardinality(S \cup {n}) = Cardinality(S) + 1
      BY FS_AddElement
    <3>1. IsFiniteSet(Lost \cup {n}) /\ Cardinality(Lost \cup {n}) <= Cardinality(Lost) + 1
      BY <2>1, <3>0 DEF LostInv
    <3>2. IsFiniteSet(Lost') /\ Cardinality(Lost') <= Cardinality(Lost \cup {n})
      BY <2>3, <3>1, FS_Subset
    <3>3. Cardinality(Lost') \in Nat /\ Cardinality(Lost \cup {n}) \in Nat
      BY <3>1, <3>2, FS_CardinalityType
    <3> QED
      BY <2>1, <2>3, <3>1, <3>2, <3>3 DEF LostInv
  <2> QED
    BY <2>2, <2>3, LostStep
<1>3. IInv /\ LostInv => VisibleComplete
  <2> SUFFICES ASSUME IInv, LostInv PROVE VisibleComplete
    OBVIOUS
  <2> DEFINE Empty == {n \in Visible : dir[n].of = NoSource}
  <2>1. Empty \subseteq Lost
    BY DEF Lost, Visible
  <2>2. IsFiniteSet(Empty) /\ Cardinality(Empty) <= Cardinality(Lost)
    BY <2>1, FS_Subset DEF LostInv
  <2>3. Cardinality(Empty) \in Nat /\ Cardinality(Lost) \in Nat /\ removals \in Nat
    BY <2>2, FS_CardinalityType DEF LostInv, IInv, TypeOK
  <2>4. Cardinality(Empty) <= removals
    BY <2>2, <2>3 DEF LostInv
  <2> QED
    BY <2>4 DEF VisibleComplete
<1> QED
  BY Invariant, <1>1, <1>2, <1>3, PTL DEF Spec

-----------------------------------------------------------------------------
(* What an answer promises, and which snapshot is the newest.              *)

Alone == OneAtATime \/ Testing

\* Exports of one source do not overlap, so they take ever newer data.
LockInv ==
  Alone => \A e, f \in Export :
    pc[e] \in Exporting /\ pc[f] \in Exporting /\ source[e] = source[f] => e = f
OrderInv ==
  Testing => \A e, f \in Export :
    pc[e] = "answered" /\ pc[f] \in Exporting /\ source[e] = source[f] => since[e] <= since[f]
FreshInv ==
  Alone => \A f \in Export, n \in Name : dir[n].of = source[f] =>
    /\ pc[f] \in {"flush", "replace"} => dir[n].version <= copy[f].version
    /\ pc[f] = "replace" => dir[n].mtime < copy[f].mtime

Quiet == UNCHANGED <<dir, pc, copy, since>>

LEMMA QuietCases ==
  ASSUME [Next]_vars
  PROVE  \/ \E e \in Export : Begin(e)
         \/ \E e \in Export : Connect(e) \/ Fail(e) \/ Cleanup(e)
         \/ \E e \in Export : ReadSource(e)
         \/ \E e \in Export : Flush(e)
         \/ \E e \in Export : Replace(e)
         \/ CrashService
         \/ \E n \in Name : Remove(n)
         \/ \E r \in Run : Summarize(r)
         \/ Quiet
<1> USE DEF Quiet, exporting
<1>1. \A s \in Source : Commit(s) => Quiet
  BY DEF Commit
<1>2. \A r \in Reader : List(r) \/ Pick(r) => Quiet
  BY DEF List, Pick
<1>3. Compare \/ Launch \/ Save \/ CrashDaemon \/ UNCHANGED vars => Quiet
  BY DEF Compare, Launch, Save, CrashDaemon, vars
<1> QED
  BY <1>1, <1>2, <1>3, Cases

LEMMA LockStep == IInv /\ LockInv /\ OrderInv /\ [Next]_vars => LockInv' /\ OrderInv'
<1> SUFFICES ASSUME IInv, LockInv, OrderInv, [Next]_vars PROVE LockInv' /\ OrderInv'
  OBVIOUS
<1> USE DEF LockInv, OrderInv, Alone, Exporting, Goto
<1>t. /\ pc \in [Export -> Exporting \cup {"new", "answered", "failed", "littered", "dead"}]
      /\ since \in [Export -> 0..MaxVersion] /\ version \in [Source -> 0..MaxVersion]
      /\ ExportInv
  BY DEF IInv, TypeOK
<1>1. ASSUME NEW e \in Export, Begin(e) PROVE LockInv' /\ OrderInv'
  BY <1>t, <1>1 DEF Begin, ExportInv
<1>2. ASSUME NEW e \in Export, Connect(e) \/ Fail(e) \/ Cleanup(e) PROVE LockInv' /\ OrderInv'
  BY <1>t, <1>2 DEF Connect, Fail, Cleanup
<1>3. ASSUME NEW e \in Export, ReadSource(e) \/ Flush(e) \/ Replace(e) PROVE LockInv' /\ OrderInv'
  BY <1>t, <1>3 DEF ReadSource, Flush, Replace
<1>4. CASE CrashService
  BY <1>t, <1>4 DEF CrashService
<1>5. CASE Quiet \/ (\E n \in Name : Remove(n)) \/ (\E r \in Run : Summarize(r))
  BY <1>t, <1>5 DEF Quiet, Remove, Summarize, exporting
<1> QED
  BY <1>1, <1>2, <1>3, <1>4, <1>5, QuietCases

LEMMA FreshStep == IInv /\ LockInv /\ FreshInv /\ [Next]_vars => FreshInv'
<1> SUFFICES ASSUME IInv, LockInv, FreshInv, [Next]_vars PROVE FreshInv'
  OBVIOUS
<1> USE DEF FreshInv, Exporting, Goto
<1>t. /\ pc \in [Export -> Exporting \cup {"new", "answered", "failed", "littered", "dead"}]
      /\ dir \in [Name -> File] /\ copy \in [Export -> File] /\ clock \in Nat
      /\ \A n \in Name : dir[n].mtime \in Nat /\ dir[n].version \in Nat
      /\ version \in [Source -> 0..MaxVersion] /\ ExportInv /\ DirInv
  BY DEF IInv, TypeOK, File, Time
<1>1. ASSUME NEW e \in Export, Begin(e) \/ Connect(e) \/ Fail(e) \/ Cleanup(e) PROVE FreshInv'
  BY <1>t, <1>1 DEF Begin, Connect, Fail, Cleanup
<1>2. ASSUME NEW e \in Export, ReadSource(e) PROVE FreshInv'
  BY <1>t, <1>2 DEF ReadSource, DirInv
<1>3. ASSUME NEW e \in Export, Flush(e) PROVE FreshInv'
  BY <1>t, <1>3 DEF Flush, DirInv
<1>4. ASSUME NEW e \in Export, Replace(e) PROVE FreshInv'
  <2>1. copy[e].of = source[e]
    BY <1>t, <1>4 DEF Replace, ExportInv
  <2> QED
    BY <1>t, <1>4, <2>1 DEF Replace, LockInv
<1>5. CASE CrashService
  BY <1>t, <1>5 DEF CrashService
<1>6. ASSUME NEW n \in Name, Remove(n) PROVE FreshInv'
  BY <1>t, <1>6 DEF Remove, NoFile, Stub, exporting
<1>7. ASSUME NEW r \in Run, Summarize(r) PROVE FreshInv'
  <2>1. \A f \in Export, t \in Nat : Stub(t).of # source[f]
    BY DEF Stub
  <2> QED
    BY <1>t, <1>7, <2>1 DEF Summarize, exporting
<1>8. CASE Quiet
  BY <1>t, <1>8 DEF Quiet
<1> QED
  BY <1>1, <1>2, <1>3, <1>4, <1>5, <1>6, <1>7, <1>8, QuietCases

\* Where exports of a source cannot overlap, each takes data at least as new
\* as every snapshot of it in sight.
THEOREM LocksHold == Spec => [](LockInv /\ OrderInv /\ FreshInv)
<1>1. Init => LockInv /\ OrderInv /\ FreshInv
  BY DEF Init, LockInv, OrderInv, FreshInv, Exporting
<1> QED
  BY Invariant, LockStep, FreshStep, <1>1, PTL DEF Spec

\* The names of the main API, or those of a testing API whose tests and
\* snapshots do not combine to the same name.
GoodNames == TimestampedNames \/ (Testing /\ NamesTellTests)

LEMMA AnswerStep ==
  ASSUME GoodNames, IInv, OrderInv, AnswerHolds, [Next]_vars
  PROVE  AnswerHolds'
<1> USE DEF AnswerHolds, Exporting, Goto
<1>t. /\ pc \in [Export -> Exporting \cup {"new", "answered", "failed", "littered", "dead"}]
      /\ dir \in [Name -> File] /\ copy \in [Export -> File]
      /\ \A e \in Export : since[e] \in Nat /\ copy[e].version \in Nat
      /\ since \in [Export -> 0..MaxVersion] /\ ExportInv
  BY DEF IInv, TypeOK, File
<1>1. ASSUME NEW e \in Export, Begin(e) \/ Connect(e) \/ Fail(e) \/ Cleanup(e) PROVE AnswerHolds'
  BY <1>t, <1>1 DEF Begin, Connect, Fail, Cleanup
<1>2. ASSUME NEW e \in Export, ReadSource(e) \/ Flush(e) PROVE AnswerHolds'
  BY <1>t, <1>2 DEF ReadSource, Flush
<1>3. ASSUME NEW e \in Export, Replace(e) PROVE AnswerHolds'
  <2>1. copy[e].of = source[e] /\ since[e] <= copy[e].version /\ dir' = [dir EXCEPT ![out[e]] = copy[e]]
    BY <1>t, <1>3 DEF Replace, ExportInv
  <2>2. SUFFICES ASSUME NEW f \in Export, pc'[f] = "answered", dir'[out[f]].of # NoSource
                 PROVE  dir'[out[f]].of = source[f] /\ since'[f] <= dir'[out[f]].version
    OBVIOUS
  <2>3. CASE f = e
    BY <1>t, <1>3, <2>1, <2>3 DEF Replace
  <2>4. CASE f # e /\ out[f] # out[e]
    BY <1>t, <1>3, <2>1, <2>2, <2>4 DEF Replace
  <2>5. CASE f # e /\ out[f] = out[e]
    <3>1. Testing /\ source[f] = source[e]
      BY <2>5 DEF GoodNames, TimestampedNames, NamesTellTests
    <3>2. since[f] <= since[e]
      BY <1>t, <1>3, <2>2, <2>5, <3>1 DEF Replace, OrderInv
    <3> QED
      BY <1>t, <1>3, <2>1, <2>5, <3>1, <3>2 DEF Replace
  <2> QED
    BY <2>3, <2>4, <2>5
<1>4. CASE CrashService
  BY <1>t, <1>4 DEF CrashService
<1>5. ASSUME NEW n \in Name, Remove(n) PROVE AnswerHolds'
  BY <1>t, <1>5 DEF Remove, NoFile, Stub, exporting
<1>6. ASSUME NEW r \in Run, Summarize(r) PROVE AnswerHolds'
  BY <1>t, <1>6 DEF Summarize, Stub, exporting
<1>7. CASE Quiet
  BY <1>t, <1>7 DEF Quiet
<1> QED
  BY <1>1, <1>2, <1>3, <1>4, <1>5, <1>6, <1>7, QuietCases

\* The path in an answer holds the data of the database that was asked for,
\* no older than the request, however many exports there are and whatever
\* they are interleaved with (snapshot.py:70-75).
THEOREM AnswerHoldsAlways == GoodNames => (Spec => []AnswerHolds)
<1> SUFFICES ASSUME GoodNames PROVE Spec => []AnswerHolds
  OBVIOUS
<1>1. Init => AnswerHolds
  BY DEF Init, AnswerHolds
<1>2. IInv /\ OrderInv /\ AnswerHolds /\ [Next]_vars => AnswerHolds'
  BY AnswerStep
<1> QED
  BY Invariant, LocksHold, <1>1, <1>2, PTL DEF Spec

LEMMA NewestStep ==
  ASSUME IInv, FreshInv, NewestHasNewestData, [Next]_vars
  PROVE  NewestHasNewestData'
<1> USE DEF NewestHasNewestData, Visible
<1>t. /\ dir \in [Name -> File] /\ copy \in [Export -> File] /\ ExportInv
      /\ \A n \in Name : dir[n].mtime \in Nat /\ dir[n].version \in Nat
      /\ \A e \in Export : copy[e].mtime \in Nat /\ copy[e].version \in Nat
  BY DEF IInv, TypeOK, File, Time
<1>1. ASSUME NEW e \in Export, Replace(e) PROVE NewestHasNewestData'
  <2>1. copy[e].of = source[e] /\ pc[e] = "replace" /\ dir' = [dir EXCEPT ![out[e]] = copy[e]]
    BY <1>t, <1>1 DEF Replace, ExportInv
  <2>2. Alone => \A n \in Name : dir[n].of = source[e] =>
          dir[n].version <= copy[e].version /\ dir[n].mtime < copy[e].mtime
    BY <2>1 DEF FreshInv
  <2> QED
    BY <1>t, <2>1, <2>2 DEF Alone
<1>2. ASSUME NEW n \in Name, Remove(n) PROVE NewestHasNewestData'
  BY <1>t, <1>2 DEF Remove, NoFile, Stub
<1>3. ASSUME NEW r \in Run, Summarize(r) PROVE NewestHasNewestData'
  BY <1>t, <1>3 DEF Summarize, Stub
<1>4. CASE UNCHANGED dir
  BY <1>4
<1>5. \/ \E e \in Export : Begin(e) \/ Connect(e) \/ ReadSource(e) \/ Flush(e) \/ Fail(e) \/ Cleanup(e)
      \/ CrashService \/ Quiet
      => UNCHANGED dir
  BY DEF Begin, Connect, ReadSource, Flush, Fail, Cleanup, CrashService, Quiet
<1> QED
  BY <1>1, <1>2, <1>3, <1>4, <1>5, QuietCases

\* Newest by time of modification is newest by content (assets.py:69) where
\* exports of a database do not overlap.
THEOREM NewestHasNewestDataHolds == Spec => []NewestHasNewestData
<1>1. Init => NewestHasNewestData
  BY DEF Init, NewestHasNewestData, Visible, NoFile, Stub
<1>2. IInv /\ FreshInv /\ NewestHasNewestData /\ [Next]_vars => NewestHasNewestData'
  BY NewestStep
<1> QED
  BY Invariant, LocksHold, <1>1, <1>2, PTL DEF Spec

\* The snapshot of a name only moves on to newer data of its test
\* (app_factory.py:516-518).
THEOREM NamedSnapshotAdvancesHolds == Spec => NamedSnapshotAdvances
<1> DEFINE Advances ==
      \A n \in Name :
        Testing /\ dir[n].of # NoSource /\ dir'[n].of = dir[n].of
          => dir[n].version <= dir'[n].version
<1>1. IInv /\ FreshInv /\ [Next]_vars => Advances \/ UNCHANGED vars
  <2> SUFFICES ASSUME IInv, FreshInv, [Next]_vars PROVE Advances
    OBVIOUS
  <2>t. /\ dir \in [Name -> File] /\ ExportInv
        /\ \A n \in Name : dir[n].version \in Nat
    BY DEF IInv, TypeOK, File
  <2>1. ASSUME NEW e \in Export, Replace(e) PROVE Advances
    <3>1. copy[e].of = source[e] /\ pc[e] = "replace" /\ dir' = [dir EXCEPT ![out[e]] = copy[e]]
      BY <2>t, <2>1 DEF Replace, ExportInv
    <3> QED
      BY <2>t, <3>1 DEF FreshInv, Alone
  <2>2. ASSUME NEW n \in Name, Remove(n) PROVE Advances
    BY <2>t, <2>2 DEF Remove, NoFile, Stub
  <2>3. ASSUME NEW r \in Run, Summarize(r) PROVE Advances
    BY <2>t, <2>3 DEF Summarize, Stub
  <2>4. CASE UNCHANGED dir
    BY <2>t, <2>4
  <2>5. \/ \E e \in Export : Begin(e) \/ Connect(e) \/ ReadSource(e) \/ Flush(e) \/ Fail(e) \/ Cleanup(e)
        \/ CrashService \/ Quiet
        => UNCHANGED dir
    BY DEF Begin, Connect, ReadSource, Flush, Fail, Cleanup, CrashService, Quiet
  <2> QED
    BY <2>1, <2>2, <2>3, <2>4, <2>5, QuietCases
<1> QED
  BY Invariant, LocksHold, <1>1, PTL DEF Spec, NamedSnapshotAdvances

-----------------------------------------------------------------------------
(* The sensor and the runs it requests.                                    *)

LaunchedInv == CursorIsLaunched /\ (at[Sensor] = "save" => at[saw[Sensor]] # "none")

LEMMA LaunchedStep == IInv /\ LaunchedInv /\ [Next]_vars => LaunchedInv'
<1> SUFFICES ASSUME IInv, LaunchedInv, [Next]_vars PROVE LaunchedInv'
  OBVIOUS
<1> USE DEF LaunchedInv, CursorIsLaunched, ReaderAt, Settle
<1>t. /\ at \in [Reader -> {"none", "start", "max", "picked", "launch", "save"} \cup RunOutcomes]
      /\ saw \in [Reader -> Time] /\ cursor \in Time \cup {-1}
      /\ Time \subseteq Reader /\ Sensor \in Reader /\ Sensor \notin Time
      /\ Run = Time /\ -1 \notin Time
  BY DEF IInv, TypeOK, Reader, Run, Time, Sensor
<1>1. ASSUME NEW r \in Reader, List(r) PROVE LaunchedInv'
  BY <1>t, <1>1 DEF List
<1>2. ASSUME NEW r \in Reader, Pick(r) PROVE LaunchedInv'
  BY <1>t, <1>2 DEF Pick
<1>3. ASSUME NEW r \in Run, Summarize(r) PROVE LaunchedInv'
  BY <1>t, <1>3 DEF Summarize
<1>4. CASE Compare
  BY <1>t, <1>4 DEF Compare
<1>5. CASE Launch
  BY <1>t, <1>5 DEF Launch
<1>6. CASE Save \/ CrashDaemon
  BY <1>t, <1>6 DEF Save, CrashDaemon
<1>7. CASE UNCHANGED reading
  BY <1>7 DEF reading
<1>8. \/ \E s \in Source : Commit(s)
      \/ \E e \in Export : Begin(e) \/ Connect(e) \/ ReadSource(e) \/ Flush(e) \/ Replace(e)
           \/ Fail(e) \/ Cleanup(e)
      \/ CrashService \/ (\E n \in Name : Remove(n)) \/ UNCHANGED vars
      => UNCHANGED reading
  BY DEF Commit, Begin, Connect, ReadSource, Flush, Replace, Fail, Cleanup, CrashService,
         Remove, vars, reading
<1> QED
  BY <1>1, <1>2, <1>3, <1>4, <1>5, <1>6, <1>7, <1>8, Cases

\* The saved cursor never passes a snapshot whose run was not launched, if
\* the daemon dies at any step of a tick (assets.py:423-424).
THEOREM CursorIsLaunchedHolds == Spec => []CursorIsLaunched
<1>1. Init => LaunchedInv
  BY DEF Init, LaunchedInv, CursorIsLaunched, Reader, Sensor
<1>2. LaunchedInv => CursorIsLaunched
  BY DEF LaunchedInv
<1> QED
  BY Invariant, LaunchedStep, <1>1, <1>2, PTL DEF Spec

\* With names of its own no export meets a file a reader has listed ...
NamesInv ==
  \A e \in Export : pc[e] # "answered" =>
    out[e] \notin Visible /\ \A r \in Reader : out[e] \notin cands[r]
\* ... and no two files have the same time, published or about to be.
TimesInv ==
  \A e \in Export : pc[e] = "replace" =>
    /\ \A f \in Export : pc[f] = "replace" /\ copy[f].mtime = copy[e].mtime => f = e
    /\ \A n \in Visible : dir[n].mtime # copy[e].mtime

LEMMA NamesStep ==
  ASSUME TimestampedNames, IInv, NamesInv, TimesInv, [Next]_vars
  PROVE  NamesInv' /\ TimesInv'
<1> USE DEF NamesInv, TimesInv, Visible, Goto
<1>t. /\ pc \in [Export -> Exporting \cup {"new", "answered", "failed", "littered", "dead"}]
      /\ dir \in [Name -> File] /\ copy \in [Export -> File] /\ clock \in Nat
      /\ cands \in [Reader -> SUBSET Name] /\ Run \subseteq Reader
      /\ \A n \in Name : dir[n].mtime \in Nat /\ dir[n].mtime <= clock
      /\ \A e \in Export : copy[e].mtime \in Nat /\ (pc[e] = "replace" => copy[e].mtime <= clock)
      /\ ReaderInv
  BY DEF IInv, TypeOK, File, Time, Reader, DirInv, ExportInv
<1> DEFINE Both == NamesInv /\ TimesInv
<1>1. ASSUME NEW e \in Export, Begin(e) \/ Connect(e) \/ Fail(e) \/ Cleanup(e) PROVE Both'
  BY <1>t, <1>1 DEF Begin, Connect, Fail, Cleanup, reading, Exporting
<1>2. ASSUME NEW e \in Export, ReadSource(e) PROVE Both'
  BY <1>t, <1>2 DEF ReadSource, reading
<1>3. ASSUME NEW e \in Export, Flush(e) PROVE Both'
  <2>1. clock' = clock + 1 /\ copy'[e].mtime = clock + 1 /\ \A f \in Export \ {e} : copy'[f] = copy[f]
    BY <1>t, <1>3 DEF Flush
  <2> QED
    BY <1>t, <1>3, <2>1 DEF Flush, reading
<1>4. ASSUME NEW e \in Export, Replace(e) PROVE Both'
  BY <1>t, <1>4 DEF Replace, TimestampedNames, reading
<1>5. CASE CrashService
  BY <1>t, <1>5 DEF CrashService, reading, Exporting
<1>6. ASSUME NEW n \in Name, Remove(n) PROVE Both'
  BY <1>t, <1>6 DEF Remove, NoFile, Stub, exporting, reading
<1>7. ASSUME NEW r \in Run, Summarize(r) PROVE Both'
  <2>1. \A e \in Export : pc[e] # "answered" => out[e] # path[r]
    BY <1>t, <1>7 DEF Summarize, ReaderInv
  <2>2. \A t \in Nat : Stub(t).mtime = t
    BY DEF Stub
  <2> QED
    BY <1>t, <1>7, <2>1, <2>2 DEF Summarize, Settle, exporting
<1>8. ASSUME NEW r \in Reader, List(r) \/ Pick(r) PROVE Both'
  BY <1>t, <1>8 DEF List, Pick, Settle, exporting
<1>9. CASE Compare \/ Launch \/ Save \/ CrashDaemon
  BY <1>t, <1>9 DEF Compare, Launch, Save, CrashDaemon, Settle, exporting
<1>10. CASE (\E s \in Source : Commit(s)) \/ UNCHANGED vars
  BY <1>t, <1>10 DEF Commit, vars, reading
<1> QED
  BY <1>1, <1>2, <1>3, <1>4, <1>5, <1>6, <1>7, <1>8, <1>9, <1>10, Cases

\* The time of a snapshot a run is requested for is past: no file gets it later.
Past(t) == t <= clock /\ \A e \in Export : pc[e] = "replace" => copy[e].mtime # t
PastInv ==
  /\ at[Sensor] \in {"launch", "save"} => Past(saw[Sensor])
  /\ \A r \in Run : r # 0 /\ at[r] # "none" => Past(r)

\* As long as the requested snapshot is there, the run does not miss it.
CoverInv ==
  \A r \in Run, m \in Visible : dir[m].mtime = r =>
    /\ at[r] = "max" => m \in cands[r]
    /\ at[r] = "picked" => dir[path[r]].mtime >= r \/ path[r] \notin Visible
    /\ at[r] = "done" => saw[r] >= r

LEMMA PastStep ==
  ASSUME IInv, TimesInv, PastInv, [Next]_vars
  PROVE  PastInv'
<1> USE DEF PastInv, Past, Goto
<1>t. /\ pc \in [Export -> Exporting \cup {"new", "answered", "failed", "littered", "dead"}]
      /\ dir \in [Name -> File] /\ copy \in [Export -> File] /\ clock \in Nat
      /\ at \in [Reader -> {"none", "start", "max", "picked", "launch", "save"} \cup RunOutcomes]
      /\ saw \in [Reader -> Time] /\ Time \subseteq Nat
      /\ Run = Time /\ Run \subseteq Reader /\ Sensor \in Reader /\ Sensor \notin Run
      /\ \A n \in Name : dir[n].mtime \in Nat /\ dir[n].mtime <= clock
  BY DEF IInv, TypeOK, File, Time, Run, Reader, DirInv, Sensor
<1>1. ASSUME NEW e \in Export, Begin(e) \/ Connect(e) \/ Fail(e) \/ Cleanup(e) \/ ReadSource(e)
      PROVE  PastInv'
  BY <1>t, <1>1 DEF Begin, Connect, Fail, Cleanup, ReadSource, reading, Exporting
<1>2. ASSUME NEW e \in Export, Flush(e) PROVE PastInv'
  <2>1. clock' = clock + 1 /\ copy'[e].mtime = clock + 1 /\ \A f \in Export \ {e} : copy'[f] = copy[f]
    BY <1>t, <1>2 DEF Flush
  <2> QED
    BY <1>t, <1>2, <2>1 DEF Flush, reading
<1>3. ASSUME NEW e \in Export, Replace(e) PROVE PastInv'
  BY <1>t, <1>3 DEF Replace, reading
<1>4. CASE CrashService
  BY <1>t, <1>4 DEF CrashService, reading, Exporting
<1>5. ASSUME NEW r \in Run, Summarize(r) PROVE PastInv'
  <2>1. /\ clock <= clock' /\ clock' \in Nat /\ pc' = pc /\ copy' = copy
        /\ at[r] # "none" /\ r # Sensor
        /\ \A q \in Reader \ {r} : at'[q] = at[q] /\ saw'[q] = saw[q]
    BY <1>t, <1>5 DEF Summarize, Settle, ReaderAt, exporting
  <2>2. \A t \in Nat : Past(t) => t <= clock' /\ \A e \in Export : pc'[e] = "replace" => copy'[e].mtime # t
    BY <1>t, <2>1
  <2> QED
    BY <1>t, <2>1, <2>2
<1>6. ASSUME NEW r \in Reader, List(r) \/ Pick(r) PROVE PastInv'
  BY <1>t, <1>6 DEF List, Pick, Settle, ReaderAt, exporting, RunOutcomes
<1>7. CASE Compare
  <2>1. path[Sensor] \in Name
    BY <1>t, <1>7 DEF Compare, IInv, ReaderInv, TypeOK
  <2> QED
    BY <1>t, <1>7, <2>1 DEF Compare, Settle, ReaderAt, exporting, TimesInv, Visible
<1>8. CASE Launch
  BY <1>t, <1>8 DEF Launch, exporting
<1>9. CASE Save \/ CrashDaemon
  BY <1>t, <1>9 DEF Save, CrashDaemon, Settle, ReaderAt, exporting
<1>10. CASE (\E s \in Source : Commit(s)) \/ (\E n \in Name : Remove(n)) \/ UNCHANGED vars
  BY <1>t, <1>10 DEF Commit, Remove, vars, reading, exporting
<1> QED
  BY <1>1, <1>2, <1>3, <1>4, <1>5, <1>6, <1>7, <1>8, <1>9, <1>10, Cases

LEMMA CoverStep ==
  ASSUME IInv, NamesInv, PastInv, CoverInv, [Next]_vars
  PROVE  CoverInv'
<1> USE DEF CoverInv, Visible
<1>t. /\ dir \in [Name -> File] /\ clock \in Nat
      /\ at \in [Reader -> {"none", "start", "max", "picked", "launch", "save"} \cup RunOutcomes]
      /\ cands \in [Reader -> SUBSET Name] /\ path \in [Reader -> Name \cup {NoName}]
      /\ saw \in [Reader -> Time] /\ Time \subseteq Nat
      /\ Run = Time /\ Run \subseteq Reader /\ Sensor \in Reader /\ Sensor \notin Run
      /\ \A n \in Name : dir[n].mtime \in Nat /\ dir[n].mtime <= clock
      /\ \A r \in Reader : at[r] = "picked" => path[r] \in Name /\ path[r] \in cands[r]
  BY DEF IInv, TypeOK, File, Time, Run, Reader, DirInv, ReaderInv, Sensor
<1>1. ASSUME NEW e \in Export, Replace(e) PROVE CoverInv'
  <2>1. /\ dir' = [dir EXCEPT ![out[e]] = copy[e]] /\ copy[e].mtime # 0
        /\ out[e] \notin Visible /\ \A r \in Reader : out[e] \notin cands[r]
    BY <1>1 DEF Replace, NamesInv, IInv, ExportInv
  <2>2. \A r \in Run : r # 0 /\ at[r] # "none" => copy[e].mtime # r
    BY <1>1 DEF Replace, PastInv, Past
  <2> QED
    BY <1>t, <1>1, <2>1, <2>2 DEF Replace, reading
<1>2. ASSUME NEW n \in Name, Remove(n) PROVE CoverInv'
  BY <1>t, <1>2 DEF Remove, NoFile, Stub, reading
<1>3. ASSUME NEW r \in Run, Summarize(r) PROVE CoverInv'
  <2>1. \A t \in Nat : Stub(t).mtime = t
    BY DEF Stub
  <2>2. \A q \in Run : q # 0 /\ at[q] # "none" => q <= clock
    BY DEF PastInv, Past
  <2>3. CASE UNCHANGED dir
    BY <1>t, <1>3, <2>3 DEF Summarize, Settle, ReaderAt, RunOutcomes
  <2>4. CASE path[r] \notin Visible /\ dir' = [dir EXCEPT ![path[r]] = Stub(clock')]
    BY <1>t, <1>3, <2>1, <2>2, <2>4 DEF Summarize, Settle, ReaderAt, RunOutcomes
  <2> QED
    BY <1>3, <2>3, <2>4 DEF Summarize
<1>4. ASSUME NEW r \in Reader, List(r) PROVE CoverInv'
  BY <1>t, <1>4 DEF List, Settle, ReaderAt
<1>5. ASSUME NEW r \in Reader, Pick(r) PROVE CoverInv'
  BY <1>t, <1>5 DEF Pick, Newest, Settle, ReaderAt
<1>6. CASE Compare \/ Save \/ CrashDaemon
  BY <1>t, <1>6 DEF Compare, Save, CrashDaemon, Settle, ReaderAt
<1>7. CASE Launch
  BY <1>t, <1>7 DEF Launch
<1>8. CASE UNCHANGED <<dir, reading>>
  BY <1>8 DEF reading
<1>9. \/ \E s \in Source : Commit(s)
      \/ \E e \in Export : Begin(e) \/ Connect(e) \/ ReadSource(e) \/ Flush(e) \/ Fail(e) \/ Cleanup(e)
      \/ CrashService \/ UNCHANGED vars
      => UNCHANGED <<dir, reading>>
  BY DEF Commit, Begin, Connect, ReadSource, Flush, Fail, Cleanup, CrashService, vars, reading
<1> QED
  BY <1>1, <1>2, <1>3, <1>4, <1>5, <1>6, <1>7, <1>8, <1>9, Cases

\* The sensor does not watch the directory of the testing API.
TestingInv == Testing => \A r \in Run : r # 0 => at[r] = "none"

LEMMA TestingStep == IInv /\ TestingInv /\ [Next]_vars => TestingInv'
<1> SUFFICES ASSUME IInv, TestingInv, Testing, [Next]_vars PROVE TestingInv'
  BY DEF TestingInv
<1> USE DEF TestingInv, Settle, ReaderAt
<1>t. /\ at \in [Reader -> {"none", "start", "max", "picked", "launch", "save"} \cup RunOutcomes]
      /\ Run \subseteq Reader /\ Sensor \in Reader /\ Sensor \notin Run
  BY DEF IInv, TypeOK, Run, Reader, Time, Sensor
<1>1. ASSUME NEW r \in Reader, List(r) \/ Pick(r) PROVE TestingInv'
  BY <1>t, <1>1 DEF List, Pick
<1>2. ASSUME NEW r \in Run, Summarize(r) PROVE TestingInv'
  BY <1>t, <1>2 DEF Summarize
<1>3. CASE CrashDaemon
  BY <1>t, <1>3 DEF CrashDaemon
<1>4. CASE UNCHANGED at
  BY <1>4
<1>5. \/ \E s \in Source : Commit(s)
      \/ \E e \in Export : Begin(e) \/ Connect(e) \/ ReadSource(e) \/ Flush(e) \/ Replace(e)
           \/ Fail(e) \/ Cleanup(e)
      \/ CrashService \/ (\E n \in Name : Remove(n)) \/ UNCHANGED vars
      => UNCHANGED at
  BY DEF Commit, Begin, Connect, ReadSource, Flush, Replace, Fail, Cleanup, CrashService,
         Remove, vars, reading
<1> QED
  BY <1>1, <1>2, <1>3, <1>4, <1>5, Cases

\* A run summarises the snapshot it was requested for or a newer one, unless
\* that one was deleted, although it looks for the newest itself
\* (assets.py:79) while exports and removals go on.
THEOREM SummaryCoversRequestHolds ==
  TimestampedNames \/ Testing => (Spec => []SummaryCoversRequest)
<1>1. CASE TimestampedNames
  <2>1. Init => NamesInv /\ TimesInv /\ PastInv /\ CoverInv
    <3>1. Init => \A n \in Name : n \notin Visible
      BY DEF Init, Visible, NoFile, Stub
    <3>2. Init => NamesInv /\ TimesInv /\ CoverInv
      BY <3>1 DEF Init, NamesInv, TimesInv, CoverInv, Reader, Visible
    <3>3. Init => PastInv
      BY NameAssumption DEF Init, PastInv, Reader, Run, Time, Sensor
    <3> QED
      BY <3>2, <3>3
  <2>2. IInv /\ NamesInv /\ TimesInv /\ [Next]_vars => NamesInv' /\ TimesInv'
    BY <1>1, NamesStep
  <2>3. IInv /\ TimesInv /\ PastInv /\ [Next]_vars => PastInv'
    BY PastStep
  <2>4. IInv /\ NamesInv /\ PastInv /\ CoverInv /\ [Next]_vars => CoverInv'
    BY CoverStep
  <2>5. CoverInv => SummaryCoversRequest
    BY DEF CoverInv, SummaryCoversRequest
  <2> QED
    BY Invariant, <2>1, <2>2, <2>3, <2>4, <2>5, PTL DEF Spec
<1>2. CASE Testing
  <2>1. Init => TestingInv
    BY NameAssumption DEF Init, TestingInv, Reader, Run, Time, Sensor
  <2>2. IInv /\ TestingInv => SummaryCoversRequest
    BY <1>2 DEF IInv, TypeOK, TestingInv, SummaryCoversRequest, Reader, Run, Time
  <2> QED
    BY Invariant, TestingStep, <2>1, <2>2, PTL DEF Spec
<1> QED
  BY <1>1, <1>2
=============================================================================
