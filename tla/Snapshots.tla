----------------------------- MODULE Snapshots -----------------------------
(***************************************************************************)
(* A directory of snapshots and all who use it without a lock: the         *)
(* exporter (snapshot.py), behind an endpoint of the main or the testing   *)
(* API, and the sensor and the summaries (assets.py), which look for the   *)
(* newest file.                                                            *)
(*                                                                         *)
(* A database is the number of its commits.  A temporary file stands for   *)
(* its -wal, -shm and -journal too; its name does not match *.sqlite.  The *)
(* clock counts the writes of files, so that no two have the same time of  *)
(* modification.                                                           *)
(***************************************************************************)
EXTENDS Integers, FiniteSets

CONSTANTS
  Export,       \* export requests
  Source,       \* databases
  Name,         \* names of snapshot files
  source,       \* source[e]: the database request e is about
  out,          \* out[e]: the name it exports to
  Testing,      \* is it the directory of the testing API?
  OneAtATime,   \* does the server handle one request after the other?
  NoSource, NoName,
  MaxVersion, MaxTime, MaxCrashes, MaxRemovals   \* bounds on commits, writes and faults

ASSUME NameAssumption ==
  /\ source \in [Export -> Source] /\ out \in [Export -> Name]
  /\ Testing \in BOOLEAN /\ OneAtATime \in BOOLEAN
  /\ NoSource \notin Source /\ NoName \notin Name
  /\ MaxVersion \in Nat /\ MaxTime \in Nat /\ MaxCrashes \in Nat /\ MaxRemovals \in Nat

\* Names of the main API carry the time, those of the testing API the test.
TimestampedNames == \A e, f \in Export : out[e] = out[f] => e = f
NamesTellTests == \A e, f \in Export : out[e] = out[f] => source[e] = source[f]

Time == 0..MaxTime

\* The sensor and the summary runs look for the newest file.  A run is named
\* by its run key, the time of the file it was requested for; run 0 is the
\* daily one.
Sensor == -1
Run == Time
Reader == Run \cup {Sensor}

File == [of : Source \cup {NoSource}, version : 0..MaxVersion, mtime : Time]
Stub(t) == [of |-> NoSource, version |-> 0, mtime |-> t]
NoFile == Stub(0)

Exporting == {"connect", "read", "flush", "replace", "cleanup"}
RunOutcomes == {"done", "failed", "error"}

VARIABLES
  version,  \* version[s]: commits of database s
  dir,      \* dir[n]: the snapshot of that name
  clock,    \* time of the last write of a file
  pc,       \* pc[e]: the step export e is about to take, or its outcome
  temp,     \* temp[e]: is its temporary file there?
  copy,     \* copy[e]: what the backup has taken
  since,    \* since[e]: the version of the source when e began
  at,       \* at[r]: the step reader r is about to take, or its outcome
  cands,    \* cands[r]: the files it has listed
  path,     \* path[r]: the one it has chosen
  saw,      \* saw[r]: the time of the snapshot it has read or examined
  cursor,   \* the sensor's cursor, -1 for none
  crashes,  \* crashes of the service and of the daemon so far
  removals  \* snapshots somebody has deleted so far

exporting == <<version, pc, temp, copy, since>>
reading == <<at, cands, path, saw, cursor>>
faults == <<crashes, removals>>
vars == <<version, dir, clock, pc, temp, copy, since, at, cands, path, saw, cursor,
          crashes, removals>>

TypeOK ==
  /\ version \in [Source -> 0..MaxVersion]
  /\ dir \in [Name -> File]
  /\ clock \in Time
  /\ pc \in [Export -> Exporting \cup {"new", "answered", "failed", "littered", "dead"}]
  /\ temp \in [Export -> BOOLEAN]
  /\ copy \in [Export -> File]
  /\ since \in [Export -> 0..MaxVersion]
  /\ at \in [Reader -> {"none", "start", "max", "picked", "launch", "save"} \cup RunOutcomes]
  /\ cands \in [Reader -> SUBSET Name]
  /\ path \in [Reader -> Name \cup {NoName}]
  /\ saw \in [Reader -> Time]
  /\ cursor \in Time \cup {-1}
  /\ crashes \in 0..MaxCrashes /\ removals \in 0..MaxRemovals

Init ==
  /\ version = [s \in Source |-> 0]
  /\ dir = [n \in Name |-> NoFile]
  /\ clock = 0
  /\ pc = [e \in Export |-> "new"]
  /\ temp = [e \in Export |-> FALSE]
  /\ copy = [e \in Export |-> NoFile]
  /\ since = [e \in Export |-> 0]
  /\ at = [r \in Reader |-> IF r \in {Sensor, 0} THEN "start" ELSE "none"]
  /\ cands = [r \in Reader |-> {}]
  /\ path = [r \in Reader |-> NoName]
  /\ saw = [r \in Reader |-> 0]
  /\ cursor = -1
  /\ crashes = 0 /\ removals = 0

Visible == {n \in Name : dir[n].mtime # 0}
Goto(e, stage) == pc' = [pc EXCEPT ![e] = stage]

-----------------------------------------------------------------------------
(* The exporter.                                                           *)

Commit(s) ==
  /\ version[s] < MaxVersion
  /\ version' = [version EXCEPT ![s] = @ + 1]
  /\ UNCHANGED <<dir, clock, pc, temp, copy, since, reading, faults>>

\* Mutant: the export does not hold the lock of its test.
BeginUnlocked(e) ==
  /\ pc[e] = "new"
  /\ Goto(e, "connect")
  /\ since' = [since EXCEPT ![e] = version[source[e]]]
  /\ UNCHANGED <<version, dir, clock, temp, copy, reading, faults>>

\* Exports of one test wait for its lock; with one thread all wait.
Begin(e) ==
  /\ pc[e] = "new"
  /\ \A f \in Export : pc[f] \in Exporting =>
       ~OneAtATime /\ (Testing => source[f] # source[e])
  /\ Goto(e, "connect")
  /\ since' = [since EXCEPT ![e] = version[source[e]]]
  /\ UNCHANGED <<version, dir, clock, temp, copy, reading, faults>>

\* sqlite3.connect creates the temporary file.
Connect(e) ==
  /\ pc[e] = "connect"
  /\ temp' = [temp EXCEPT ![e] = TRUE]
  /\ Goto(e, "read")
  /\ UNCHANGED <<version, dir, clock, copy, since, reading, faults>>

\* Mutant: the database file is copied, without what is still in its log.
ReadFileOnly(e) ==
  /\ pc[e] = "read"
  /\ copy' = [copy EXCEPT ![e] = [of |-> source[e], version |-> 0, mtime |-> 0]]
  /\ Goto(e, "flush")
  /\ UNCHANGED <<version, dir, clock, temp, since, reading, faults>>

\* conn.backup reads all pages in one read transaction ...
ReadSource(e) ==
  /\ pc[e] = "read"
  /\ copy' = [copy EXCEPT ![e] =
       [of |-> source[e], version |-> version[source[e]], mtime |-> 0]]
  /\ Goto(e, "flush")
  /\ UNCHANGED <<version, dir, clock, temp, since, reading, faults>>

\* ... and writes them, while others may commit to the source.
Flush(e) ==
  /\ pc[e] = "flush" /\ clock < MaxTime
  /\ clock' = clock + 1
  /\ copy' = [copy EXCEPT ![e] = [of |-> @.of, version |-> @.version, mtime |-> clock']]
  /\ Goto(e, "replace")
  /\ UNCHANGED <<version, dir, temp, since, reading, faults>>

\* Mutant: the file is renamed before the backup is written.
ReplaceUnfinished(e) ==
  /\ pc[e] \in {"flush", "replace"}
  /\ dir' = [dir EXCEPT ![out[e]] = IF pc[e] = "flush" THEN Stub(1) ELSE copy[e]]
  /\ temp' = [temp EXCEPT ![e] = FALSE]
  /\ Goto(e, "answered")
  /\ UNCHANGED <<version, clock, copy, since, reading, faults>>

\* The rename keeps the file's time of modification.  The answer follows.
Replace(e) ==
  /\ pc[e] = "replace"
  /\ dir' = [dir EXCEPT ![out[e]] = copy[e]]
  /\ temp' = [temp EXCEPT ![e] = FALSE]
  /\ Goto(e, "answered")
  /\ UNCHANGED <<version, clock, copy, since, reading, faults>>

\* An exception in the try block.
Fail(e) ==
  /\ pc[e] \in Exporting \ {"cleanup"}
  /\ Goto(e, "cleanup")
  /\ UNCHANGED <<version, dir, clock, temp, copy, since, reading, faults>>

\* The finally block; an error of unlink is swallowed and leaves the file.
Cleanup(e) ==
  /\ pc[e] = "cleanup"
  /\ \/ Goto(e, "failed") /\ temp' = [temp EXCEPT ![e] = FALSE]
     \/ Goto(e, "littered") /\ UNCHANGED temp
  /\ UNCHANGED <<version, dir, clock, copy, since, reading, faults>>

CrashService ==
  /\ crashes < MaxCrashes
  /\ \E e \in Export : pc[e] \in Exporting
  /\ pc' = [e \in Export |-> IF pc[e] \in Exporting THEN "dead" ELSE pc[e]]
  /\ crashes' = crashes + 1
  /\ UNCHANGED <<version, dir, clock, temp, copy, since, reading, removals>>

Remove(n) ==
  /\ n \in Visible /\ removals < MaxRemovals
  /\ dir' = [dir EXCEPT ![n] = NoFile]
  /\ removals' = removals + 1
  /\ UNCHANGED <<clock, exporting, reading, crashes>>

-----------------------------------------------------------------------------
(* The readers.                                                            *)

ReaderAt(r, stage) == at' = [at EXCEPT ![r] = stage]

\* The reader forgets its search and goes on, or ends.
Settle(r, stage) ==
  /\ ReaderAt(r, stage)
  /\ cands' = [cands EXCEPT ![r] = {}]
  /\ path' = [path EXCEPT ![r] = NoName]

\* glob; without a file the sensor skips its tick and a run fails.
List(r) ==
  /\ at[r] = "start"
  /\ IF Visible = {}
       THEN r # Sensor /\ Settle(r, "failed")
       ELSE ReaderAt(r, "max") /\ cands' = [cands EXCEPT ![r] = Visible] /\ UNCHANGED path
  /\ UNCHANGED <<dir, clock, exporting, saw, cursor, faults>>

Newest(n, names) == \A other \in names : dir[other].mtime <= dir[n].mtime

\* Mutant: any file is taken for the newest.
PickAny(r) ==
  /\ at[r] = "max"
  /\ \E n \in cands[r] : path' = [path EXCEPT ![r] = n]
  /\ ReaderAt(r, "picked")
  /\ UNCHANGED <<dir, clock, exporting, cands, saw, cursor, faults>>

\* Mutant: a listed file that is gone is tried again and again.
PickRetrying(r) ==
  /\ at[r] = "max" /\ cands[r] \subseteq Visible
  /\ \E n \in cands[r] : Newest(n, cands[r]) /\ path' = [path EXCEPT ![r] = n]
  /\ ReaderAt(r, "picked")
  /\ UNCHANGED <<dir, clock, exporting, cands, saw, cursor, faults>>

\* max(..., key=stat): a listed file that is gone raises FileNotFoundError,
\* which neither the sensor nor the summary expects.
Pick(r) ==
  /\ at[r] = "max"
  /\ IF cands[r] \subseteq Visible
       THEN /\ \E n \in cands[r] : Newest(n, cands[r]) /\ path' = [path EXCEPT ![r] = n]
            /\ ReaderAt(r, "picked")
            /\ UNCHANGED cands
       ELSE Settle(r, IF r = Sensor THEN "start" ELSE "error")
  /\ UNCHANGED <<dir, clock, exporting, saw, cursor, faults>>

\* Connect and count.  A file that is gone is created, empty, by the
\* connection; a database without tables fails the run.
Summarize(r) ==
  /\ r \in Run /\ at[r] = "picked"
  /\ LET n == path[r] IN
       \/ /\ n \notin Visible /\ clock < MaxTime
          /\ clock' = clock + 1
          /\ dir' = [dir EXCEPT ![n] = Stub(clock')]
          /\ Settle(r, "failed") /\ UNCHANGED saw
       \/ /\ n \in Visible /\ dir[n].of = NoSource
          /\ Settle(r, "failed") /\ UNCHANGED <<dir, clock, saw>>
       \/ /\ n \in Visible /\ dir[n].of # NoSource
          /\ saw' = [saw EXCEPT ![r] = dir[n].mtime]
          /\ Settle(r, "done") /\ UNCHANGED <<dir, clock>>
  /\ UNCHANGED <<exporting, cursor, faults>>

\* The second stat and the comparison with the cursor.
Compare ==
  /\ at[Sensor] = "picked"
  /\ LET mtime == dir[path[Sensor]].mtime IN
       IF mtime # 0 /\ mtime > cursor
         THEN /\ saw' = [saw EXCEPT ![Sensor] = mtime]
              /\ ReaderAt(Sensor, "launch") /\ UNCHANGED <<cands, path>>
         ELSE Settle(Sensor, "start") /\ UNCHANGED saw
  /\ UNCHANGED <<dir, clock, exporting, cursor, faults>>

\* The daemon launches the run, unless a run has that key, ...
Launch ==
  /\ at[Sensor] = "launch"
  /\ at' = [r \in Reader |->
       IF r = Sensor THEN "save"
       ELSE IF r = saw[Sensor] /\ at[r] = "none" THEN "start" ELSE at[r]]
  /\ UNCHANGED <<dir, clock, exporting, cands, path, saw, cursor, faults>>

\* ... and saves the cursor when the tick is over.
Save ==
  /\ at[Sensor] = "save"
  /\ cursor' = saw[Sensor]
  /\ Settle(Sensor, "start")
  /\ UNCHANGED <<dir, clock, exporting, saw, faults>>

\* The daemon dies in the middle of a tick and is restarted.
CrashDaemon ==
  /\ crashes < MaxCrashes
  /\ at[Sensor] # "start"
  /\ Settle(Sensor, "start")
  /\ crashes' = crashes + 1
  /\ UNCHANGED <<dir, clock, exporting, saw, cursor, removals>>

Tick == ~Testing /\ (List(Sensor) \/ Pick(Sensor) \/ Compare \/ Launch \/ Save)
Summary(r) == List(r) \/ Pick(r) \/ Summarize(r)
Step(e) == Connect(e) \/ ReadSource(e) \/ Flush(e) \/ Replace(e) \/ Cleanup(e)

Next ==
  \/ \E s \in Source : Commit(s)
  \/ \E e \in Export : Begin(e) \/ Step(e) \/ Fail(e)
  \/ CrashService
  \/ \E n \in Name : Remove(n)
  \/ Tick \/ CrashDaemon
  \/ \E r \in Run : Summary(r)

Spec == Init /\ [][Next]_vars

\* The sensor keeps ticking; nothing is assumed of exports and runs.
FairSpec == Spec /\ WF_vars(Tick)

-----------------------------------------------------------------------------
(* The inductive invariant.                                                *)

\* A file that may be seen, or is about to be, is as old as the clock says.
DirInv ==
  \A n \in Name :
    /\ dir[n].mtime <= clock
    /\ dir[n].of = NoSource \/ dir[n].version <= version[dir[n].of]
    /\ dir[n].of = NoSource => dir[n] = Stub(dir[n].mtime)

\* What an export has established at each step.
ExportInv ==
  \A e \in Export :
    /\ pc[e] # "new" => since[e] <= version[source[e]]
    /\ pc[e] \in {"flush", "replace"} =>
         /\ copy[e].of = source[e]
         /\ since[e] <= copy[e].version /\ copy[e].version <= version[source[e]]
    /\ pc[e] = "replace" => copy[e].mtime \in 1..clock

\* No temporary file outlives its export, but for a crash or a failed unlink.
NoStray ==
  \A e \in Export : temp[e] => pc[e] \in Exporting \cup {"littered", "dead"}

\* A reader has chosen one of the files it has listed.
ReaderInv ==
  \A r \in Reader :
    /\ at[r] = "picked" => path[r] \in cands[r]
    /\ r = Sensor /\ at[r] \in {"launch", "save"} => saw[r] # 0

IInv == TypeOK /\ DirInv /\ ExportInv /\ NoStray /\ ReaderInv

-----------------------------------------------------------------------------
(* Safety.                                                                 *)

\* Whoever lists the directory sees complete backups only, whatever crashed
\* or failed (snapshot.py:55-84), and of empty files no more than snapshots have
\* been deleted: only a reader that had listed one creates it, when it connects
\* (assets.py:218), and the readers of one snapshot create it once.
VisibleComplete == Cardinality({n \in Visible : dir[n].of = NoSource}) <= removals

\* The path a client was given holds the data of the database it asked for,
\* with everything committed before the request (snapshot.py:70-75): for
\* good in the testing API, where later exports replace it.
AnswerHolds ==
  \A e \in Export : pc[e] = "answered" =>
    LET f == dir[out[e]] IN f.of # NoSource => f.of = source[e] /\ since[e] <= f.version

\* "Newest by mtime" (assets.py:69) is newest by content: of two snapshots
\* of a database the younger file has no older data, if exports of the
\* database do not overlap.
NewestHasNewestData ==
  OneAtATime \/ Testing =>
    \A m, n \in Visible :
      dir[m].of = dir[n].of /\ dir[m].of # NoSource /\ dir[m].mtime <= dir[n].mtime
        => dir[m].version <= dir[n].version

\* A run that was requested for a snapshot summarises that one or a newer
\* one (it looks for the newest itself, assets.py:79), unless that one was
\* deleted.
SummaryCoversRequest ==
  \A r \in Run : at[r] = "done" /\ (\E n \in Visible : dir[n].mtime = r) => saw[r] >= r

\* The cursor never passes a snapshot whose run was not launched, whenever
\* the daemon dies (assets.py:423-424).
CursorIsLaunched == cursor # -1 => at[cursor] # "none"

\* A named snapshot of a test is never replaced by older data of the test:
\* the lock is held until the rename (app_factory.py:516-518).
NamedSnapshotAdvances ==
  [][\A n \in Name :
       Testing /\ dir[n].of # NoSource /\ dir'[n].of = dir[n].of
         => dir[n].version <= dir'[n].version]_vars

-----------------------------------------------------------------------------
(* Liveness.                                                               *)

\* When exports have ceased, the cursor has reached every file there is, and
\* the run of the one it stands at has been launched: the sensor does not stop
\* at files that appear, vanish and are listed without a lock, nor when the
\* daemon dies between launch and cursor (assets.py:397-424).
NewestRequested ==
  <>[](\A n \in Visible : dir[n].mtime <= cursor /\ at[cursor] # "none")
=============================================================================
