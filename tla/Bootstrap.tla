----------------------------- MODULE Bootstrap -----------------------------
(***************************************************************************)
(* How a process of the reporting service comes to know its files: threads *)
(* that first need the path helpers run _ensure_bootstrap (assets.py),     *)
(* which extends the import path (bootstrap.py) and binds three functions, *)
(* and the functions look for the root of the repository (paths.py).       *)
(*                                                                         *)
(* A directory is the set of the entries that matter in it; a place is the *)
(* sequence of directories from there up to the file system's root.        *)
(***************************************************************************)
EXTENDS Integers, Sequences

CONSTANTS
  Thread,      \* threads of the process
  Layout,      \* installations: the places of the code and of the working
               \* directory, and the import path the process starts with
  MaxImportFaults,   \* bound on imports that fail
  MaxRetries   \* bound on later ticks and runs

Entry == {"aggregation", "shared-logic", "reporting", "pyproject", "git"}
Function == {"repository_root", "snapshot_root", "test_snapshot_root"}
Nowhere == 0
SharedSrc == "shared-logic/src"
ServiceSrc == "reporting/src"

ASSUME BootstrapAssumption ==
  /\ Layout \subseteq [code : Seq(SUBSET Entry), cwd : Seq(SUBSET Entry),
                       path : Seq({SharedSrc, ServiceSrc, "other"})]
  /\ MaxImportFaults \in Nat /\ MaxRetries \in Nat

VARIABLES
  layout,  \* the installation the process runs from
  path,    \* sys.path
  event,   \* _paths_initialized_event
  lock,    \* the threads that hold _paths_init_lock
  bound,   \* the functions that are bound
  cached,  \* the root that repository_root has found, as a place and an index
  pc,      \* pc[t]: what thread t does next
  importFaults,  \* imports that failed so far
  retries  \* ticks and runs after the first so far

bootVars == <<layout, path, event, lock, bound, cached, pc, importFaults, retries>>

Places == {"code", "cwd"}
Stages == {"check", "acquire", "recheck", "shared", "service", "import", "bind", "set", "call",
           "found", "lost", "failed"}

BootTypeOK ==
  /\ layout \in Layout
  /\ path \in Seq({SharedSrc, ServiceSrc, "other"})
  /\ event \in BOOLEAN /\ lock \in SUBSET Thread /\ bound \in SUBSET Function
  /\ cached \in (Places \X Nat) \cup {<<"none", Nowhere>>}
  /\ pc \in [Thread -> Stages] /\ importFaults \in 0..MaxImportFaults
  /\ retries \in 0..MaxRetries

BootInit ==
  /\ layout \in Layout /\ path = layout.path
  /\ event = FALSE /\ lock = {} /\ bound = {} /\ cached = <<"none", Nowhere>>
  /\ pc = [t \in Thread |-> "check"] /\ importFaults = 0 /\ retries = 0

Goto(t, stage) == pc' = [pc EXCEPT ![t] = stage]

-----------------------------------------------------------------------------
(* The search for the root.                                                *)

\* _find_repo_root_from of paths.py looks for directories of this kind, ...
IsRoot(dir) == {"aggregation", "shared-logic", "pyproject"} \subseteq dir

\* ... find_repo_root of bootstrap.py for these.
IsMarked(dir) == dir \cap {"pyproject", "git"} # {}

\* Mutant: the outermost directory is taken.
FirstFromOutside(fits) ==
  IF fits = {} THEN Nowhere ELSE CHOOSE i \in fits : \A j \in fits : j <= i

\* The walk upwards stops at the first directory that fits.
First(fits) == IF fits = {} THEN Nowhere ELSE CHOOSE i \in fits : \A j \in fits : i <= j

Root(place) == First({i \in 1..Len(place) : IsRoot(place[i])})
Marked(place) == First({i \in 1..Len(place) : IsMarked(place[i])})

\* repository_root: from the module upwards, then from the working directory.
RepositoryRoot ==
  IF Root(layout.code) # Nowhere THEN <<"code", Root(layout.code)>>
  ELSE IF Root(layout.cwd) # Nowhere THEN <<"cwd", Root(layout.cwd)>>
  ELSE <<"none", Nowhere>>

-----------------------------------------------------------------------------
(* _ensure_bootstrap.                                                      *)

Check(t) ==
  /\ pc[t] = "check"
  /\ Goto(t, IF event THEN "call" ELSE "acquire")
  /\ UNCHANGED <<layout, path, event, lock, bound, cached, importFaults, retries>>

Acquire(t) ==
  /\ pc[t] = "acquire" /\ lock = {}
  /\ lock' = {t}
  /\ Goto(t, "recheck")
  /\ UNCHANGED <<layout, path, event, bound, cached, importFaults, retries>>

Recheck(t) ==
  /\ pc[t] = "recheck"
  /\ IF event THEN Goto(t, "call") /\ lock' = {} ELSE Goto(t, "shared") /\ UNCHANGED lock
  /\ UNCHANGED <<layout, path, event, bound, cached, importFaults, retries>>

\* The candidate goes to the front, if it exists and is not on the path.
Inserted(src, present) ==
  IF present /\ \A i \in 1..Len(path) : path[i] # src THEN <<src>> \o path ELSE path

\* The directories under the root; without a root the bootstrap raises.
RootDir == layout.code[Marked(layout.code)]
HasRoot == Marked(layout.code) # Nowhere

\* Mutant: the service's directory is inserted first.
InsertSwapped(t) ==
  /\ pc[t] \in {"shared", "service"} /\ HasRoot
  /\ \/ /\ pc[t] = "service" /\ path' = Inserted(SharedSrc, "shared-logic" \in RootDir)
        /\ Goto(t, "import")
     \/ /\ pc[t] = "shared" /\ path' = Inserted(ServiceSrc, "reporting" \in RootDir)
        /\ Goto(t, "service")
  /\ UNCHANGED <<layout, event, lock, bound, cached, importFaults, retries>>

\* ensure_repo_src_paths_for_service
Insert(t) ==
  /\ pc[t] \in {"shared", "service"} /\ HasRoot
  /\ \/ /\ pc[t] = "shared" /\ path' = Inserted(SharedSrc, "shared-logic" \in RootDir)
        /\ Goto(t, "service")
     \/ /\ pc[t] = "service" /\ path' = Inserted(ServiceSrc, "reporting" \in RootDir)
        /\ Goto(t, "import")
  /\ UNCHANGED <<layout, event, lock, bound, cached, importFaults, retries>>

Import(t) ==
  /\ pc[t] = "import"
  /\ Goto(t, "bind")
  /\ UNCHANGED <<layout, path, event, lock, bound, cached, importFaults, retries>>

\* Mutant: the event is set with the first assignment.
BindAfterSet(t) ==
  /\ pc[t] = "bind"
  /\ \E f \in Function \ bound : bound' = bound \cup {f}
  /\ event' = TRUE
  /\ Goto(t, IF bound' = Function THEN "set" ELSE "bind")
  /\ UNCHANGED <<layout, path, lock, cached, importFaults, retries>>

\* The three assignments, one by one.
Bind(t) ==
  /\ pc[t] = "bind"
  /\ \E f \in Function : f \notin bound /\ bound' = bound \cup {f}
  /\ Goto(t, IF bound' = Function THEN "set" ELSE "bind")
  /\ UNCHANGED <<layout, path, event, lock, cached, importFaults, retries>>

Set(t) ==
  /\ pc[t] = "set"
  /\ event' = TRUE /\ lock' = {}
  /\ Goto(t, "call")
  /\ UNCHANGED <<layout, path, bound, cached, importFaults, retries>>

\* Mutant: the thread tries again at once.
RaiseRetrying(t) ==
  /\ \/ pc[t] = "shared" /\ ~HasRoot /\ UNCHANGED importFaults
     \/ pc[t] = "import" /\ importFaults < MaxImportFaults /\ importFaults' = importFaults + 1
  /\ lock' = {}
  /\ Goto(t, "check")
  /\ UNCHANGED <<layout, path, event, bound, cached, retries>>

\* RepositoryRootNotFound or an import error leaves the block of the lock.
Raise(t) ==
  /\ \/ pc[t] = "shared" /\ ~HasRoot /\ UNCHANGED importFaults
     \/ pc[t] = "import" /\ importFaults < MaxImportFaults /\ importFaults' = importFaults + 1
  /\ lock' = {}
  /\ Goto(t, "failed")
  /\ UNCHANGED <<layout, path, event, bound, cached, retries>>

\* snapshot_root(): repository_root is cached, its exceptions are not.
Call(t) ==
  /\ pc[t] = "call"
  /\ cached' = IF cached[1] # "none" THEN cached ELSE RepositoryRoot
  /\ Goto(t, IF cached'[1] = "none" THEN "lost" ELSE "found")
  /\ UNCHANGED <<layout, path, event, lock, bound, importFaults, retries>>

\* The next tick or run starts over.
Again(t) ==
  /\ pc[t] \in {"found", "lost", "failed"} /\ retries < MaxRetries
  /\ Goto(t, "check")
  /\ retries' = retries + 1
  /\ UNCHANGED <<layout, path, event, lock, bound, cached, importFaults>>

Ensure(t) ==
  Check(t) \/ Acquire(t) \/ Recheck(t) \/ Insert(t) \/ Import(t) \/ Bind(t) \/ Set(t) \/ Raise(t)

AllDone ==
  /\ \A t \in Thread : pc[t] \in {"found", "lost", "failed"}
  /\ retries = MaxRetries /\ UNCHANGED bootVars

BootNext == (\E t \in Thread : Ensure(t) \/ Call(t) \/ Again(t)) \/ AllDone

BootSpec == BootInit /\ [][BootNext]_bootVars

\* Every thread runs.
FairBootSpec == BootSpec /\ \A t \in Thread : WF_bootVars(Ensure(t) \/ Call(t))

-----------------------------------------------------------------------------
(* Properties.                                                             *)

Holding == {"recheck", "shared", "service", "import", "bind", "set"}

\* Only the thread with the lock is in its block, no thread calls a function
\* that is not bound yet, although the event is read outside the lock
\* (assets.py:41), and what is cached is the root.
BlockInv ==
  /\ lock = {t \in Thread : pc[t] \in Holding}
  /\ \A t, u \in lock : t = u
  /\ event \/ (\E t \in Thread : pc[t] \in {"set", "call"}) => bound = Function
  /\ cached[1] # "none" => cached = RepositoryRoot

Has(roots, src) == \E i \in 1..Len(roots) : roots[i] = src
Once(roots) == \A i, j \in 1..Len(roots) : roots[i] = roots[j] /\ roots[i] # "other" => i = j
Before(a, b) == \E i, j \in 1..Len(path) : i < j /\ path[i] = a /\ path[j] = b

\* No source root is added that is on the path already, what the process
\* started with stays behind the roots that are added, and the service's comes
\* first unless the process started with it (bootstrap.py:45-58).
PathInOrder ==
  /\ Once(layout.path) => Once(path)
  /\ LET added == Len(path) - Len(layout.path) IN
       added >= 0 /\ \A i \in 1..Len(layout.path) : path[added + i] = layout.path[i]
  /\ Before(SharedSrc, ServiceSrc) => Has(layout.path, ServiceSrc)

\* Whoever inserts the service's root has seen to the shared one.
SharedSettled == HasRoot /\ "shared-logic" \in RootDir => Has(path, SharedSrc)
InsertInv ==
  /\ \A t \in Thread : pc[t] = "service" => SharedSettled
  /\ Has(path, ServiceSrc) => SharedSettled \/ Has(layout.path, ServiceSrc)

BootInv == BootTypeOK /\ BlockInv /\ PathInOrder /\ InsertInv

\* In a checkout, whose packages bear no marks of their own, the two searches
\* find the same directory, from wherever the process was started
\* (paths.py:29-36, bootstrap.py:24-38).
Checkout(place) ==
  \E i \in 1..Len(place) :
    Entry \ {"git"} \subseteq place[i] /\ \A j \in 1..(i - 1) : ~IsMarked(place[j])
RootsAgree ==
  cached[1] = "code" /\ Checkout(layout.code) => cached[2] = Marked(layout.code)

\* A thread that needs the functions gets an answer, though others fail.
BootstrapEnds == \A t \in Thread : (pc[t] = "check") ~> (pc[t] \in {"found", "lost", "failed"})
=============================================================================
