----------------------------- MODULE Controller -----------------------------
(***************************************************************************)
(* The process of the two APIs (main.py): the main thread that binds both  *)
(* servers, starts a thread for each, polls, and stops them; the serving   *)
(* loops, with one request at a time; the signal handler, which runs on    *)
(* the main thread between any two of its steps; and other callers of      *)
(* stop().                                                                 *)
(*                                                                         *)
(* Werkzeug's server ends the process itself when it cannot bind, and its  *)
(* thread closes the socket when the loop ends.                            *)
(***************************************************************************)
EXTENDS Integers, Sequences

CONSTANTS
  Caller,        \* threads that may call stop() besides the main one
  MaxSignals,    \* bound on signals
  MaxDeaths,     \* bound on loops that die
  MaxRequests,   \* bound on the requests a server takes
  BindsFail      \* may a port be in use?

ASSUME ControllerAssumption ==
  /\ MaxSignals \in Nat /\ MaxDeaths \in Nat /\ MaxRequests \in Nat
  /\ BindsFail \in BOOLEAN /\ "main" \notin Caller

Server == {"main", "testing"}   \* the order of controller.threads
Stopper == Caller \cup {"main"}

\* What the main thread does next; up to the handlers a signal kills the process.
Building == {"config", "main_app", "bind_main", "testing_app", "bind_testing", "handlers"}
Stages == Building \cup {"start", "poll", "poll_set", "poll_held", "sleep", "stop", "exit"}
Stopping == {"idle", "flag", "flag_held", "shut", "wait", "close", "join", "returned"}
Failures == {"config_error", "bind_error", "app_error", "system_exit", "killed"}

VARIABLES
  pc,         \* the main thread's stage
  outcome,    \* how run() ended
  socket,     \* socket[s]: "none", "open" or "closed"
  loop,       \* loop[s]: what the thread of s does
  asked,      \* asked[s]: the server's shutdown request
  isShut,     \* isShut[s]: the server's event "is shut down"
  taken,      \* taken[s]: requests accepted
  answered,   \* answered[s]: requests answered
  flag,       \* the event _stop ...
  lock,       \* ... and the lock inside it
  frames,     \* the handlers that interrupt the main thread, innermost last
  signals,    \* signals so far
  deaths,     \* loops that died so far
  started,    \* _shutdown_started
  at,         \* at[c]: where in stop() caller c is
  turn        \* turn[c]: the servers c has still to shut down

serving == <<socket, loop, asked, isShut, taken, answered, deaths>>
stopping == <<started, at, turn>>
signalling == <<flag, lock, frames, signals>>
vars == <<pc, outcome, serving, stopping, signalling>>

TypeOK ==
  /\ pc \in Stages /\ outcome \in {"none", "ok"} \cup Failures
  /\ socket \in [Server -> {"none", "open", "closed"}]
  /\ loop \in [Server -> {"unborn", "started", "idle", "busy", "ended", "over"}]
  /\ asked \in [Server -> BOOLEAN] /\ isShut \in [Server -> BOOLEAN]
  /\ taken \in [Server -> 0..MaxRequests] /\ answered \in [Server -> 0..MaxRequests]
  /\ flag \in BOOLEAN /\ lock \in BOOLEAN
  /\ frames \in Seq({"set", "held"}) /\ signals \in 0..MaxSignals /\ deaths \in 0..MaxDeaths
  /\ started \in BOOLEAN /\ at \in [Stopper -> Stopping]
  /\ turn \in [Stopper -> {<<"main", "testing">>, <<"testing">>, <<>>}]

Init ==
  /\ pc = "config" /\ outcome = "none"
  /\ socket = [s \in Server |-> "none"] /\ loop = [s \in Server |-> "unborn"]
  /\ asked = [s \in Server |-> FALSE] /\ isShut = [s \in Server |-> FALSE]
  /\ taken = [s \in Server |-> 0] /\ answered = [s \in Server |-> 0]
  /\ flag = FALSE /\ lock = FALSE /\ frames = <<>> /\ signals = 0 /\ deaths = 0
  /\ started = FALSE /\ at = [c \in Stopper |-> "idle"]
  /\ turn = [c \in Stopper |-> <<"main", "testing">>]

Running == outcome = "none"
MainFree == Running /\ frames = <<>>
End(how) == pc' = "exit" /\ outcome' = how

-----------------------------------------------------------------------------
(* Construction.                                                           *)

\* _load_config, _load_ports and _load_bind_hosts raise before anything is bound.
LoadConfig ==
  /\ MainFree /\ pc = "config"
  /\ \/ pc' = "main_app" /\ UNCHANGED outcome
     \/ End("config_error")
  /\ UNCHANGED <<serving, stopping, signalling>>

AppStage(s) == IF s = "main" THEN "main_app" ELSE "testing_app"
BindStage(s) == IF s = "main" THEN "bind_main" ELSE "bind_testing"
CloseAll == socket' = [s \in Server |-> IF socket[s] = "open" THEN "closed" ELSE socket[s]]

\* Mutant: the main server is not closed when the testing app cannot be created.
CreateAppLeaking(s) ==
  /\ MainFree /\ pc = AppStage(s)
  /\ \/ pc' = BindStage(s) /\ UNCHANGED outcome
     \/ End("app_error")
  /\ UNCHANGED <<serving, stopping, signalling>>

\* create_main_app opens the database; create_testing_app may raise as well,
\* and then the main server is closed.
CreateApp(s) ==
  /\ MainFree /\ pc = AppStage(s)
  /\ \/ pc' = BindStage(s) /\ UNCHANGED <<outcome, socket>>
     \/ End("app_error") /\ CloseAll
  /\ UNCHANGED <<loop, asked, isShut, taken, answered, deaths, stopping, signalling>>

\* make_server.  An OSError becomes a ConfigurationError; the SystemExit of
\* a failed bind passes the handlers of OSError and Exception.
Bind(s) ==
  /\ MainFree /\ pc = BindStage(s)
  /\ \/ /\ socket' = [socket EXCEPT ![s] = "open"]
        /\ pc' = (IF s = "main" THEN "testing_app" ELSE "handlers")
        /\ UNCHANGED outcome
     \/ End("bind_error") /\ CloseAll
     \/ BindsFail /\ End("system_exit") /\ UNCHANGED socket
  /\ UNCHANGED <<loop, asked, isShut, taken, answered, deaths, stopping, signalling>>

InstallHandlers ==
  /\ MainFree /\ pc = "handlers"
  /\ pc' = "start"
  /\ UNCHANGED <<outcome, serving, stopping, signalling>>

Start ==
  /\ MainFree /\ pc = "start"
  /\ \/ loop["main"] = "unborn" /\ loop' = [loop EXCEPT !["main"] = "started"] /\ UNCHANGED pc
     \/ /\ loop["main"] # "unborn"
        /\ loop' = [loop EXCEPT !["testing"] = "started"] /\ pc' = "poll"
  /\ UNCHANGED <<outcome, socket, asked, isShut, taken, answered, deaths, stopping,
                 signalling>>

-----------------------------------------------------------------------------
(* The serving loops: serve_forever of socketserver and Werkzeug.          *)

Serve(s) ==
  /\ Running
  /\ \/ /\ loop[s] = "started"                      \* isShut.clear()
        /\ isShut' = [isShut EXCEPT ![s] = FALSE]
        /\ loop' = [loop EXCEPT ![s] = "idle"]
        /\ UNCHANGED <<socket, asked, answered>>
     \/ /\ loop[s] = "busy"
        /\ answered' = [answered EXCEPT ![s] = @ + 1]
        /\ loop' = [loop EXCEPT ![s] = "idle"]
        /\ UNCHANGED <<socket, asked, isShut>>
     \/ /\ loop[s] = "idle" /\ asked[s]              \* the finally block
        /\ loop' = [loop EXCEPT ![s] = "ended"]
        /\ asked' = [asked EXCEPT ![s] = FALSE]
        /\ isShut' = [isShut EXCEPT ![s] = TRUE]
        /\ UNCHANGED <<socket, answered>>
     \/ /\ loop[s] = "ended"                         \* server_close() of the thread
        /\ loop' = [loop EXCEPT ![s] = "over"]
        /\ socket' = [socket EXCEPT ![s] = "closed"]
        /\ UNCHANGED <<asked, isShut, answered>>
  /\ UNCHANGED <<pc, outcome, taken, deaths, stopping, signalling>>

Accept(s) ==
  /\ Running /\ loop[s] = "idle" /\ ~asked[s]
  /\ socket[s] = "open" /\ taken[s] < MaxRequests
  /\ taken' = [taken EXCEPT ![s] = @ + 1]
  /\ loop' = [loop EXCEPT ![s] = "busy"]
  /\ UNCHANGED <<pc, outcome, socket, asked, isShut, answered, deaths, stopping, signalling>>

\* An exception the loop does not handle; its request is lost.
Die(s) ==
  /\ Running /\ loop[s] \in {"idle", "busy"} /\ deaths < MaxDeaths
  /\ loop' = [loop EXCEPT ![s] = "ended"]
  /\ answered' = [answered EXCEPT ![s] = taken[s]]
  /\ asked' = [asked EXCEPT ![s] = FALSE]
  /\ isShut' = [isShut EXCEPT ![s] = TRUE]
  /\ deaths' = deaths + 1
  /\ UNCHANGED <<pc, outcome, socket, taken, stopping, signalling>>

-----------------------------------------------------------------------------
(* Signals.                                                                *)

\* Before the handlers are there a signal ends the process.
Signal ==
  /\ Running /\ signals < MaxSignals
  /\ signals' = signals + 1
  /\ IF pc \in Building
       THEN End("killed") /\ UNCHANGED frames
       ELSE frames' = Append(frames, "set") /\ UNCHANGED <<pc, outcome>>
  /\ UNCHANGED <<serving, stopping, flag, lock>>

\* request_stop: Event.set() takes the lock of its condition, which is not
\* reentrant, sets the flag and notifies.
Handle ==
  /\ Running /\ frames # <<>>
  /\ LET top == Len(frames) IN
       \/ /\ frames[top] = "set" /\ ~lock
          /\ lock' = TRUE /\ flag' = TRUE
          /\ frames' = [frames EXCEPT ![top] = "held"]
       \/ /\ frames[top] = "held"
          /\ lock' = FALSE
          /\ frames' = SubSeq(frames, 1, top - 1)
          /\ UNCHANGED flag
  /\ UNCHANGED <<pc, outcome, serving, stopping, signals>>

-----------------------------------------------------------------------------
(* The poll.                                                               *)

Dead == \E s \in Server : loop[s] = "over"

\* Mutant: a dead thread goes unnoticed.
LookAtFlagOnly ==
  /\ MainFree /\ pc = "poll"
  /\ pc' = (IF flag THEN "stop" ELSE "sleep")
  /\ UNCHANGED <<outcome, serving, stopping, signalling>>

\* should_run ...
Look ==
  /\ MainFree /\ pc = "poll"
  /\ pc' = (IF flag THEN "stop" ELSE IF Dead THEN "poll_set" ELSE "sleep")
  /\ UNCHANGED <<outcome, serving, stopping, signalling>>

\* ... with its self._stop.set() ...
GiveUp ==
  /\ MainFree
  /\ \/ pc = "poll_set" /\ ~lock /\ lock' = TRUE /\ flag' = TRUE /\ pc' = "poll_held"
     \/ pc = "poll_held" /\ lock' = FALSE /\ pc' = "stop" /\ UNCHANGED flag
  /\ UNCHANGED <<outcome, serving, stopping, frames, signals>>

\* ... and the sleep.
Sleep ==
  /\ MainFree /\ pc = "sleep"
  /\ pc' = "poll"
  /\ UNCHANGED <<outcome, serving, stopping, signalling>>

-----------------------------------------------------------------------------
(* stop().                                                                 *)

CallerFree(c) == IF c = "main" THEN MainFree /\ pc = "stop" ELSE Running
Goto(c, step) == at' = [at EXCEPT ![c] = step]

\* The block under _shutdown_lock: the first caller goes on, others return.
Enter(c) ==
  /\ CallerFree(c) /\ at[c] = "idle" /\ pc \notin Building \cup {"start"}
  /\ started' = TRUE
  /\ Goto(c, IF started THEN "returned" ELSE "flag")
  /\ UNCHANGED <<pc, outcome, serving, signalling, turn>>

\* self._stop.set()
SetFlag(c) ==
  /\ CallerFree(c)
  /\ \/ at[c] = "flag" /\ ~lock /\ lock' = TRUE /\ flag' = TRUE /\ Goto(c, "flag_held")
     \/ at[c] = "flag_held" /\ lock' = FALSE /\ UNCHANGED flag /\ Goto(c, "shut")
  /\ UNCHANGED <<pc, outcome, serving, frames, signals, started, turn>>

\* Mutant: the request is made, but its end is not waited for.
AskAndClose(c) ==
  /\ CallerFree(c) /\ at[c] = "shut" /\ turn[c] # <<>>
  /\ asked' = [asked EXCEPT ![Head(turn[c])] = TRUE]
  /\ Goto(c, "close")
  /\ UNCHANGED <<pc, outcome, socket, loop, isShut, taken, answered, deaths,
                 signalling, started, turn>>

\* server.shutdown(): the request ...
Ask(c) ==
  /\ CallerFree(c) /\ at[c] = "shut" /\ turn[c] # <<>>
  /\ asked' = [asked EXCEPT ![Head(turn[c])] = TRUE]
  /\ Goto(c, "wait")
  /\ UNCHANGED <<pc, outcome, socket, loop, isShut, taken, answered, deaths,
                 signalling, started, turn>>

\* ... and the wait for the loop to end.
Wait(c) ==
  /\ CallerFree(c) /\ at[c] = "wait" /\ isShut[Head(turn[c])]
  /\ Goto(c, "close")
  /\ UNCHANGED <<pc, outcome, serving, signalling, started, turn>>

\* server_close()
Close(c) ==
  /\ CallerFree(c) /\ at[c] = "close"
  /\ socket' = [socket EXCEPT ![Head(turn[c])] = "closed"]
  /\ turn' = [turn EXCEPT ![c] = Tail(@)]
  /\ Goto(c, IF Len(turn[c]) = 1 THEN "join" ELSE "shut")
  /\ UNCHANGED <<pc, outcome, loop, asked, isShut, taken, answered, deaths,
                 signalling, started>>

\* join, for five seconds at most: longer than an idle loop or one that has
\* ended needs, but not than a request may need.
Join(c) ==
  /\ CallerFree(c) /\ at[c] = "join" /\ \A s \in Server : loop[s] \in {"over", "busy"}
  /\ Goto(c, "returned")
  /\ UNCHANGED <<pc, outcome, serving, signalling, started, turn>>

\* run() returns; the process ends with its daemon threads.
Return ==
  /\ MainFree /\ pc = "stop" /\ at["main"] = "returned"
  /\ End("ok")
  /\ UNCHANGED <<serving, stopping, signalling>>

Stop(c) == Enter(c) \/ SetFlag(c) \/ Ask(c) \/ Wait(c) \/ Close(c) \/ Join(c)

Main ==
  \/ LoadConfig \/ InstallHandlers \/ Start \/ Look \/ GiveUp \/ Sleep \/ Return
  \/ \E s \in Server : CreateApp(s) \/ Bind(s)

Done == ~Running /\ UNCHANGED vars

Next ==
  \/ Main
  \/ \E s \in Server : Serve(s) \/ Accept(s) \/ Die(s)
  \/ Signal \/ Handle
  \/ \E c \in Stopper : Stop(c)
  \/ Done

Spec == Init /\ [][Next]_vars

\* Every thread runs, a request ends, and a signal is handled; nobody but
\* main has to call stop().
FairSpec ==
  /\ Spec
  /\ WF_vars(Main) /\ WF_vars(Handle)
  /\ \A s \in Server : WF_vars(Serve(s))
  /\ \A c \in Stopper : WF_vars(Stop(c) /\ (c = "main" \/ at[c] # "idle"))

-----------------------------------------------------------------------------
(* Properties.                                                             *)

\* What the main thread has built by each stage, and that it does not get
\* ahead of the callers of stop().
StageInv ==
  /\ Running <=> pc # "exit"
  /\ outcome = "ok" => at["main"] = "returned"
  /\ pc \in Building \cup {"start"} => ~started /\ loop["testing"] = "unborn"
  /\ pc \in Building => loop["main"] = "unborn"
  /\ pc \in {"config", "main_app", "bind_main"} => socket["main"] = "none"
  /\ pc \in {"config", "main_app", "bind_main", "testing_app", "bind_testing"} =>
       socket["testing"] = "none"
  /\ pc \in {"testing_app", "bind_testing"} => socket["main"] = "open"
  /\ pc \in {"handlers", "start"} =>
       \A s \in Server : loop[s] = "unborn" => socket[s] = "open"

\* No loop serves on a closed socket, whoever closes it, because
\* server_close() follows the end of the loop (main.py:169-172); a loop that
\* has said so has ended; a request is in progress or answered.
LoopInv(s) ==
  /\ socket[s] = "closed" => loop[s] \in {"unborn", "ended", "over"}
  /\ loop[s] = "over" => socket[s] = "closed"
  /\ isShut[s] => loop[s] \in {"ended", "over"}
  /\ taken[s] = answered[s] + (IF loop[s] = "busy" THEN 1 ELSE 0)

\* The servers a caller of stop() has shut down: those before the ones it
\* has still to do, and, before it closes it, the one it is at.
StopInv(c) ==
  /\ at[c] # "idle" => started
  /\ at[c] \in {"idle", "flag", "flag_held"} => turn[c] = <<"main", "testing">>
  /\ at[c] \in {"shut", "wait", "close"} => turn[c] # <<>>
  /\ at[c] = "join" => turn[c] = <<>>
  /\ at[c] = "close" => isShut[Head(turn[c])]
  /\ \A s \in Server : turn[c] \in {<<>>, <<"testing">>} /\ (s = "main" \/ turn[c] = <<>>) =>
       isShut[s] /\ socket[s] = "closed" /\ (at[c] = "returned" => loop[s] = "over")

\* The first caller stays until both servers are done.
FirstInv ==
  started => \E c \in Stopper : at[c] # "idle" /\ (at[c] = "returned" => turn[c] = <<>>)

IInv ==
  /\ TypeOK /\ StageInv /\ FirstInv
  /\ \A s \in Server : LoopInv(s)
  /\ \A c \in Stopper : StopInv(c)

\* A construction that fails leaves no socket open, whichever step failed
\* (main.py:84-101), with one exception: the main server's stays open if the
\* testing server's bind ends with SystemExit, which neither handler catches.
\* Before the handlers are installed a signal kills the process with what it
\* had open.
NoLeak ==
  outcome \in Failures \ {"killed"} =>
    \A s \in Server : socket[s] = "open" => s = "main" /\ outcome = "system_exit"

\* Caller c is inside stop(); it is done with the server s.
InStop(c) == at[c] \notin {"idle", "returned"}
Passed(c, s) == turn[c] = <<>> \/ (turn[c] = <<"testing">> /\ s = "main")

\* When run() returns, both sockets are closed and no request that a server had
\* accepted is cut off, although the threads are daemons (main.py:165-176),
\* except on a server that another caller of stop() has still to shut down: the
\* main thread does not wait for that caller (main.py:160-163).  If there is
\* none, both loops are over.
Graceful ==
  outcome = "ok" =>
    /\ \A s \in Server : \/ socket[s] = "closed" /\ answered[s] = taken[s]
                         \/ \E c \in Caller : InStop(c) /\ ~Passed(c, s)
    /\ (\A s \in Server : loop[s] = "over") \/ \E c \in Caller : InStop(c)

\* The main thread waits for a lock that it holds itself: a handler has
\* interrupted Event.set, in another handler, in should_run or in stop().
SelfDeadlock ==
  /\ frames # <<>> /\ frames[Len(frames)] = "set"
  /\ \/ pc = "poll_held" \/ at["main"] = "flag_held"
     \/ \E i \in 1..(Len(frames) - 1) : frames[i] = "held"

\* A signal, or the death of one of the loops, ends the process
\* (main.py:144-148); only a signal that is not the first of these may
\* find the main thread inside Event.set, and keep it there for good.
StopsOrDeadlocks ==
  signals + deaths > 0 ~> ~Running \/ (SelfDeadlock /\ signals + deaths > 1)
=============================================================================
