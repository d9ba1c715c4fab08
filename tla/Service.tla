------------------------------ MODULE Service ------------------------------
(***************************************************************************)
(* The children of the plugin: MicroMeetService (service.py) as connect(), *)
(* disconnect() and the watch loop of MicroMeetAdapter drive it.           *)
(*                                                                         *)
(* Calls are coroutines: each action runs from one await to the next.      *)
(* While a call waits, children exit, the loop fails, other calls run if   *)
(* Hermes makes them overlap, and Hermes may cancel the call.  Call c      *)
(* starts at most one daemon and one watcher, Daemon(c) and Watcher(c),    *)
(* and, if it connects, watch loop c.                                      *)
(*                                                                         *)
(* External: Hermes, "mm serve", the watcher and "mm status", which may    *)
(* give any answer at any time, whether or not a daemon of the plugin      *)
(* lives.                                                                  *)
(***************************************************************************)
EXTENDS Integers, FiniteSets

CONSTANTS
  None,
  MaxCalls,        \* bound: calls of connect and disconnect
  MaxCancels,      \* bound: calls that Hermes cancels
  MaxLongLines,    \* bound: stderr lines beyond the stream's limit
  Notifications,   \* what settings.notifications may be
  Autostart,       \* settings.autostart
  Orderly          \* Hermes makes one call at a time, and cleans up with
                   \* disconnect() after one that it cancelled

Call == 1..MaxCalls
Proc == {"daemon", "watcher"} \X Call
Actor == {"call", "loop"} \X Call
Daemon(c) == <<"daemon", c>>
Watcher(c) == <<"watcher", c>>

ASSUME ServiceAssumption ==
  /\ None \notin Call /\ None \notin Proc /\ None \notin Actor
  /\ {MaxCalls, MaxCancels, MaxLongLines} \subseteq Nat
  /\ Notifications \subseteq BOOLEAN
  /\ Autostart \in BOOLEAN /\ Orderly \in BOOLEAN

VARIABLES
  calls,          \* number of calls made
  pc,             \* where each call waits, or how it ended
  cancels,        \* number of calls cancelled
  running,        \* _running
  stopping,       \* _stopping
  watchTask,      \* _watch_task: the loop of this connect
  loop,           \* the watch loop that each connect created
  source,         \* the process that each loop reads
  watchProcess,   \* _watch_process
  daemonProcess,  \* _daemon_process
  proc,           \* the children
  stopper,        \* who waits in _stop_process for each child
  drained,        \* _stderr_tasks: children whose stderr is being read
  longLines,      \* number of overlong stderr lines
  notifications   \* settings.notifications

callVars == <<calls, pc, cancels>>
flagVars == <<running, stopping>>
loopVars == <<watchTask, loop, source>>
handleVars == <<watchProcess, daemonProcess>>
procVars == <<proc, stopper, drained>>
envVars == <<longLines, notifications>>
vars == <<callVars, flagVars, loopVars, handleVars, procVars, envVars>>

Connecting ==
  {"status", "spawn_daemon", "polling", "rejecting", "cursor",
   "spawn_watcher", "cleaning_watcher", "cleaning_daemon"}
Disconnecting == {"cancel_loop", "stopping_watcher", "stopping_daemon"}
Returned == {"connected", "failed", "raised", "disconnected", "cancelled"}
Active(c) == pc[c] \in Connecting \cup Disconnecting

TypeOK ==
  /\ calls \in 0..MaxCalls /\ cancels \in 0..MaxCancels
  /\ pc \in [Call -> {"new"} \cup Connecting \cup Disconnecting \cup Returned]
  /\ \A c \in Call : pc[c] = "new" <=> c > calls
  /\ running \in BOOLEAN /\ stopping \in BOOLEAN
  /\ watchTask \in Call \cup {None}
  /\ loop \in [Call -> {"none", "created", "reading", "closing", "done"}]
  /\ source \in [Call -> Proc \cup {None}]
  /\ watchProcess \in {Watcher(c) : c \in Call} \cup {None}
  /\ daemonProcess \in {Daemon(c) : c \in Call} \cup {None}
  /\ proc \in [Proc -> {"new", "up", "terminated", "dead"}]
  /\ stopper \in [Proc -> Actor \cup {None}]
  /\ drained \subseteq {p \in Proc : proc[p] \in {"up", "terminated"}}
  /\ longLines \in 0..MaxLongLines
  /\ notifications \in BOOLEAN

Init ==
  /\ calls = 0 /\ cancels = 0
  /\ pc = [c \in Call |-> "new"]
  /\ running = FALSE /\ stopping = FALSE
  /\ watchTask = None
  /\ loop = [c \in Call |-> "none"]
  /\ source = [c \in Call |-> None]
  /\ watchProcess = None /\ daemonProcess = None
  /\ proc = [p \in Proc |-> "new"]
  /\ stopper = [p \in Proc |-> None]
  /\ drained = {}
  /\ longLines = 0
  /\ notifications \in Notifications

-----------------------------------------------------------------------------
(* Children                                                                *)

\* There is a process, and its returncode is None.
Alive(p) == p \in Proc /\ proc[p] \in {"up", "terminated"}

Goto(c, place) ==
  /\ pc' = [pc EXCEPT ![c] = place]
  /\ UNCHANGED <<calls, cancels>>

\* create_subprocess_exec and _track_stderr.
Spawn(p) ==
  /\ proc' = [proc EXCEPT ![p] = "up"]
  /\ drained' = drained \cup {p}
  /\ UNCHANGED stopper

\* _stop_process up to its wait: SIGTERM, unless there is nothing to stop.
StopProcess(p, a) ==
  IF Alive(p)
  THEN /\ proc' = [proc EXCEPT ![p] = "terminated"]
       /\ stopper' = [stopper EXCEPT ![p] = a]
       /\ UNCHANGED drained
  ELSE UNCHANGED procVars

\* a is still in its wait for the child to exit.
WaitsForExit(a) ==
  \E p \in Proc : stopper[p] = a /\ proc[p] = "terminated"

\* stop_watcher and stop_owned_daemon take the handle before they wait.
StopWatcher(a) ==
  /\ watchProcess' = None
  /\ StopProcess(watchProcess, a)
  /\ UNCHANGED daemonProcess

StopOwnedDaemon(a) ==
  /\ daemonProcess' = None
  /\ StopProcess(daemonProcess, a)
  /\ UNCHANGED watchProcess

\* A cancelled actor leaves its wait, and with it the forced kill.
Abandon(a) ==
  stopper' = [p \in Proc |-> IF stopper[p] = a THEN None ELSE stopper[p]]

\* _set_fatal_error and _mark_disconnected.
NotRunning == running' = FALSE /\ UNCHANGED stopping

-----------------------------------------------------------------------------
(* Hermes                                                                  *)

\* In an orderly gateway a call begins when the one before it has ended.
MayCall(c) ==
  /\ c = calls + 1
  /\ Orderly => \A d \in Call : ~Active(d)

Begin(c, place) ==
  /\ calls' = c
  /\ pc' = [pc EXCEPT ![c] = place]
  /\ UNCHANGED cancels

CleanedUp == calls \in Call => pc[calls] # "cancelled"

\* connect() on a connected adapter returns at once.
ConnectAgain(c) ==
  /\ MayCall(c) /\ (Orderly => CleanedUp)
  /\ running
  /\ Begin(c, "connected")
  /\ UNCHANGED <<flagVars, loopVars, handleVars, procVars, envVars>>

BeginConnect(c) ==
  /\ MayCall(c) /\ (Orderly => CleanedUp)
  /\ ~running
  /\ stopping' = FALSE
  /\ Begin(c, "status")
  /\ UNCHANGED <<running, loopVars, handleVars, procVars, envVars>>

\* Mutant: the loop keeps running and is only told to stop.
BeginDisconnectNoCancel(c) ==
  /\ MayCall(c)
  /\ stopping' = TRUE
  /\ watchTask' = None
  /\ Begin(c, "cancel_loop")
  /\ UNCHANGED <<running, loop, source, handleVars, procVars, envVars>>

\* disconnect() cancels the watch loop wherever it waits.
BeginDisconnect(c) ==
  /\ MayCall(c)
  /\ stopping' = TRUE
  /\ watchTask' = None
  /\ IF watchTask = None
     THEN UNCHANGED <<loop, stopper>>
     ELSE loop' = [loop EXCEPT ![watchTask] = "done"]
          /\ Abandon(<<"loop", watchTask>>)
  /\ Begin(c, "cancel_loop")
  /\ UNCHANGED <<running, source, handleVars, proc, drained, envVars>>

\* CancelledError passes through every handler of connect and disconnect.
CancelCall(c) ==
  /\ cancels < MaxCancels
  /\ Active(c)
  /\ cancels' = cancels + 1
  /\ pc' = [pc EXCEPT ![c] = "cancelled"]
  /\ Abandon(<<"call", c>>)
  /\ UNCHANGED <<calls, flagVars, loopVars, handleVars, proc, drained, envVars>>

-----------------------------------------------------------------------------
(* connect()                                                               *)

\* The status is an error that does not call for a daemon.
StatusFails(c) ==
  /\ pc[c] = "status"
  /\ Goto(c, "failed") /\ NotRunning
  /\ UNCHANGED <<loopVars, handleVars, procVars, envVars>>

\* The status is daemon_unavailable, even if a daemon of the plugin lives.
StatusUnavailable(c) ==
  /\ pc[c] = "status"
  /\ Autostart
  /\ Goto(c, "spawn_daemon")
  /\ UNCHANGED <<flagVars, loopVars, handleVars, procVars, envVars>>

\* _start_daemon finds no executable, and ensure_status stops what it owns.
BinaryMissing(c) ==
  /\ pc[c] = "status"
  /\ Autostart
  /\ StopOwnedDaemon(<<"call", c>>)
  /\ Goto(c, "rejecting")
  /\ UNCHANGED <<flagVars, loopVars, envVars>>

\* The new daemon takes the handle, whatever it held.
SpawnDaemon(c) ==
  /\ pc[c] = "spawn_daemon"
  /\ Spawn(Daemon(c))
  /\ daemonProcess' = Daemon(c)
  /\ Goto(c, "polling")
  /\ UNCHANGED <<flagVars, loopVars, watchProcess, envVars>>

\* create_subprocess_exec raises out of connect().
SpawnDaemonFails(c) ==
  /\ pc[c] = "spawn_daemon"
  /\ Goto(c, "raised")
  /\ UNCHANGED <<flagVars, loopVars, handleVars, procVars, envVars>>

\* The poll reads the returncode of a handle that another call has cleared.
PollRaises(c) ==
  /\ pc[c] = "polling"
  /\ daemonProcess = None
  /\ Goto(c, "raised")
  /\ UNCHANGED <<flagVars, loopVars, handleVars, procVars, envVars>>

\* Mutant: a daemon that is not ready in time is forgotten, not terminated.
PollForgets(c) ==
  /\ pc[c] = "polling"
  /\ daemonProcess' = None
  /\ Goto(c, "rejecting")
  /\ UNCHANGED <<flagVars, loopVars, watchProcess, procVars, envVars>>

\* Mutant: the poll has no deadline.
PollForever(c) ==
  /\ pc[c] = "polling"
  /\ ~Alive(daemonProcess)
  /\ StopOwnedDaemon(<<"call", c>>)
  /\ Goto(c, "rejecting")
  /\ UNCHANGED <<flagVars, loopVars, envVars>>

\* The daemon exited, or the startup timeout passed.
PollGivesUp(c) ==
  /\ pc[c] = "polling"
  /\ StopOwnedDaemon(<<"call", c>>)
  /\ Goto(c, "rejecting")
  /\ UNCHANGED <<flagVars, loopVars, envVars>>

\* A daemon answered, but its status names no author.
IdentityMissing(c) ==
  /\ pc[c] \in {"status", "polling"}
  /\ StopOwnedDaemon(<<"call", c>>)
  /\ Goto(c, "rejecting")
  /\ UNCHANGED <<flagVars, loopVars, envVars>>

\* stop_owned_daemon has returned.
Rejected(c) ==
  /\ pc[c] = "rejecting"
  /\ ~WaitsForExit(<<"call", c>>)
  /\ Goto(c, "failed") /\ NotRunning
  /\ UNCHANGED <<loopVars, handleVars, procVars, envVars>>

ConnectSilently(c) ==
  /\ pc[c] \in {"status", "polling"}
  /\ ~notifications
  /\ Goto(c, "connected")
  /\ running' = TRUE
  /\ UNCHANGED <<stopping, loopVars, handleVars, procVars, envVars>>

StatusReady(c) ==
  /\ pc[c] \in {"status", "polling"}
  /\ notifications
  /\ Goto(c, "cursor")
  /\ UNCHANGED <<flagVars, loopVars, handleVars, procVars, envVars>>

\* start_watcher checks the handle before create_subprocess_exec waits.
CursorReady(c) ==
  /\ pc[c] = "cursor"
  /\ ~Alive(watchProcess)
  /\ Goto(c, "spawn_watcher")
  /\ UNCHANGED <<flagVars, loopVars, handleVars, procVars, envVars>>

\* Mutant: a failed start of the watcher leaves the daemon running.
WatchFailsOnly(c) ==
  /\ pc[c] \in {"cursor", "spawn_watcher"}
  /\ Goto(c, "failed") /\ NotRunning
  /\ UNCHANGED <<loopVars, handleVars, procVars, envVars>>

\* The page walk, start_watcher's check or its spawn raises: service.stop().
WatchFails(c) ==
  /\ pc[c] \in {"cursor", "spawn_watcher"}
  /\ StopWatcher(<<"call", c>>)
  /\ Goto(c, "cleaning_watcher")
  /\ UNCHANGED <<flagVars, loopVars, envVars>>

\* The watcher runs: connect() creates the loop and returns.
SpawnWatcher(c) ==
  /\ pc[c] = "spawn_watcher"
  /\ Spawn(Watcher(c))
  /\ watchProcess' = Watcher(c)
  /\ loop' = [loop EXCEPT ![c] = "created"]
  /\ watchTask' = c
  /\ running' = TRUE
  /\ Goto(c, "connected")
  /\ UNCHANGED <<stopping, source, daemonProcess, envVars>>

-----------------------------------------------------------------------------
(* service.stop(), from disconnect() and from a failed connect()           *)

LoopCancelled(c) ==
  /\ pc[c] = "cancel_loop"
  /\ StopWatcher(<<"call", c>>)
  /\ Goto(c, "stopping_watcher")
  /\ UNCHANGED <<flagVars, loopVars, envVars>>

WatcherStopped(c) ==
  /\ pc[c] \in {"stopping_watcher", "cleaning_watcher"}
  /\ ~WaitsForExit(<<"call", c>>)
  /\ StopOwnedDaemon(<<"call", c>>)
  /\ Goto(c, IF pc[c] = "stopping_watcher" THEN "stopping_daemon"
             ELSE "cleaning_daemon")
  /\ UNCHANGED <<flagVars, loopVars, envVars>>

\* The drain tasks are cancelled, and the call returns.
ServiceStopped(c) ==
  /\ pc[c] \in {"stopping_daemon", "cleaning_daemon"}
  /\ ~WaitsForExit(<<"call", c>>)
  /\ drained' = {}
  /\ NotRunning
  /\ Goto(c, IF pc[c] = "stopping_daemon" THEN "disconnected" ELSE "failed")
  /\ UNCHANGED <<loopVars, handleVars, proc, stopper, envVars>>

-----------------------------------------------------------------------------
(* The watch loop                                                          *)

\* The first step of the task: notices() takes the process of the moment.
LoopStarts(c) ==
  /\ loop[c] = "created"
  /\ watchProcess # None
  /\ source' = [source EXCEPT ![c] = watchProcess]
  /\ loop' = [loop EXCEPT ![c] = "reading"]
  /\ UNCHANGED <<callVars, flagVars, watchTask, handleVars, procVars, envVars>>

\* Mutant: the loop fails and the adapter counts as connected.
LoopFailsSilently(c) ==
  /\ \/ loop[c] = "created" /\ watchProcess = None
     \/ loop[c] = "reading"
  /\ StopWatcher(<<"loop", c>>)
  /\ loop' = [loop EXCEPT ![c] = "closing"]
  /\ UNCHANGED <<callVars, flagVars, watchTask, source, envVars>>

\* No process to read, the end of its output, a bad line, or a notice whose
\* handling raised.
LoopFails(c) ==
  /\ \/ loop[c] = "created" /\ watchProcess = None
     \/ loop[c] = "reading"
  /\ NotRunning
  /\ StopWatcher(<<"loop", c>>)
  /\ loop' = [loop EXCEPT ![c] = "closing"]
  /\ UNCHANGED <<callVars, watchTask, source, envVars>>

\* A notice arrives while the adapter is stopping.
LoopReturns(c) ==
  /\ loop[c] = "reading"
  /\ stopping
  /\ loop' = [loop EXCEPT ![c] = "done"]
  /\ UNCHANGED <<callVars, flagVars, watchTask, source, handleVars, procVars,
                 envVars>>

\* Mutant: the loop stops the watcher once more when it ends.
LoopClosesAgain(c) ==
  /\ loop[c] = "closing"
  /\ ~WaitsForExit(<<"loop", c>>)
  /\ loop' = [loop EXCEPT ![c] = "done"]
  /\ StopWatcher(<<"loop", c>>)
  /\ UNCHANGED <<callVars, flagVars, watchTask, source, envVars>>

\* Mutant: the loop stops the whole service when it ends.
LoopClosesService(c) ==
  /\ loop[c] = "closing"
  /\ ~WaitsForExit(<<"loop", c>>)
  /\ loop' = [loop EXCEPT ![c] = "done"]
  /\ StopOwnedDaemon(<<"loop", c>>)
  /\ UNCHANGED <<callVars, flagVars, watchTask, source, envVars>>

LoopCloses(c) ==
  /\ loop[c] = "closing"
  /\ ~WaitsForExit(<<"loop", c>>)
  /\ loop' = [loop EXCEPT ![c] = "done"]
  /\ UNCHANGED <<callVars, flagVars, watchTask, source, handleVars, procVars,
                 envVars>>

-----------------------------------------------------------------------------
(* The children                                                            *)

\* Mutant: a drain task that ended stays in the set.
ExitKeepsDrain(p) ==
  /\ proc' = [proc EXCEPT ![p] = "dead"]
  /\ UNCHANGED <<callVars, flagVars, loopVars, handleVars, stopper, drained,
                 envVars>>

Exit(p) ==
  /\ proc' = [proc EXCEPT ![p] = "dead"]
  /\ drained' = drained \ {p}
  /\ UNCHANGED <<callVars, flagVars, loopVars, handleVars, stopper, envVars>>

ChildExits(p) == Alive(p) /\ Exit(p)

\* Five seconds passed in _stop_process.
Kill(p) ==
  /\ proc[p] = "terminated"
  /\ stopper[p] # None
  /\ Exit(p)

\* readline() raises for a line over the stream's limit: the task that drains
\* the child's stderr ends.
DrainFails(p) ==
  /\ longLines < MaxLongLines
  /\ p \in drained
  /\ longLines' = longLines + 1
  /\ drained' = drained \ {p}
  /\ UNCHANGED <<callVars, flagVars, loopVars, handleVars, proc, stopper,
                 notifications>>

-----------------------------------------------------------------------------

Connect(c) ==
  \/ StatusFails(c) \/ StatusUnavailable(c) \/ BinaryMissing(c)
  \/ SpawnDaemon(c) \/ SpawnDaemonFails(c)
  \/ PollRaises(c) \/ PollGivesUp(c)
  \/ IdentityMissing(c) \/ Rejected(c)
  \/ ConnectSilently(c) \/ StatusReady(c)
  \/ CursorReady(c) \/ WatchFails(c) \/ SpawnWatcher(c)

\* What makes the startup poll end, whatever the status is.
Deadline(c) == PollRaises(c) \/ PollGivesUp(c)

Stop(c) == LoopCancelled(c) \/ WatcherStopped(c) \/ ServiceStopped(c)

WatchLoop(c) == LoopStarts(c) \/ LoopFails(c) \/ LoopReturns(c) \/ LoopCloses(c)

Hermes ==
  \E c \in Call :
    ConnectAgain(c) \/ BeginConnect(c) \/ BeginDisconnect(c) \/ CancelCall(c)

Children == \E p \in Proc : ChildExits(p) \/ Kill(p) \/ DrainFails(p)

Next ==
  \/ Hermes
  \/ \E c \in Call : Connect(c) \/ Stop(c) \/ WatchLoop(c)
  \/ Children

Spec == Init /\ [][Next]_vars

\* readline() returns nothing once the watcher is gone.
LoopSeesEnd(c) ==
  /\ source[c] \in Proc /\ proc[source[c]] = "dead"
  /\ LoopFails(c)

\* Commands are killed by their timeout, the startup poll has a deadline, and
\* a wait in _stop_process ends after five seconds.  A watch loop starts, sees
\* the end of its watcher's output and runs on when it failed; nothing makes
\* Hermes call, a daemon start or a child obey SIGTERM.
FairSpec ==
  /\ Spec
  /\ \A c \in Call : WF_vars(pc[c] # "polling" /\ Connect(c))
  /\ \A c \in Call : WF_vars(Deadline(c)) /\ WF_vars(Stop(c))
  /\ \A c \in Call : WF_vars(LoopStarts(c)) /\ WF_vars(LoopSeesEnd(c))
  /\ \A c \in Call : WF_vars(LoopCloses(c))
  /\ \A p \in Proc : WF_vars(Kill(p))

-----------------------------------------------------------------------------
(* Properties                                                              *)

Working(p) == proc[p] = "up"

\* A later connect() was told that no daemon answers, and started another.
Displaced(c) == \E d \in Call : c < d /\ proc[Daemon(d)] # "new"

\* A child that nobody told to terminate is one that the service can still stop,
\* whatever failed or was cancelled.  Only a daemon may be lost, and only by the
\* start of another while "mm status" finds none.
NoOrphans ==
  \A c \in Call :
    /\ Working(Watcher(c)) => watchProcess = Watcher(c)
    /\ Working(Daemon(c)) => daemonProcess = Daemon(c) \/ Displaced(c)

\* "A daemon that fails readiness is terminated before the error returns"
\* (service.md), and so is whatever else a failed connect() started.
FailedLeavesNothing ==
  \A c \in Call :
    pc[c] = "failed" => ~Alive(Daemon(c)) /\ ~Alive(Watcher(c))

\* After disconnect() the adapter does not count as connected, no loop runs on,
\* and the call has seen the end of every child it told to terminate.  What still
\* runs was told so by another actor, or is a displaced daemon.
DisconnectedIsQuiet ==
  calls \in Call /\ pc[calls] = "disconnected" =>
    /\ ~running
    /\ \A c \in Call : loop[c] \notin {"created", "reading"}
    /\ \A p \in Proc : Alive(p) =>
         \/ proc[p] = "terminated" /\ stopper[p] # <<"call", calls>>
         \/ \E c \in Call : p = Daemon(c) /\ Displaced(c)

\* A connected adapter listens: unless it is being disconnected, its loop runs
\* and reads the one watcher that the service knows.
ConnectedIsWatching ==
  running /\ ~stopping /\ notifications =>
    /\ watchTask # None /\ watchProcess # None
    /\ loop[watchTask] \in {"created", "reading"}
    /\ loop[watchTask] = "reading" => source[watchTask] = watchProcess

\* A connect() that polls reads the returncode of the daemon it started: nothing
\* that ends meanwhile takes its handle away.
PollsItsOwn == \A c \in Call : pc[c] = "polling" => daemonProcess = Daemon(c)

\* A loop that fails stops the watcher it read, never that of a later connect.
LoopStopsItsOwn ==
  [][\A c, d \in Call :
       stopper'[Watcher(d)] = <<"loop", c>> => c = d]_vars

\* Every call of connect() and disconnect() returns: neither a daemon that is
\* never ready nor a child that ignores SIGTERM keeps it waiting.
CallsReturn == \A c \in Call : Active(c) ~> ~Active(c)

\* An adapter whose watcher has exited does not go on as connected, so that
\* Hermes can reconnect it.
DeathIsNoticed ==
  \A c \in Call :
    running /\ watchTask = c /\ proc[Watcher(c)] = "dead"
      ~> ~running \/ stopping \/ watchTask # c

\* "Graceful termination gets five seconds before a forced kill" (service.md): a
\* child that was told to terminate is dead in the end.
TerminatedDies == \A p \in Proc : proc[p] = "terminated" ~> proc[p] = "dead"

=============================================================================
