--------------------------- MODULE ServiceProofs ---------------------------
(***************************************************************************)
(* Theorems about Service for every value of its constants: types for any  *)
(* gateway, the rest for an orderly one.  "mm status" may answer anything. *)
(***************************************************************************)
EXTENDS Service, TLAPS

-----------------------------------------------------------------------------
(* Types                                                                   *)

ProcTyped ==
  /\ proc \in [Proc -> {"new", "up", "terminated", "dead"}]
  /\ stopper \in [Proc -> Actor \cup {None}]
  /\ drained \subseteq {p \in Proc : proc[p] \in {"up", "terminated"}}

LEMMA StopProcessTyped ==
  ASSUME ProcTyped, NEW p, NEW a \in Actor, StopProcess(p, a)
  PROVE  ProcTyped'
BY DEF StopProcess, Alive, ProcTyped, procVars

LEMMA SpawnTyped ==
  ASSUME ProcTyped, NEW p \in Proc, Spawn(p)
  PROVE  ProcTyped'
BY DEF Spawn, ProcTyped

LEMMA ExitTyped ==
  ASSUME ProcTyped, NEW p \in Proc, Exit(p)
  PROVE  ProcTyped'
BY DEF Exit, ProcTyped

LEMMA AbandonTyped ==
  ASSUME ProcTyped, NEW a, Abandon(a), UNCHANGED <<proc, drained>>
  PROVE  ProcTyped'
BY DEF Abandon, ProcTyped

Place == {"new"} \cup Connecting \cup Disconnecting \cup Returned

CallTyped ==
  /\ calls \in 0..MaxCalls /\ cancels \in 0..MaxCancels
  /\ pc \in [Call -> Place]
  /\ \A c \in Call : pc[c] = "new" <=> c > calls

LEMMA GotoTyped ==
  ASSUME CallTyped, NEW c \in Call, pc[c] # "new",
         NEW place \in Place \ {"new"}, Goto(c, place)
  PROVE  CallTyped'
BY DEF Goto, CallTyped

LEMMA BeginTyped ==
  ASSUME CallTyped, NEW c \in Call, MayCall(c),
         NEW place \in Place \ {"new"}, Begin(c, place)
  PROVE  CallTyped'
BY ServiceAssumption DEF MayCall, Begin, CallTyped, Call, ServiceAssumption

LoopTyped ==
  /\ running \in BOOLEAN /\ stopping \in BOOLEAN
  /\ watchTask \in Call \cup {None}
  /\ loop \in [Call -> {"none", "created", "reading", "closing", "done"}]
  /\ source \in [Call -> Proc \cup {None}]

HandleTyped ==
  /\ watchProcess \in {Watcher(c) : c \in Call} \cup {None}
  /\ daemonProcess \in {Daemon(c) : c \in Call} \cup {None}
  /\ longLines \in 0..MaxLongLines
  /\ notifications \in BOOLEAN

LEMMA TypeParts == TypeOK <=> CallTyped /\ LoopTyped /\ HandleTyped /\ ProcTyped
BY DEF TypeOK, CallTyped, LoopTyped, HandleTyped, ProcTyped, Place

LEMMA TypeInit == Init => TypeOK
<1> SUFFICES ASSUME Init
             PROVE  CallTyped /\ LoopTyped /\ HandleTyped /\ ProcTyped
  BY TypeParts
<1> USE ServiceAssumption DEF ServiceAssumption, Init
<1>1. CallTyped BY DEF CallTyped, Place, Call
<1>2. LoopTyped BY DEF LoopTyped
<1>3. HandleTyped BY DEF HandleTyped
<1>4. ProcTyped BY DEF ProcTyped
<1>5. QED BY <1>1, <1>2, <1>3, <1>4

LEMMA TypeHermes ==
  ASSUME TypeOK, Hermes
  PROVE  TypeOK'
<1> PICK c \in Call : \/ ConnectAgain(c) \/ BeginConnect(c)
                       \/ BeginDisconnect(c) \/ CancelCall(c)
  BY DEF Hermes
<1> USE TypeParts
<1> SUFFICES CallTyped' /\ LoopTyped' /\ HandleTyped' /\ ProcTyped'
  BY DEF TypeOK, CallTyped, LoopTyped, HandleTyped, ProcTyped, Place
<1>1. CASE ConnectAgain(c)
  <2>1. CallTyped'
    BY <1>1, BeginTyped DEF ConnectAgain, Place, Connecting, Disconnecting,
      Returned
  <2>2. LoopTyped' /\ HandleTyped' /\ ProcTyped'
    BY <1>1 DEF ConnectAgain, LoopTyped, HandleTyped, ProcTyped, flagVars,
      loopVars, handleVars, envVars, procVars
  <2>3. QED
    BY <2>1, <2>2
<1>2. CASE BeginConnect(c)
  <2>1. CallTyped'
    BY <1>2, BeginTyped DEF BeginConnect, Place, Connecting, Disconnecting,
      Returned
  <2>2. LoopTyped' /\ HandleTyped' /\ ProcTyped'
    BY <1>2 DEF BeginConnect, LoopTyped, HandleTyped, ProcTyped, loopVars,
      handleVars, envVars, procVars
  <2>3. QED
    BY <2>1, <2>2
<1>3. CASE BeginDisconnect(c)
  <2>1. CallTyped'
    BY <1>3, BeginTyped DEF BeginDisconnect, Place, Connecting, Disconnecting,
      Returned
  <2>2. LoopTyped' /\ HandleTyped'
    BY <1>3 DEF BeginDisconnect, LoopTyped, HandleTyped, handleVars, envVars
  <2>3. ProcTyped'
    BY <1>3, AbandonTyped DEF BeginDisconnect, ProcTyped
  <2>4. QED
    BY <2>1, <2>2, <2>3
<1>4. CASE CancelCall(c)
  <2>1. CallTyped'
    BY <1>4, ServiceAssumption DEF CancelCall, CallTyped, Active,
      ServiceAssumption, Place, Connecting, Disconnecting, Returned
  <2>2. LoopTyped' /\ HandleTyped'
    BY <1>4 DEF CancelCall, LoopTyped, HandleTyped, flagVars, loopVars,
      handleVars, envVars
  <2>3. ProcTyped'
    BY <1>4, AbandonTyped DEF CancelCall
  <2>4. QED
    BY <2>1, <2>2, <2>3
<1>5. QED
  BY <1>1, <1>2, <1>3, <1>4

LEMMA TypeConnect ==
  ASSUME TypeOK, NEW c \in Call, Connect(c)
  PROVE  TypeOK'
<1> USE TypeParts
<1> SUFFICES CallTyped' /\ LoopTyped' /\ HandleTyped' /\ ProcTyped'
  BY DEF TypeOK, CallTyped, LoopTyped, HandleTyped, ProcTyped, Place
<1>1. CASE StatusFails(c)
  <2>1. CallTyped'
    BY <1>1, GotoTyped DEF StatusFails, Place, Connecting, Disconnecting,
      Returned
  <2>2. LoopTyped' /\ HandleTyped' /\ ProcTyped'
    BY <1>1 DEF StatusFails, LoopTyped, HandleTyped, ProcTyped, NotRunning,
      loopVars, handleVars, envVars, procVars
  <2>3. QED
    BY <2>1, <2>2
<1>2. CASE StatusUnavailable(c)
  <2>1. CallTyped'
    BY <1>2, GotoTyped DEF StatusUnavailable, Place, Connecting,
      Disconnecting, Returned
  <2>2. LoopTyped' /\ HandleTyped' /\ ProcTyped'
    BY <1>2 DEF StatusUnavailable, LoopTyped, HandleTyped, ProcTyped,
      flagVars, loopVars, handleVars, envVars, procVars
  <2>3. QED
    BY <2>1, <2>2
<1>3. CASE BinaryMissing(c)
  <2>1. CallTyped'
    BY <1>3, GotoTyped DEF BinaryMissing, Place, Connecting, Disconnecting,
      Returned
  <2>2. LoopTyped' /\ HandleTyped'
    BY <1>3 DEF BinaryMissing, LoopTyped, HandleTyped, StopOwnedDaemon,
      flagVars, loopVars, envVars
  <2>3. ProcTyped'
    BY <1>3, StopProcessTyped DEF BinaryMissing, StopOwnedDaemon, Actor
  <2>4. QED
    BY <2>1, <2>2, <2>3
<1>4. CASE SpawnDaemon(c)
  <2>1. CallTyped'
    BY <1>4, GotoTyped DEF SpawnDaemon, Place, Connecting, Disconnecting,
      Returned
  <2>2. LoopTyped' /\ HandleTyped'
    BY <1>4 DEF SpawnDaemon, LoopTyped, HandleTyped, flagVars, loopVars,
      envVars
  <2>3. ProcTyped'
    BY <1>4, SpawnTyped DEF SpawnDaemon, Proc, Daemon, Watcher
  <2>4. QED
    BY <2>1, <2>2, <2>3
<1>5. CASE SpawnDaemonFails(c)
  <2>1. CallTyped'
    BY <1>5, GotoTyped DEF SpawnDaemonFails, Place, Connecting, Disconnecting,
      Returned
  <2>2. LoopTyped' /\ HandleTyped' /\ ProcTyped'
    BY <1>5 DEF SpawnDaemonFails, LoopTyped, HandleTyped, ProcTyped, flagVars,
      loopVars, handleVars, envVars, procVars
  <2>3. QED
    BY <2>1, <2>2
<1>6. CASE PollRaises(c)
  <2>1. CallTyped'
    BY <1>6, GotoTyped DEF PollRaises, Place, Connecting, Disconnecting,
      Returned
  <2>2. LoopTyped' /\ HandleTyped' /\ ProcTyped'
    BY <1>6 DEF PollRaises, LoopTyped, HandleTyped, ProcTyped, flagVars,
      loopVars, handleVars, envVars, procVars
  <2>3. QED
    BY <2>1, <2>2
<1>7. CASE PollGivesUp(c)
  <2>1. CallTyped'
    BY <1>7, GotoTyped DEF PollGivesUp, Place, Connecting, Disconnecting,
      Returned
  <2>2. LoopTyped' /\ HandleTyped'
    BY <1>7 DEF PollGivesUp, LoopTyped, HandleTyped, StopOwnedDaemon,
      flagVars, loopVars, envVars
  <2>3. ProcTyped'
    BY <1>7, StopProcessTyped DEF PollGivesUp, StopOwnedDaemon, Actor
  <2>4. QED
    BY <2>1, <2>2, <2>3
<1>8. CASE IdentityMissing(c)
  <2>1. CallTyped'
    BY <1>8, GotoTyped DEF IdentityMissing, Place, Connecting, Disconnecting,
      Returned
  <2>2. LoopTyped' /\ HandleTyped'
    BY <1>8 DEF IdentityMissing, LoopTyped, HandleTyped, StopOwnedDaemon,
      flagVars, loopVars, envVars
  <2>3. ProcTyped'
    BY <1>8, StopProcessTyped DEF IdentityMissing, StopOwnedDaemon, Actor
  <2>4. QED
    BY <2>1, <2>2, <2>3
<1>9. CASE Rejected(c)
  <2>1. CallTyped'
    BY <1>9, GotoTyped DEF Rejected, Place, Connecting, Disconnecting,
      Returned
  <2>2. LoopTyped' /\ HandleTyped' /\ ProcTyped'
    BY <1>9 DEF Rejected, LoopTyped, HandleTyped, ProcTyped, NotRunning,
      loopVars, handleVars, envVars, procVars
  <2>3. QED
    BY <2>1, <2>2
<1>10. CASE ConnectSilently(c)
  <2>1. CallTyped'
    BY <1>10, GotoTyped DEF ConnectSilently, Place, Connecting, Disconnecting,
      Returned
  <2>2. LoopTyped' /\ HandleTyped' /\ ProcTyped'
    BY <1>10 DEF ConnectSilently, LoopTyped, HandleTyped, ProcTyped, loopVars,
      handleVars, envVars, procVars
  <2>3. QED
    BY <2>1, <2>2
<1>11. CASE StatusReady(c)
  <2>1. CallTyped'
    BY <1>11, GotoTyped DEF StatusReady, Place, Connecting, Disconnecting,
      Returned
  <2>2. LoopTyped' /\ HandleTyped' /\ ProcTyped'
    BY <1>11 DEF StatusReady, LoopTyped, HandleTyped, ProcTyped, flagVars,
      loopVars, handleVars, envVars, procVars
  <2>3. QED
    BY <2>1, <2>2
<1>12. CASE CursorReady(c)
  <2>1. CallTyped'
    BY <1>12, GotoTyped DEF CursorReady, Place, Connecting, Disconnecting,
      Returned
  <2>2. LoopTyped' /\ HandleTyped' /\ ProcTyped'
    BY <1>12 DEF CursorReady, LoopTyped, HandleTyped, ProcTyped, flagVars,
      loopVars, handleVars, envVars, procVars
  <2>3. QED
    BY <2>1, <2>2
<1>13. CASE WatchFails(c)
  <2>1. CallTyped'
    BY <1>13, GotoTyped DEF WatchFails, Place, Connecting, Disconnecting,
      Returned
  <2>2. LoopTyped' /\ HandleTyped'
    BY <1>13 DEF WatchFails, LoopTyped, HandleTyped, StopWatcher, flagVars,
      loopVars, envVars
  <2>3. ProcTyped'
    BY <1>13, StopProcessTyped DEF WatchFails, StopWatcher, Actor
  <2>4. QED
    BY <2>1, <2>2, <2>3
<1>14. CASE SpawnWatcher(c)
  <2>1. CallTyped'
    BY <1>14, GotoTyped DEF SpawnWatcher, Place, Connecting, Disconnecting,
      Returned
  <2>2. LoopTyped' /\ HandleTyped'
    BY <1>14 DEF SpawnWatcher, LoopTyped, HandleTyped, envVars
  <2>3. ProcTyped'
    BY <1>14, SpawnTyped DEF SpawnWatcher, Proc, Daemon, Watcher
  <2>4. QED
    BY <2>1, <2>2, <2>3
<1>15. QED
  BY <1>1, <1>2, <1>3, <1>4, <1>5, <1>6, <1>7, <1>8, <1>9, <1>10, <1>11,
    <1>12, <1>13, <1>14 DEF Connect

LEMMA TypeStop ==
  ASSUME TypeOK, NEW c \in Call, Stop(c)
  PROVE  TypeOK'
<1> USE TypeParts
<1> SUFFICES CallTyped' /\ LoopTyped' /\ HandleTyped' /\ ProcTyped'
  BY DEF TypeOK, CallTyped, LoopTyped, HandleTyped, ProcTyped, Place
<1>1. CASE LoopCancelled(c)
  <2>1. CallTyped'
    BY <1>1, GotoTyped DEF LoopCancelled, Place, Connecting, Disconnecting,
      Returned
  <2>2. LoopTyped' /\ HandleTyped'
    BY <1>1 DEF LoopCancelled, LoopTyped, HandleTyped, StopWatcher, flagVars,
      loopVars, envVars
  <2>3. ProcTyped'
    BY <1>1, StopProcessTyped DEF LoopCancelled, StopWatcher, Actor
  <2>4. QED
    BY <2>1, <2>2, <2>3
<1>2. CASE WatcherStopped(c)
  <2>1. CallTyped'
    BY <1>2, GotoTyped DEF WatcherStopped, Place, Connecting, Disconnecting,
      Returned
  <2>2. LoopTyped' /\ HandleTyped'
    BY <1>2 DEF WatcherStopped, LoopTyped, HandleTyped, StopOwnedDaemon,
      flagVars, loopVars, envVars
  <2>3. ProcTyped'
    BY <1>2, StopProcessTyped DEF WatcherStopped, StopOwnedDaemon, Actor
  <2>4. QED
    BY <2>1, <2>2, <2>3
<1>3. CASE ServiceStopped(c)
  <2>1. CallTyped'
    BY <1>3, GotoTyped DEF ServiceStopped, Place, Connecting, Disconnecting,
      Returned
  <2>2. LoopTyped' /\ HandleTyped' /\ ProcTyped'
    BY <1>3 DEF ServiceStopped, LoopTyped, HandleTyped, ProcTyped, NotRunning,
      loopVars, handleVars, envVars
  <2>3. QED
    BY <2>1, <2>2
<1>4. QED
  BY <1>1, <1>2, <1>3 DEF Stop

LEMMA TypeWatchLoop ==
  ASSUME TypeOK, NEW c \in Call, WatchLoop(c)
  PROVE  TypeOK'
<1> USE TypeParts
<1> SUFFICES CallTyped' /\ LoopTyped' /\ HandleTyped' /\ ProcTyped'
  BY DEF TypeOK, CallTyped, LoopTyped, HandleTyped, ProcTyped, Place
<1>1. CASE LoopStarts(c)
  <2>1. CallTyped'
    BY <1>1 DEF LoopStarts, CallTyped, callVars
  <2>2. LoopTyped' /\ HandleTyped' /\ ProcTyped'
    BY <1>1 DEF LoopStarts, LoopTyped, HandleTyped, ProcTyped, Proc, Watcher,
      flagVars, handleVars, envVars, procVars
  <2>3. QED
    BY <2>1, <2>2
<1>2. CASE LoopFails(c)
  <2>1. CallTyped'
    BY <1>2 DEF LoopFails, CallTyped, callVars
  <2>2. LoopTyped' /\ HandleTyped'
    BY <1>2 DEF LoopFails, LoopTyped, HandleTyped, NotRunning, StopWatcher,
      envVars
  <2>3. ProcTyped'
    BY <1>2, StopProcessTyped DEF LoopFails, StopWatcher, Actor
  <2>4. QED
    BY <2>1, <2>2, <2>3
<1>3. CASE LoopReturns(c)
  <2>1. CallTyped'
    BY <1>3 DEF LoopReturns, CallTyped, callVars
  <2>2. LoopTyped' /\ HandleTyped' /\ ProcTyped'
    BY <1>3 DEF LoopReturns, LoopTyped, HandleTyped, ProcTyped, flagVars,
      handleVars, envVars, procVars
  <2>3. QED
    BY <2>1, <2>2
<1>4. CASE LoopCloses(c)
  <2>1. CallTyped'
    BY <1>4 DEF LoopCloses, CallTyped, callVars
  <2>2. LoopTyped' /\ HandleTyped' /\ ProcTyped'
    BY <1>4 DEF LoopCloses, LoopTyped, HandleTyped, ProcTyped, flagVars,
      handleVars, envVars, procVars
  <2>3. QED
    BY <2>1, <2>2
<1>5. QED
  BY <1>1, <1>2, <1>3, <1>4 DEF WatchLoop

LEMMA TypeChildren ==
  ASSUME TypeOK, Children
  PROVE  TypeOK'
<1> PICK p \in Proc : ChildExits(p) \/ Kill(p) \/ DrainFails(p)
  BY DEF Children
<1> USE TypeParts
<1> SUFFICES CallTyped' /\ LoopTyped' /\ HandleTyped' /\ ProcTyped'
  BY DEF TypeOK, CallTyped, LoopTyped, HandleTyped, ProcTyped, Place
<1>1. CASE ChildExits(p)
  <2>1. CallTyped'
    BY <1>1 DEF ChildExits, CallTyped, Exit, callVars
  <2>2. LoopTyped' /\ HandleTyped'
    BY <1>1 DEF ChildExits, LoopTyped, HandleTyped, Exit, flagVars, loopVars,
      handleVars, envVars
  <2>3. ProcTyped'
    BY <1>1, ExitTyped DEF ChildExits
  <2>4. QED
    BY <2>1, <2>2, <2>3
<1>2. CASE Kill(p)
  <2>1. CallTyped'
    BY <1>2 DEF Kill, CallTyped, Exit, callVars
  <2>2. LoopTyped' /\ HandleTyped'
    BY <1>2 DEF Kill, LoopTyped, HandleTyped, Exit, flagVars, loopVars,
      handleVars, envVars
  <2>3. ProcTyped'
    BY <1>2, ExitTyped DEF Kill
  <2>4. QED
    BY <2>1, <2>2, <2>3
<1>3. CASE DrainFails(p)
  <2>1. CallTyped'
    BY <1>3 DEF DrainFails, CallTyped, callVars
  <2>2. LoopTyped' /\ HandleTyped' /\ ProcTyped'
    BY <1>3, ServiceAssumption DEF DrainFails, LoopTyped, HandleTyped,
      ProcTyped, flagVars, loopVars, handleVars, ServiceAssumption
  <2>3. QED
    BY <2>1, <2>2
<1>4. QED
  BY <1>1, <1>2, <1>3

LEMMA TypeNext == TypeOK /\ [Next]_vars => TypeOK'
<1> SUFFICES ASSUME TypeOK, [Next]_vars PROVE TypeOK'
  OBVIOUS
<1>1. CASE UNCHANGED vars
  BY <1>1 DEF TypeOK, vars, callVars, flagVars, loopVars, handleVars, procVars,
     envVars
<1>2. CASE Next
  BY <1>2, TypeHermes, TypeConnect, TypeStop, TypeWatchLoop, TypeChildren
     DEF Next
<1>3. QED
  BY <1>1, <1>2

\* Whatever Hermes calls, overlaps or cancels, the tables of calls, loops and
\* children keep their types: only a living child's stderr is read.
THEOREM TypeCorrect == Spec => []TypeOK
BY TypeInit, TypeNext, PTL DEF Spec

-----------------------------------------------------------------------------
(* The inductive invariant of an orderly gateway                           *)

Live(c) == loop[c] \in {"created", "reading"}

\* One call at a time; a connecting adapter does not count as connected, and a
\* disconnecting one is stopping.
CallInv ==
  /\ \A c \in Call : Active(c) => c = calls
  /\ \A c \in Call : pc[c] \in Connecting => ~running
  /\ \A c \in Call : pc[c] \in Disconnecting => stopping

\* A live loop is the adapter's task and reads the watcher of its own connect.
LoopInv ==
  /\ \A c \in Call :
       Live(c) => /\ running /\ watchTask = c /\ watchProcess = Watcher(c)
                  /\ \A d \in Call : pc[d] \notin Disconnecting
  /\ \A c \in Call : loop[c] = "reading" => source[c] = Watcher(c)
  /\ running /\ ~stopping /\ notifications =>
       watchTask \in Call /\ Live(watchTask)

\* A loop waits for no watcher but its own.
WaitInv ==
  \A c, d \in Call : stopper[Watcher(d)] = <<"loop", c>> => c = d

\* Only a call that is in _stop_process waits for a child to exit.
AwaitInv ==
  \A p \in Proc, c \in Call :
    proc[p] = "terminated" /\ stopper[p] = <<"call", c>> =>
      pc[c] \in {"rejecting", "stopping_watcher", "stopping_daemon",
                "cleaning_watcher", "cleaning_daemon"}

\* A working watcher is the one in the handle, and it is started when no other
\* works.
WatcherInv ==
  /\ \A c \in Call : Working(Watcher(c)) => watchProcess = Watcher(c)
  /\ \A c \in Call : proc[Watcher(c)] # "new" => pc[c] = "connected"
  /\ \A c, d \in Call : pc[c] = "spawn_watcher" => ~Working(Watcher(d))
  /\ \A c \in Call :
       pc[c] \in {"stopping_watcher", "cleaning_watcher", "stopping_daemon",
                  "cleaning_daemon"} => watchProcess = None

\* The same of the daemon, unless a later one displaced it.
DaemonInv ==
  /\ \A c \in Call :
       Working(Daemon(c)) => daemonProcess = Daemon(c) \/ Displaced(c)
  /\ \A c \in Call : pc[c] = "polling" => daemonProcess = Daemon(c)
  /\ \A c \in Call :
       pc[c] \in {"rejecting", "stopping_daemon", "cleaning_daemon"} =>
         daemonProcess = None

\* What a failing connect() started, it waits for.
FailInv ==
  /\ \A c \in Call :
       pc[c] \in {"new", "status", "spawn_daemon"} => proc[Daemon(c)] = "new"
  /\ \A c \in Call :
       pc[c] \in {"polling", "cursor", "spawn_watcher", "cleaning_watcher"} =>
         proc[Daemon(c)] # "terminated"
  /\ \A c \in Call :
       pc[c] \in {"rejecting", "cleaning_daemon"} =>
         \/ proc[Daemon(c)] \in {"new", "dead"}
         \/ proc[Daemon(c)] = "terminated" /\ stopper[Daemon(c)] = <<"call", c>>
  /\ \A c \in Call : pc[c] = "failed" => proc[Daemon(c)] \in {"new", "dead"}

QuietInv ==
  calls \in Call /\ pc[calls] = "disconnected" =>
    ~running /\ watchProcess = None /\ daemonProcess = None

ServiceInv ==
  /\ TypeOK /\ CallInv /\ LoopInv /\ WaitInv /\ WatcherInv /\ DaemonInv
  /\ FailInv /\ QuietInv

LEMMA ProcNames ==
  /\ \A c \in Call : Daemon(c) \in Proc /\ Watcher(c) \in Proc
  /\ \A c, d \in Call : Daemon(c) # Watcher(d)
  /\ \A c, d \in Call : (Daemon(c) = Daemon(d) <=> c = d)
                        /\ (Watcher(c) = Watcher(d) <=> c = d)
  /\ \A c, d \in Call : <<"call", c>> # <<"loop", d>>
  /\ \A c, d \in Call : (<<"call", c>> = <<"call", d>> <=> c = d)
                        /\ (<<"loop", c>> = <<"loop", d>> <=> c = d)
  /\ \A p \in Proc : \E c \in Call : p = Daemon(c) \/ p = Watcher(c)
  /\ None \notin Call /\ None \notin Proc
  /\ \A c \in Call : <<"loop", c>> # None /\ <<"call", c>> # None
BY ServiceAssumption DEF Proc, Actor, Daemon, Watcher, ServiceAssumption

\* SIGTERM reaches the child in the handle and no other.
Stops(p, a) ==
  \A q \in Proc :
    IF q = p /\ proc[q] \notin {"new", "dead"}
    THEN proc'[q] = "terminated" /\ stopper'[q] = a
    ELSE proc'[q] = proc[q] /\ stopper'[q] = stopper[q]

LEMMA StopEffect ==
  ASSUME TypeOK, NEW p, NEW a \in Actor, StopProcess(p, a)
  PROVE  Stops(p, a)
BY DEF StopProcess, Alive, TypeOK, procVars, Stops

\* A cancelled actor waits for no child.
Abandons(a) ==
  \A q \in Proc :
    stopper'[q] = IF stopper[q] = a THEN None ELSE stopper[q]

LEMMA AbandonEffect ==
  ASSUME TypeOK, NEW a, Abandon(a)
  PROVE  Abandons(a)
BY DEF Abandon, TypeOK, Abandons

\* A connect() that gives its own daemon up waits for it.
LEMMA RejectedDaemonAwaited ==
  ASSUME TypeOK, CallInv, DaemonInv, FailInv, NEW c \in Call,
         pc[c] \in {"status", "polling"}, Stops(daemonProcess, <<"call", c>>),
         pc' = [pc EXCEPT ![c] = "rejecting"]
  PROVE  FailInv'
<1>1. \A d \in Call \ {c} : ~Active(d)
  BY DEF CallInv, Active, Connecting
<1>2. ASSUME NEW d \in Call
      PROVE  \/ /\ (proc')[Daemon(d)] = proc[Daemon(d)]
                /\ (stopper')[Daemon(d)] = stopper[Daemon(d)]
             \/ /\ daemonProcess = Daemon(d)
                /\ proc[Daemon(d)] \notin {"new", "dead"}
                /\ (proc')[Daemon(d)] = "terminated"
                /\ (stopper')[Daemon(d)] = <<"call", c>>
  BY ProcNames DEF Stops
<1>3. ASSUME NEW d \in Call, d # c
      PROVE  /\ (pc')[d] = pc[d]
             /\ pc[d] \notin Connecting
  BY <1>1, <1>3 DEF TypeOK, Active
<1>4. (pc')[c] = "rejecting"
  BY DEF TypeOK
<1>5. ASSUME NEW d \in Call, d # c
      PROVE  /\ (pc')[d] = "new" => (proc')[Daemon(d)] = "new"
             /\ (pc')[d] = "failed" => (proc')[Daemon(d)] \in {"new", "dead"}
  BY <1>2, <1>3, <1>5 DEF FailInv
<1>6. \/ (proc')[Daemon(c)] \in {"new", "dead"}
      \/ /\ (proc')[Daemon(c)] = "terminated"
         /\ (stopper')[Daemon(c)] = <<"call", c>>
  <2>1. CASE pc[c] = "status"
    BY <1>2, <2>1 DEF FailInv
  <2>2. CASE pc[c] = "polling"
    <3>1. daemonProcess = Daemon(c)
      BY <2>2 DEF DaemonInv
    <3>2. proc[Daemon(c)] \in {"new", "dead"} \/ (proc')[Daemon(c)] = "terminated"
      BY <3>1, ProcNames DEF Stops
    <3>3. QED
      BY <1>2, <3>1, <3>2, ProcNames DEF Stops
  <2>3. QED
    BY <2>1, <2>2
<1>7. QED
  BY <1>3, <1>4, <1>5, <1>6 DEF FailInv, Connecting

LEMMA ServiceInvInit == Init => ServiceInv
<1> SUFFICES ASSUME Init PROVE ServiceInv
  OBVIOUS
<1>1. /\ \A c \in Call : pc[c] = "new" /\ loop[c] = "none"
      /\ \A p \in Proc : proc[p] = "new" /\ stopper[p] = None
      /\ ~running /\ calls \notin Call
  BY DEF Init, Call
<1>2. CallInv /\ LoopInv /\ WaitInv
  BY <1>1, ProcNames DEF CallInv, LoopInv, WaitInv, Active, Connecting,
     Disconnecting, Live
<1>3. WatcherInv /\ DaemonInv /\ FailInv /\ QuietInv
  BY <1>1, ProcNames DEF Init, WatcherInv, DaemonInv, FailInv, QuietInv, Working
<1>4. QED
  BY <1>2, <1>3, TypeInit DEF ServiceInv

\* No process is started twice.
LEMMA OldStaysOld ==
  ASSUME TypeOK, [Next]_vars
  PROVE  \A p \in Proc : proc[p] # "new" => (proc')[p] # "new"
<1>1. CASE UNCHANGED vars
  BY <1>1 DEF vars, procVars
<1>2. CASE Hermes
  BY <1>2 DEF Hermes, ConnectAgain, BeginConnect, BeginDisconnect, CancelCall,
     procVars
<1>3. ASSUME NEW c \in Call, Connect(c)
      PROVE  \A p \in Proc : proc[p] # "new" => (proc')[p] # "new"
  <2>1. ASSUME NEW p, NEW a, StopProcess(p, a)
        PROVE  \A q \in Proc : proc[q] # "new" => (proc')[q] # "new"
    BY <2>1 DEF StopProcess, procVars, TypeOK
  <2>2. ASSUME NEW p \in Proc, Spawn(p)
        PROVE  \A q \in Proc : proc[q] # "new" => (proc')[q] # "new"
    BY <2>2 DEF Spawn, TypeOK
  <2>3. CASE BinaryMissing(c) \/ PollGivesUp(c) \/ IdentityMissing(c)
    BY <2>1, <2>3 DEF BinaryMissing, PollGivesUp, IdentityMissing,
       StopOwnedDaemon
  <2>4. CASE WatchFails(c)
    BY <2>1, <2>4 DEF WatchFails, StopWatcher
  <2>5. CASE SpawnDaemon(c) \/ SpawnWatcher(c)
    BY <2>2, <2>5 DEF SpawnDaemon, SpawnWatcher, Proc, Daemon, Watcher
  <2>6. QED
    BY <1>3, <2>3, <2>4, <2>5 DEF Connect, StatusFails, StatusUnavailable,
       SpawnDaemonFails, PollRaises, Rejected, ConnectSilently, StatusReady,
       CursorReady, procVars
<1>4. ASSUME NEW c \in Call, Stop(c) \/ WatchLoop(c)
      PROVE  \A p \in Proc : proc[p] # "new" => (proc')[p] # "new"
  <2>1. ASSUME NEW p, NEW a, StopProcess(p, a)
        PROVE  \A q \in Proc : proc[q] # "new" => (proc')[q] # "new"
    BY <2>1 DEF StopProcess, procVars, TypeOK
  <2>2. QED
    BY <1>4, <2>1 DEF Stop, LoopCancelled, WatcherStopped, ServiceStopped,
       WatchLoop, LoopStarts, LoopFails, LoopReturns, LoopCloses, StopWatcher,
       StopOwnedDaemon, procVars
<1>5. CASE Children
  BY <1>5 DEF Children, ChildExits, Kill, DrainFails, Exit, TypeOK
<1>6. QED
  BY <1>1, <1>2, <1>3, <1>4, <1>5 DEF Next

\* The daemon of a call in progress is the last that was started.
LEMMA LatestInPlace ==
  ASSUME TypeOK, CallInv, FailInv, NEW c \in Call, Active(c)
  PROVE  ~Displaced(c)
<1>1. \A d \in Call : c < d => pc[d] = "new"
  BY DEF CallInv, TypeOK, Call
<1>2. QED
  BY <1>1 DEF FailInv, Displaced

LEMMA DisplacedForever ==
  ASSUME TypeOK, [Next]_vars
  PROVE  \A c \in Call : Displaced(c) => Displaced(c)'
BY OldStaysOld, ProcNames DEF Displaced

LEMMA OrderlyHermes ==
  ASSUME Orderly, ServiceInv, Hermes
  PROVE  ServiceInv'
<1> PICK c \in Call : \/ ConnectAgain(c) \/ BeginConnect(c)
                       \/ BeginDisconnect(c) \/ CancelCall(c)
  BY DEF Hermes
<1>t. TypeOK'
  BY TypeHermes DEF ServiceInv
<1> SUFFICES CallInv' /\ LoopInv' /\ WaitInv' /\ WatcherInv'
             /\ DaemonInv' /\ FailInv' /\ QuietInv'
  BY <1>t DEF ServiceInv
<1>i. TypeOK /\ CallInv /\ LoopInv /\ WaitInv /\ WatcherInv
      /\ DaemonInv /\ FailInv /\ QuietInv
  BY DEF ServiceInv
<1>d. \A d \in Call : Displaced(d) => Displaced(d)'
  BY <1>i, DisplacedForever DEF Next
<1> USE <1>i, <1>d
<1>1. CASE ConnectAgain(c)
  <2>1. CallInv' /\ LoopInv' /\ WaitInv' /\ WatcherInv'
    BY <1>1, ProcNames DEF CallInv, LoopInv, WaitInv, WatcherInv, TypeOK,
      Live, Working, Active, Connecting, Disconnecting, ConnectAgain,
      flagVars, loopVars, handleVars, procVars, envVars, Begin, MayCall,
      CleanedUp
  <2>2. DaemonInv' /\ FailInv'
    BY <1>1, ProcNames DEF DaemonInv, CallInv, FailInv, TypeOK, Live, Working,
      Active, Connecting, Disconnecting, ConnectAgain, flagVars, loopVars,
      handleVars, procVars, envVars, Begin, MayCall, CleanedUp
  <2>3. QuietInv'
    BY <1>1, ProcNames DEF QuietInv, CallInv, LoopInv, WatcherInv, DaemonInv,
      TypeOK, Live, Working, Active, Connecting, Disconnecting, ConnectAgain,
      flagVars, loopVars, handleVars, procVars, envVars, Begin, MayCall,
      CleanedUp
  <2>4. QED
    BY <2>1, <2>2, <2>3
<1>2. CASE BeginConnect(c)
  <2>1. CallInv' /\ LoopInv' /\ WaitInv' /\ WatcherInv'
    BY <1>2, ProcNames DEF CallInv, LoopInv, WaitInv, WatcherInv, TypeOK,
      Live, Working, Active, Connecting, Disconnecting, BeginConnect,
      loopVars, handleVars, procVars, envVars, Begin, MayCall, CleanedUp
  <2>2. DaemonInv' /\ FailInv'
    BY <1>2, ProcNames DEF DaemonInv, CallInv, FailInv, TypeOK, Live, Working,
      Active, Connecting, Disconnecting, BeginConnect, loopVars, handleVars,
      procVars, envVars, Begin, MayCall, CleanedUp
  <2>3. QuietInv'
    BY <1>2, ProcNames DEF QuietInv, CallInv, LoopInv, WatcherInv, DaemonInv,
      TypeOK, Live, Working, Active, Connecting, Disconnecting, BeginConnect,
      loopVars, handleVars, procVars, envVars, Begin, MayCall, CleanedUp
  <2>4. QED
    BY <2>1, <2>2, <2>3
<1>3. CASE BeginDisconnect(c)
  <2>0. watchTask # None => Abandons(<<"loop", watchTask>>)
    BY <1>3, AbandonEffect DEF BeginDisconnect
  <2>1. CallInv'
    BY <1>3 DEF CallInv, TypeOK, Active, Connecting, Disconnecting,
      BeginDisconnect, handleVars, envVars, Begin, MayCall, CleanedUp
  <2>2. LoopInv'
    BY <1>3, SMTT(20), ProcNames, <2>0 DEF LoopInv, CallInv, TypeOK, Live,
      Disconnecting, Connecting, Active, Abandons, BeginDisconnect,
      handleVars, envVars, Begin, MayCall, CleanedUp
  <2>3. WaitInv'
    BY <1>3, ProcNames, <2>0 DEF WaitInv, TypeOK, Abandons, BeginDisconnect,
      handleVars, envVars, Begin, MayCall, CleanedUp
  <2>4. WatcherInv'
    BY <1>3, SMTT(20), ProcNames, <2>0 DEF WatcherInv, CallInv, LoopInv, TypeOK,
      Working, Active, Connecting, Disconnecting, Abandons, BeginDisconnect,
      handleVars, envVars, Begin, MayCall, CleanedUp
  <2>5. DaemonInv'
    BY <1>3, SMTT(20), ProcNames, <2>0 DEF DaemonInv, CallInv, TypeOK, Working,
      Active,
      Connecting, Disconnecting, Abandons, BeginDisconnect, handleVars,
      envVars, Begin, MayCall, CleanedUp
  <2>6. FailInv'
    BY <1>3, SMTT(20), ProcNames, <2>0 DEF FailInv, CallInv, DaemonInv, TypeOK,
      Working,
      Active, Connecting, Disconnecting, Abandons, BeginDisconnect,
      handleVars, envVars, Begin, MayCall, CleanedUp
  <2>7. QuietInv'
    BY <1>3, SMTT(20), ProcNames, <2>0 DEF QuietInv, CallInv, LoopInv,
      WatcherInv,
      DaemonInv, TypeOK, Active, Connecting, Disconnecting, Live, Abandons,
      BeginDisconnect, handleVars, envVars, Begin, MayCall, CleanedUp
  <2>8. QED
    BY <2>1, <2>2, <2>3, <2>4, <2>5, <2>6, <2>7
<1>4. CASE CancelCall(c)
  <2>0. Abandons(<<"call", c>>)
    BY <1>4, AbandonEffect DEF CancelCall
  <2>1. CallInv'
    BY <1>4 DEF CallInv, TypeOK, Active, Connecting, Disconnecting,
      CancelCall, flagVars, loopVars, handleVars, envVars
  <2>2. LoopInv'
    BY <1>4, SMTT(20), ProcNames, <2>0 DEF LoopInv, CallInv, TypeOK, Live,
      Disconnecting, Connecting, Active, Abandons, CancelCall, flagVars,
      loopVars, handleVars, envVars
  <2>3. WaitInv'
    <3> SUFFICES ASSUME NEW b \in Call, NEW d \in Call,
                        stopper'[Watcher(d)] = <<"loop", b>>
                 PROVE  b = d
      BY DEF WaitInv
    <3>1. stopper[Watcher(d)] = <<"loop", b>>
      BY <2>0, ProcNames DEF Abandons
    <3>2. QED
      BY <3>1 DEF WaitInv
  <2>4. WatcherInv'
    BY <1>4, SMTT(20), ProcNames, <2>0 DEF WatcherInv, CallInv, LoopInv, TypeOK,
      Working, Active, Connecting, Disconnecting, Abandons, CancelCall,
      flagVars, loopVars, handleVars, envVars
  <2>5. DaemonInv'
    BY <1>4, SMTT(20), ProcNames, <2>0 DEF DaemonInv, CallInv, TypeOK, Working,
      Active,
      Connecting, Disconnecting, Abandons, CancelCall, flagVars, loopVars,
      handleVars, envVars
  <2>6. FailInv'
    BY <1>4, SMTT(20), ProcNames, <2>0 DEF FailInv, CallInv, DaemonInv, TypeOK,
      Working,
      Active, Connecting, Disconnecting, Abandons, CancelCall, flagVars,
      loopVars, handleVars, envVars
  <2>7. QuietInv'
    BY <1>4, SMTT(20), ProcNames, <2>0 DEF QuietInv, CallInv, LoopInv,
      WatcherInv,
      DaemonInv, TypeOK, Active, Connecting, Disconnecting, Live, Abandons,
      CancelCall, flagVars, loopVars, handleVars, envVars
  <2>8. QED
    BY <2>1, <2>2, <2>3, <2>4, <2>5, <2>6, <2>7
<1>5. QED
  BY <1>1, <1>2, <1>3, <1>4

LEMMA OrderlyConnect ==
  ASSUME Orderly, ServiceInv, NEW c \in Call, Connect(c)
  PROVE  ServiceInv'
<1>t. TypeOK'
  BY TypeConnect DEF ServiceInv
<1> SUFFICES CallInv' /\ LoopInv' /\ WaitInv' /\ WatcherInv'
             /\ DaemonInv' /\ FailInv' /\ QuietInv'
  BY <1>t DEF ServiceInv
<1>i. TypeOK /\ CallInv /\ LoopInv /\ WaitInv /\ WatcherInv
      /\ DaemonInv /\ FailInv /\ QuietInv
  BY DEF ServiceInv
<1>d. \A d \in Call : Displaced(d) => Displaced(d)'
  BY <1>i, DisplacedForever DEF Next
<1> USE <1>i, <1>d
<1>1. CASE StatusFails(c)
  <2>1. CallInv' /\ LoopInv' /\ WaitInv' /\ WatcherInv'
    BY <1>1, ProcNames DEF CallInv, LoopInv, WaitInv, WatcherInv, TypeOK,
      Live, Working, Active, Connecting, Disconnecting, StatusFails,
      NotRunning, loopVars, handleVars, procVars, envVars, Goto
  <2>2. DaemonInv' /\ FailInv'
    BY <1>1, ProcNames DEF DaemonInv, CallInv, FailInv, TypeOK, Live, Working,
      Active, Connecting, Disconnecting, StatusFails, NotRunning, loopVars,
      handleVars, procVars, envVars, Goto
  <2>3. QuietInv'
    BY <1>1, ProcNames DEF QuietInv, CallInv, LoopInv, WatcherInv, DaemonInv,
      TypeOK, Live, Working, Active, Connecting, Disconnecting, StatusFails,
      NotRunning, loopVars, handleVars, procVars, envVars, Goto
  <2>4. QED
    BY <2>1, <2>2, <2>3
<1>2. CASE StatusUnavailable(c)
  <2>1. CallInv' /\ LoopInv' /\ WaitInv' /\ WatcherInv'
    BY <1>2, ProcNames DEF CallInv, LoopInv, WaitInv, WatcherInv, TypeOK,
      Live, Working, Active, Connecting, Disconnecting, StatusUnavailable,
      flagVars, loopVars, handleVars, procVars, envVars, Goto
  <2>2. DaemonInv' /\ FailInv'
    BY <1>2, ProcNames DEF DaemonInv, CallInv, FailInv, TypeOK, Live, Working,
      Active, Connecting, Disconnecting, StatusUnavailable, flagVars,
      loopVars, handleVars, procVars, envVars, Goto
  <2>3. QuietInv'
    BY <1>2, ProcNames DEF QuietInv, CallInv, LoopInv, WatcherInv, DaemonInv,
      TypeOK, Live, Working, Active, Connecting, Disconnecting,
      StatusUnavailable, flagVars, loopVars, handleVars, procVars, envVars,
      Goto
  <2>4. QED
    BY <2>1, <2>2, <2>3
<1>3. CASE BinaryMissing(c)
  <2>0. Stops(daemonProcess, <<"call", c>>)
    BY <1>3, StopEffect DEF BinaryMissing, StopOwnedDaemon, Actor
  <2>1. CallInv'
    BY <1>3 DEF CallInv, TypeOK, Active, Connecting, Disconnecting,
      BinaryMissing, StopOwnedDaemon, flagVars, loopVars, envVars, Goto
  <2>2. LoopInv'
    BY <1>3, SMTT(20), ProcNames, <2>0 DEF LoopInv, CallInv, TypeOK, Live,
      Disconnecting, Connecting, Active, Stops, BinaryMissing,
      StopOwnedDaemon, flagVars, loopVars, envVars, Goto
  <2>3. WaitInv'
    BY <1>3, ProcNames, <2>0 DEF WaitInv, TypeOK, Stops, BinaryMissing,
      StopOwnedDaemon, flagVars, loopVars, envVars, Goto
  <2>4. WatcherInv'
    BY <1>3, SMTT(20), ProcNames, <2>0 DEF WatcherInv, CallInv, LoopInv, TypeOK,
      Working, Active, Connecting, Disconnecting, Stops, BinaryMissing,
      StopOwnedDaemon, flagVars, loopVars, envVars, Goto
  <2>5. DaemonInv'
    BY <1>3, SMTT(20), ProcNames, <2>0 DEF DaemonInv, CallInv, TypeOK,
      Working, Active, Connecting, Disconnecting, Stops, BinaryMissing,
      StopOwnedDaemon, flagVars, loopVars, envVars, Goto
  <2>6. FailInv'
    BY <1>3, <2>0, RejectedDaemonAwaited DEF BinaryMissing, Goto
  <2>7. QuietInv'
    BY <1>3, SMTT(20), ProcNames, <2>0 DEF QuietInv, CallInv, LoopInv,
      WatcherInv,
      DaemonInv, TypeOK, Active, Connecting, Disconnecting, Live, Stops,
      BinaryMissing, StopOwnedDaemon, flagVars, loopVars, envVars, Goto
  <2>8. QED
    BY <2>1, <2>2, <2>3, <2>4, <2>5, <2>6, <2>7
<1>4. CASE SpawnDaemon(c)
  <2>1. CallInv'
    BY <1>4 DEF CallInv, TypeOK, Active, Connecting, Disconnecting,
      SpawnDaemon, flagVars, loopVars, envVars, Goto, Spawn
  <2>2. LoopInv'
    BY <1>4, ProcNames DEF LoopInv, CallInv, TypeOK, Live, Disconnecting,
      Connecting, Active, SpawnDaemon, flagVars, loopVars, envVars, Goto,
      Spawn
  <2>3. WaitInv'
    BY <1>4, ProcNames DEF WaitInv, TypeOK, SpawnDaemon, flagVars, loopVars,
      envVars, Goto, Spawn
  <2>4. WatcherInv'
    BY <1>4, ProcNames DEF WatcherInv, CallInv, LoopInv, TypeOK, Working,
      Active, Connecting, Disconnecting, SpawnDaemon, flagVars, loopVars,
      envVars, Goto, Spawn
  <2>5. DaemonInv'
    <3>1. calls = c /\ proc[Daemon(c)] = "new" /\ (proc')[Daemon(c)] = "up"
      BY <1>4, ProcNames DEF SpawnDaemon, Spawn, FailInv, CallInv, Active,
        Connecting, TypeOK
    <3>2. \A d \in Call : d # c /\ proc[Daemon(d)] # "new" => d < c
      BY <3>1 DEF FailInv, TypeOK, Call
    <3>3. ASSUME NEW d \in Call, Working(Daemon(d))', d # c
          PROVE  Displaced(d)'
      <4>1. proc[Daemon(d)] # "new"
        BY <1>4, <3>3, ProcNames DEF SpawnDaemon, Spawn, Working, TypeOK
      <4>2. QED
        BY <3>1, <3>2, <3>3, <4>1 DEF Displaced
    <3>4. (daemonProcess)' = Daemon(c)
      BY <1>4 DEF SpawnDaemon
    <3>5. \A d \in Call : d # c => (pc')[d] = pc[d] /\ ~Active(d)
      BY <1>4, <3>1 DEF SpawnDaemon, Goto, CallInv, TypeOK
    <3>6. (pc')[c] = "polling"
      BY <1>4 DEF SpawnDaemon, Goto, TypeOK
    <3>7. QED
      BY <3>3, <3>4, <3>5, <3>6 DEF DaemonInv, Active, Connecting,
        Disconnecting
  <2>6. FailInv'
    BY <1>4, ProcNames DEF FailInv, CallInv, DaemonInv, TypeOK, Working,
      Active, Connecting, Disconnecting, SpawnDaemon, flagVars, loopVars,
      envVars, Goto, Spawn
  <2>7. QuietInv'
    BY <1>4, ProcNames DEF QuietInv, CallInv, LoopInv, WatcherInv, DaemonInv,
      TypeOK, Active, Connecting, Disconnecting, Live, SpawnDaemon, flagVars,
      loopVars, envVars, Goto, Spawn
  <2>8. QED
    BY <2>1, <2>2, <2>3, <2>4, <2>5, <2>6, <2>7
<1>5. CASE SpawnDaemonFails(c)
  <2>1. CallInv' /\ LoopInv' /\ WaitInv' /\ WatcherInv'
    BY <1>5, ProcNames DEF CallInv, LoopInv, WaitInv, WatcherInv, TypeOK,
      Live, Working, Active, Connecting, Disconnecting, SpawnDaemonFails,
      flagVars, loopVars, handleVars, procVars, envVars, Goto
  <2>2. DaemonInv' /\ FailInv'
    BY <1>5, ProcNames DEF DaemonInv, CallInv, FailInv, TypeOK, Live, Working,
      Active, Connecting, Disconnecting, SpawnDaemonFails, flagVars, loopVars,
      handleVars, procVars, envVars, Goto
  <2>3. QuietInv'
    BY <1>5, ProcNames DEF QuietInv, CallInv, LoopInv, WatcherInv, DaemonInv,
      TypeOK, Live, Working, Active, Connecting, Disconnecting,
      SpawnDaemonFails, flagVars, loopVars, handleVars, procVars, envVars,
      Goto
  <2>4. QED
    BY <2>1, <2>2, <2>3
<1>6. CASE PollRaises(c)
  <2>1. CallInv' /\ LoopInv' /\ WaitInv' /\ WatcherInv'
    BY <1>6, ProcNames DEF CallInv, LoopInv, WaitInv, WatcherInv, TypeOK,
      Live, Working, Active, Connecting, Disconnecting, PollRaises, flagVars,
      loopVars, handleVars, procVars, envVars, Goto
  <2>2. DaemonInv' /\ FailInv'
    BY <1>6, ProcNames DEF DaemonInv, CallInv, FailInv, TypeOK, Live, Working,
      Active, Connecting, Disconnecting, PollRaises, flagVars, loopVars,
      handleVars, procVars, envVars, Goto
  <2>3. QuietInv'
    BY <1>6, ProcNames DEF QuietInv, CallInv, LoopInv, WatcherInv, DaemonInv,
      TypeOK, Live, Working, Active, Connecting, Disconnecting, PollRaises,
      flagVars, loopVars, handleVars, procVars, envVars, Goto
  <2>4. QED
    BY <2>1, <2>2, <2>3
<1>7. CASE PollGivesUp(c)
  <2>0. Stops(daemonProcess, <<"call", c>>)
    BY <1>7, StopEffect DEF PollGivesUp, StopOwnedDaemon, Actor
  <2>1. CallInv'
    BY <1>7 DEF CallInv, TypeOK, Active, Connecting, Disconnecting,
      PollGivesUp, StopOwnedDaemon, flagVars, loopVars, envVars, Goto
  <2>2. LoopInv'
    BY <1>7, SMTT(20), ProcNames, <2>0 DEF LoopInv, CallInv, TypeOK, Live,
      Disconnecting, Connecting, Active, Stops, PollGivesUp, StopOwnedDaemon,
      flagVars, loopVars, envVars, Goto
  <2>3. WaitInv'
    BY <1>7, ProcNames, <2>0 DEF WaitInv, TypeOK, Stops, PollGivesUp,
      StopOwnedDaemon, flagVars, loopVars, envVars, Goto
  <2>4. WatcherInv'
    BY <1>7, SMTT(20), ProcNames, <2>0 DEF WatcherInv, CallInv, LoopInv, TypeOK,
      Working, Active, Connecting, Disconnecting, Stops, PollGivesUp,
      StopOwnedDaemon, flagVars, loopVars, envVars, Goto
  <2>5. DaemonInv'
    BY <1>7, SMTT(20), ProcNames, <2>0 DEF DaemonInv, CallInv, TypeOK,
      Working, Active, Connecting, Disconnecting, Stops, PollGivesUp,
      StopOwnedDaemon, flagVars, loopVars, envVars, Goto
  <2>6. FailInv'
    BY <1>7, <2>0, RejectedDaemonAwaited DEF PollGivesUp, Goto
  <2>7. QuietInv'
    BY <1>7, SMTT(20), ProcNames, <2>0 DEF QuietInv, CallInv, LoopInv,
      WatcherInv,
      DaemonInv, TypeOK, Active, Connecting, Disconnecting, Live, Stops,
      PollGivesUp, StopOwnedDaemon, flagVars, loopVars, envVars, Goto
  <2>8. QED
    BY <2>1, <2>2, <2>3, <2>4, <2>5, <2>6, <2>7
<1>8. CASE IdentityMissing(c)
  <2>0. Stops(daemonProcess, <<"call", c>>)
    BY <1>8, StopEffect DEF IdentityMissing, StopOwnedDaemon, Actor
  <2>1. CallInv'
    BY <1>8 DEF CallInv, TypeOK, Active, Connecting, Disconnecting,
      IdentityMissing, StopOwnedDaemon, flagVars, loopVars, envVars, Goto
  <2>2. LoopInv'
    BY <1>8, SMTT(20), ProcNames, <2>0 DEF LoopInv, CallInv, TypeOK, Live,
      Disconnecting, Connecting, Active, Stops, IdentityMissing,
      StopOwnedDaemon, flagVars, loopVars, envVars, Goto
  <2>3. WaitInv'
    BY <1>8, ProcNames, <2>0 DEF WaitInv, TypeOK, Stops, IdentityMissing,
      StopOwnedDaemon, flagVars, loopVars, envVars, Goto
  <2>4. WatcherInv'
    BY <1>8, SMTT(20), ProcNames, <2>0 DEF WatcherInv, CallInv, LoopInv, TypeOK,
      Working, Active, Connecting, Disconnecting, Stops, IdentityMissing,
      StopOwnedDaemon, flagVars, loopVars, envVars, Goto
  <2>5. DaemonInv'
    BY <1>8, SMTT(20), ProcNames, <2>0 DEF DaemonInv, CallInv, TypeOK,
      Working, Active, Connecting, Disconnecting, Stops, IdentityMissing,
      StopOwnedDaemon, flagVars, loopVars, envVars, Goto
  <2>6. FailInv'
    BY <1>8, <2>0, RejectedDaemonAwaited DEF IdentityMissing, Goto
  <2>7. QuietInv'
    BY <1>8, SMTT(20), ProcNames, <2>0 DEF QuietInv, CallInv, LoopInv,
      WatcherInv,
      DaemonInv, TypeOK, Active, Connecting, Disconnecting, Live, Stops,
      IdentityMissing, StopOwnedDaemon, flagVars, loopVars, envVars, Goto
  <2>8. QED
    BY <2>1, <2>2, <2>3, <2>4, <2>5, <2>6, <2>7
<1>9. CASE Rejected(c)
  <2>1. CallInv' /\ LoopInv' /\ WaitInv' /\ WatcherInv'
    BY <1>9, ProcNames DEF CallInv, LoopInv, WaitInv, WatcherInv, TypeOK,
      Live, Working, Active, Connecting, Disconnecting, Rejected, NotRunning,
      loopVars, handleVars, procVars, envVars, Goto, WaitsForExit
  <2>2. DaemonInv' /\ FailInv'
    BY <1>9, ProcNames DEF DaemonInv, CallInv, FailInv, TypeOK, Live, Working,
      Active, Connecting, Disconnecting, Rejected, NotRunning, loopVars,
      handleVars, procVars, envVars, Goto, WaitsForExit
  <2>3. QuietInv'
    BY <1>9, ProcNames DEF QuietInv, CallInv, LoopInv, WatcherInv, DaemonInv,
      TypeOK, Live, Working, Active, Connecting, Disconnecting, Rejected,
      NotRunning, loopVars, handleVars, procVars, envVars, Goto, WaitsForExit
  <2>4. QED
    BY <2>1, <2>2, <2>3
<1>10. CASE ConnectSilently(c)
  <2>1. CallInv' /\ LoopInv' /\ WaitInv' /\ WatcherInv'
    BY <1>10, ProcNames DEF CallInv, LoopInv, WaitInv, WatcherInv, TypeOK,
      Live, Working, Active, Connecting, Disconnecting, ConnectSilently,
      loopVars, handleVars, procVars, envVars, Goto
  <2>2. DaemonInv' /\ FailInv'
    BY <1>10, ProcNames DEF DaemonInv, CallInv, FailInv, TypeOK, Live,
      Working, Active, Connecting, Disconnecting, ConnectSilently, loopVars,
      handleVars, procVars, envVars, Goto
  <2>3. QuietInv'
    BY <1>10, ProcNames DEF QuietInv, CallInv, LoopInv, WatcherInv, DaemonInv,
      TypeOK, Live, Working, Active, Connecting, Disconnecting,
      ConnectSilently, loopVars, handleVars, procVars, envVars, Goto
  <2>4. QED
    BY <2>1, <2>2, <2>3
<1>11. CASE StatusReady(c)
  <2>1. CallInv' /\ LoopInv' /\ WaitInv' /\ WatcherInv'
    BY <1>11, ProcNames DEF CallInv, LoopInv, WaitInv, WatcherInv, TypeOK,
      Live, Working, Active, Connecting, Disconnecting, StatusReady, flagVars,
      loopVars, handleVars, procVars, envVars, Goto
  <2>2. DaemonInv' /\ FailInv'
    BY <1>11, ProcNames DEF DaemonInv, CallInv, FailInv, TypeOK, Live,
      Working, Active, Connecting, Disconnecting, StatusReady, flagVars,
      loopVars, handleVars, procVars, envVars, Goto
  <2>3. QuietInv'
    BY <1>11, ProcNames DEF QuietInv, CallInv, LoopInv, WatcherInv, DaemonInv,
      TypeOK, Live, Working, Active, Connecting, Disconnecting, StatusReady,
      flagVars, loopVars, handleVars, procVars, envVars, Goto
  <2>4. QED
    BY <2>1, <2>2, <2>3
<1>12. CASE CursorReady(c)
  <2>1. CallInv' /\ LoopInv' /\ WaitInv' /\ WatcherInv'
    BY <1>12, ProcNames DEF CallInv, LoopInv, WaitInv, WatcherInv, TypeOK,
      Live, Working, Active, Connecting, Disconnecting, CursorReady, flagVars,
      loopVars, handleVars, procVars, envVars, Goto, Alive
  <2>2. DaemonInv' /\ FailInv'
    BY <1>12, ProcNames DEF DaemonInv, CallInv, FailInv, TypeOK, Live,
      Working, Active, Connecting, Disconnecting, CursorReady, flagVars,
      loopVars, handleVars, procVars, envVars, Goto, Alive
  <2>3. QuietInv'
    BY <1>12, ProcNames DEF QuietInv, CallInv, LoopInv, WatcherInv, DaemonInv,
      TypeOK, Live, Working, Active, Connecting, Disconnecting, CursorReady,
      flagVars, loopVars, handleVars, procVars, envVars, Goto, Alive
  <2>4. QED
    BY <2>1, <2>2, <2>3
<1>13. CASE WatchFails(c)
  <2>0. Stops(watchProcess, <<"call", c>>)
    BY <1>13, StopEffect DEF WatchFails, StopWatcher, Actor
  <2>1. CallInv'
    BY <1>13 DEF CallInv, TypeOK, Active, Connecting, Disconnecting,
      WatchFails, StopWatcher, flagVars, loopVars, envVars, Goto
  <2>2. LoopInv'
    BY <1>13, SMTT(20), ProcNames, <2>0 DEF LoopInv, CallInv, TypeOK, Live,
      Disconnecting, Connecting, Active, Stops, WatchFails, StopWatcher,
      flagVars, loopVars, envVars, Goto
  <2>3. WaitInv'
    BY <1>13, ProcNames, <2>0 DEF WaitInv, TypeOK, Stops, WatchFails,
      StopWatcher, flagVars, loopVars, envVars, Goto
  <2>4. WatcherInv'
    BY <1>13, SMTT(20), ProcNames, <2>0 DEF WatcherInv, CallInv, LoopInv,
      TypeOK,
      Working, Active, Connecting, Disconnecting, Stops, WatchFails,
      StopWatcher, flagVars, loopVars, envVars, Goto
  <2>5. DaemonInv'
    BY <1>13, SMTT(20), ProcNames, <2>0 DEF DaemonInv, CallInv, TypeOK,
      Working, Active, Connecting, Disconnecting, Stops, WatchFails,
      StopWatcher, flagVars, loopVars, envVars, Goto
  <2>6. FailInv'
    <3>1. pc[c] = "spawn_watcher" \/ pc[c] = "cursor"
      BY <1>13 DEF WatchFails
    <3>2. pc' = [pc EXCEPT ![c] = "cleaning_watcher"]
      BY <1>13 DEF WatchFails, Goto
    <3>3. \A d \in Call : /\ (proc')[Daemon(d)] = proc[Daemon(d)]
                          /\ (stopper')[Daemon(d)] = stopper[Daemon(d)]
      BY ProcNames, <2>0 DEF TypeOK, Stops
    <3>4. QED
      BY <3>1, <3>2, <3>3, ProcNames DEF FailInv, TypeOK
  <2>7. QuietInv'
    BY <1>13, SMTT(20), ProcNames, <2>0 DEF QuietInv, CallInv, LoopInv,
      WatcherInv,
      DaemonInv, TypeOK, Active, Connecting, Disconnecting, Live, Stops,
      WatchFails, StopWatcher, flagVars, loopVars, envVars, Goto
  <2>8. QED
    BY <2>1, <2>2, <2>3, <2>4, <2>5, <2>6, <2>7
<1>14. CASE SpawnWatcher(c)
  <2>1. CallInv'
    BY <1>14 DEF CallInv, TypeOK, Active, Connecting, Disconnecting,
      SpawnWatcher, envVars, Goto, Spawn
  <2>2. LoopInv'
    BY <1>14, ProcNames DEF LoopInv, CallInv, TypeOK, Live, Disconnecting,
      Connecting, Active, SpawnWatcher, envVars, Goto, Spawn
  <2>3. WaitInv'
    BY <1>14, ProcNames DEF WaitInv, TypeOK, SpawnWatcher, envVars, Goto,
      Spawn
  <2>4. WatcherInv'
    BY <1>14, ProcNames DEF WatcherInv, CallInv, LoopInv, TypeOK, Working,
      Active, Connecting, Disconnecting, SpawnWatcher, envVars, Goto, Spawn
  <2>5. DaemonInv'
    BY <1>14, ProcNames DEF DaemonInv, CallInv, TypeOK, Working, Active,
      Connecting, Disconnecting, SpawnWatcher, envVars, Goto, Spawn
  <2>6. FailInv'
    BY <1>14, ProcNames DEF FailInv, CallInv, DaemonInv, TypeOK, Working,
      Active, Connecting, Disconnecting, SpawnWatcher, envVars, Goto, Spawn
  <2>7. QuietInv'
    BY <1>14, ProcNames DEF QuietInv, CallInv, LoopInv, WatcherInv, DaemonInv,
      TypeOK, Active, Connecting, Disconnecting, Live, SpawnWatcher, envVars,
      Goto, Spawn
  <2>8. QED
    BY <2>1, <2>2, <2>3, <2>4, <2>5, <2>6, <2>7
<1>15. QED
  BY <1>1, <1>2, <1>3, <1>4, <1>5, <1>6, <1>7, <1>8, <1>9, <1>10, <1>11,
    <1>12, <1>13, <1>14 DEF Connect

LEMMA OrderlyStop ==
  ASSUME Orderly, ServiceInv, NEW c \in Call, Stop(c)
  PROVE  ServiceInv'
<1>t. TypeOK'
  BY TypeStop DEF ServiceInv
<1> SUFFICES CallInv' /\ LoopInv' /\ WaitInv' /\ WatcherInv'
             /\ DaemonInv' /\ FailInv' /\ QuietInv'
  BY <1>t DEF ServiceInv
<1>i. TypeOK /\ CallInv /\ LoopInv /\ WaitInv /\ WatcherInv
      /\ DaemonInv /\ FailInv /\ QuietInv
  BY DEF ServiceInv
<1>d. \A d \in Call : Displaced(d) => Displaced(d)'
  BY <1>i, DisplacedForever DEF Next
<1> USE <1>i, <1>d
<1>1. CASE LoopCancelled(c)
  <2>0. Stops(watchProcess, <<"call", c>>)
    BY <1>1, StopEffect DEF LoopCancelled, StopWatcher, Actor
  <2>1. CallInv'
    BY <1>1 DEF CallInv, TypeOK, Active, Connecting, Disconnecting,
      LoopCancelled, StopWatcher, flagVars, loopVars, envVars, Goto
  <2>2. LoopInv'
    BY <1>1, SMTT(20), ProcNames, <2>0 DEF LoopInv, CallInv, TypeOK, Live,
      Disconnecting, Connecting, Active, Stops, LoopCancelled, StopWatcher,
      flagVars, loopVars, envVars, Goto
  <2>3. WaitInv'
    BY <1>1, ProcNames, <2>0 DEF WaitInv, TypeOK, Stops, LoopCancelled,
      StopWatcher, flagVars, loopVars, envVars, Goto
  <2>4. WatcherInv'
    BY <1>1, SMTT(20), ProcNames, <2>0 DEF WatcherInv, CallInv, LoopInv, TypeOK,
      Working, Active, Connecting, Disconnecting, Stops, LoopCancelled,
      StopWatcher, flagVars, loopVars, envVars, Goto
  <2>5. DaemonInv'
    BY <1>1, SMTT(20), ProcNames, <2>0 DEF DaemonInv, CallInv, TypeOK,
      Working, Active, Connecting, Disconnecting, Stops, LoopCancelled,
      StopWatcher, flagVars, loopVars, envVars, Goto
  <2>6. FailInv'
    BY <1>1, SMTT(20), ProcNames, <2>0 DEF FailInv, CallInv, DaemonInv, TypeOK,
      Working,
      Active, Connecting, Disconnecting, Stops, LoopCancelled, StopWatcher,
      flagVars, loopVars, envVars, Goto
  <2>7. QuietInv'
    BY <1>1, SMTT(20), ProcNames, <2>0 DEF QuietInv, CallInv, LoopInv,
      WatcherInv,
      DaemonInv, TypeOK, Active, Connecting, Disconnecting, Live, Stops,
      LoopCancelled, StopWatcher, flagVars, loopVars, envVars, Goto
  <2>8. QED
    BY <2>1, <2>2, <2>3, <2>4, <2>5, <2>6, <2>7
<1>2. CASE WatcherStopped(c)
  <2>0. Stops(daemonProcess, <<"call", c>>)
    BY <1>2, StopEffect DEF WatcherStopped, StopOwnedDaemon, Actor
  <2>1. CallInv'
    BY <1>2 DEF CallInv, TypeOK, Active, Connecting, Disconnecting,
      WatcherStopped, StopOwnedDaemon, flagVars, loopVars, envVars, Goto,
      WaitsForExit
  <2>2. LoopInv'
    BY <1>2, SMTT(20), ProcNames, <2>0 DEF LoopInv, CallInv, TypeOK, Live,
      Disconnecting, Connecting, Active, Stops, WatcherStopped,
      StopOwnedDaemon, flagVars, loopVars, envVars, Goto, WaitsForExit
  <2>3. WaitInv'
    BY <1>2, ProcNames, <2>0 DEF WaitInv, TypeOK, Stops, WatcherStopped,
      StopOwnedDaemon, flagVars, loopVars, envVars, Goto, WaitsForExit
  <2>4. WatcherInv'
    BY <1>2, SMTT(20), ProcNames, <2>0 DEF WatcherInv, CallInv, LoopInv, TypeOK,
      Working, Active, Connecting, Disconnecting, Stops, WatcherStopped,
      StopOwnedDaemon, flagVars, loopVars, envVars, Goto, WaitsForExit
  <2>5. DaemonInv'
    <3>1. CASE pc[c] = "stopping_watcher"
      BY <1>2, <3>1, SMTT(20), ProcNames, <2>0 DEF DaemonInv, CallInv, TypeOK,
        Working, Active, Connecting, Disconnecting, Stops, WatcherStopped,
        StopOwnedDaemon, flagVars, loopVars, envVars, Goto, WaitsForExit
    <3>2. CASE pc[c] = "cleaning_watcher"
      BY <1>2, <3>2, SMTT(20), ProcNames, <2>0 DEF DaemonInv, CallInv, TypeOK,
        Working, Active, Connecting, Disconnecting, Stops, WatcherStopped,
        StopOwnedDaemon, flagVars, loopVars, envVars, Goto, WaitsForExit
    <3>3. QED
      BY <1>2, <3>1, <3>2 DEF WatcherStopped
  <2>6. FailInv'
    <3>1. ~Displaced(c)
      BY <1>2, LatestInPlace DEF WatcherStopped, Active, Connecting,
        Disconnecting
    <3>2. Working(Daemon(c)) => daemonProcess = Daemon(c)
      BY <3>1 DEF DaemonInv
    <3>3. QED
      BY <1>2, <3>2, SMTT(20), ProcNames, <2>0 DEF FailInv, CallInv, TypeOK,
        Working, Active, Connecting, Disconnecting, Stops, WatcherStopped,
        StopOwnedDaemon, flagVars, loopVars, envVars, Goto, WaitsForExit
  <2>7. QuietInv'
    BY <1>2, SMTT(20), ProcNames, <2>0 DEF QuietInv, CallInv, LoopInv,
      WatcherInv,
      DaemonInv, TypeOK, Active, Connecting, Disconnecting, Live, Stops,
      WatcherStopped, StopOwnedDaemon, flagVars, loopVars, envVars, Goto,
      WaitsForExit
  <2>8. QED
    BY <2>1, <2>2, <2>3, <2>4, <2>5, <2>6, <2>7
<1>3. CASE ServiceStopped(c)
  <2>1. CallInv' /\ LoopInv' /\ WaitInv' /\ WatcherInv'
    BY <1>3, ProcNames DEF CallInv, LoopInv, WaitInv, WatcherInv, TypeOK,
      Live, Working, Active, Connecting, Disconnecting, ServiceStopped,
      NotRunning, loopVars, handleVars, envVars, Goto, WaitsForExit
  <2>2. DaemonInv' /\ FailInv'
    BY <1>3, ProcNames DEF DaemonInv, CallInv, FailInv, TypeOK, Live, Working,
      Active, Connecting, Disconnecting, ServiceStopped, NotRunning, loopVars,
      handleVars, envVars, Goto, WaitsForExit
  <2>3. QuietInv'
    BY <1>3, ProcNames DEF QuietInv, CallInv, LoopInv, WatcherInv, DaemonInv,
      TypeOK, Live, Working, Active, Connecting, Disconnecting,
      ServiceStopped, NotRunning, loopVars, handleVars, envVars, Goto,
      WaitsForExit
  <2>4. QED
    BY <2>1, <2>2, <2>3
<1>4. QED
  BY <1>1, <1>2, <1>3 DEF Stop

LEMMA OrderlyWatchLoop ==
  ASSUME Orderly, ServiceInv, NEW c \in Call, WatchLoop(c)
  PROVE  ServiceInv'
<1>t. TypeOK'
  BY TypeWatchLoop DEF ServiceInv
<1> SUFFICES CallInv' /\ LoopInv' /\ WaitInv' /\ WatcherInv'
             /\ DaemonInv' /\ FailInv' /\ QuietInv'
  BY <1>t DEF ServiceInv
<1>i. TypeOK /\ CallInv /\ LoopInv /\ WaitInv /\ WatcherInv
      /\ DaemonInv /\ FailInv /\ QuietInv
  BY DEF ServiceInv
<1>d. \A d \in Call : Displaced(d) => Displaced(d)'
  BY <1>i, DisplacedForever DEF Next
<1> USE <1>i, <1>d
<1>1. CASE LoopStarts(c)
  <2>1. CallInv' /\ LoopInv' /\ WaitInv' /\ WatcherInv'
    BY <1>1, ProcNames DEF CallInv, LoopInv, WaitInv, WatcherInv, TypeOK,
      Live, Working, Active, Connecting, Disconnecting, LoopStarts, callVars,
      flagVars, handleVars, procVars, envVars
  <2>2. DaemonInv' /\ FailInv'
    BY <1>1, ProcNames DEF DaemonInv, CallInv, FailInv, TypeOK, Live, Working,
      Active, Connecting, Disconnecting, LoopStarts, callVars, flagVars,
      handleVars, procVars, envVars
  <2>3. QuietInv'
    BY <1>1, ProcNames DEF QuietInv, CallInv, LoopInv, WatcherInv, DaemonInv,
      TypeOK, Live, Working, Active, Connecting, Disconnecting, LoopStarts,
      callVars, flagVars, handleVars, procVars, envVars
  <2>4. QED
    BY <2>1, <2>2, <2>3
<1>2. CASE LoopFails(c)
  <2>0. Stops(watchProcess, <<"loop", c>>)
    BY <1>2, StopEffect DEF LoopFails, StopWatcher, Actor
  <2>1. CallInv'
    BY <1>2 DEF CallInv, TypeOK, Active, Connecting, Disconnecting, LoopFails,
      NotRunning, StopWatcher, callVars, envVars
  <2>2. LoopInv'
    BY <1>2, SMTT(20), ProcNames, <2>0 DEF LoopInv, CallInv, TypeOK, Live,
      Disconnecting, Connecting, Active, Stops, LoopFails, NotRunning,
      StopWatcher, callVars, envVars
  <2>3. WaitInv'
    BY <1>2, ProcNames, <2>0 DEF WaitInv, LoopInv, TypeOK, Live, Stops,
      LoopFails, NotRunning, StopWatcher, callVars, envVars
  <2>4. WatcherInv'
    BY <1>2, SMTT(20), ProcNames, <2>0 DEF WatcherInv, CallInv, LoopInv, TypeOK,
      Working, Active, Connecting, Disconnecting, Stops, LoopFails,
      NotRunning, StopWatcher, callVars, envVars
  <2>5. DaemonInv'
    BY <1>2, SMTT(20), ProcNames, <2>0 DEF DaemonInv, CallInv, TypeOK,
      Working, Active, Connecting, Disconnecting, Stops, LoopFails,
      NotRunning, StopWatcher, callVars, envVars
  <2>6. FailInv'
    BY <1>2, SMTT(20), ProcNames, <2>0 DEF FailInv, CallInv, DaemonInv, TypeOK,
      Working,
      Active, Connecting, Disconnecting, Stops, LoopFails, NotRunning,
      StopWatcher, callVars, envVars
  <2>7. QuietInv'
    BY <1>2, SMTT(20), ProcNames, <2>0 DEF QuietInv, CallInv, LoopInv,
      WatcherInv,
      DaemonInv, TypeOK, Active, Connecting, Disconnecting, Live, Stops,
      LoopFails, NotRunning, StopWatcher, callVars, envVars
  <2>8. QED
    BY <2>1, <2>2, <2>3, <2>4, <2>5, <2>6, <2>7
<1>3. CASE LoopReturns(c)
  <2>1. CallInv' /\ LoopInv' /\ WaitInv' /\ WatcherInv'
    BY <1>3, ProcNames DEF CallInv, LoopInv, WaitInv, WatcherInv, TypeOK,
      Live, Working, Active, Connecting, Disconnecting, LoopReturns, callVars,
      flagVars, handleVars, procVars, envVars
  <2>2. DaemonInv' /\ FailInv'
    BY <1>3, ProcNames DEF DaemonInv, CallInv, FailInv, TypeOK, Live, Working,
      Active, Connecting, Disconnecting, LoopReturns, callVars, flagVars,
      handleVars, procVars, envVars
  <2>3. QuietInv'
    BY <1>3, ProcNames DEF QuietInv, CallInv, LoopInv, WatcherInv, DaemonInv,
      TypeOK, Live, Working, Active, Connecting, Disconnecting, LoopReturns,
      callVars, flagVars, handleVars, procVars, envVars
  <2>4. QED
    BY <2>1, <2>2, <2>3
<1>4. CASE LoopCloses(c)
  <2>1. CallInv' /\ LoopInv' /\ WaitInv' /\ WatcherInv'
    BY <1>4, ProcNames DEF CallInv, LoopInv, WaitInv, WatcherInv, TypeOK,
      Live, Working, Active, Connecting, Disconnecting, LoopCloses, callVars,
      flagVars, handleVars, procVars, envVars, WaitsForExit
  <2>2. DaemonInv' /\ FailInv'
    BY <1>4, ProcNames DEF DaemonInv, CallInv, FailInv, TypeOK, Live, Working,
      Active, Connecting, Disconnecting, LoopCloses, callVars, flagVars,
      handleVars, procVars, envVars, WaitsForExit
  <2>3. QuietInv'
    BY <1>4, ProcNames DEF QuietInv, CallInv, LoopInv, WatcherInv, DaemonInv,
      TypeOK, Live, Working, Active, Connecting, Disconnecting, LoopCloses,
      callVars, flagVars, handleVars, procVars, envVars, WaitsForExit
  <2>4. QED
    BY <2>1, <2>2, <2>3
<1>5. QED
  BY <1>1, <1>2, <1>3, <1>4 DEF WatchLoop

LEMMA OrderlyChildren ==
  ASSUME Orderly, ServiceInv, Children
  PROVE  ServiceInv'
<1> PICK p \in Proc : ChildExits(p) \/ Kill(p) \/ DrainFails(p)
  BY DEF Children
<1>t. TypeOK'
  BY TypeChildren DEF ServiceInv
<1> SUFFICES CallInv' /\ LoopInv' /\ WaitInv' /\ WatcherInv'
             /\ DaemonInv' /\ FailInv' /\ QuietInv'
  BY <1>t DEF ServiceInv
<1>i. TypeOK /\ CallInv /\ LoopInv /\ WaitInv /\ WatcherInv
      /\ DaemonInv /\ FailInv /\ QuietInv
  BY DEF ServiceInv
<1>d. \A d \in Call : Displaced(d) => Displaced(d)'
  BY <1>i, DisplacedForever DEF Next
<1> USE <1>i, <1>d
<1>1. CASE ChildExits(p)
  <2>1. CallInv' /\ LoopInv' /\ WaitInv' /\ WatcherInv'
    BY <1>1, ProcNames DEF CallInv, LoopInv, WaitInv, WatcherInv, TypeOK,
      Live, Working, Active, Connecting, Disconnecting, ChildExits, Exit,
      callVars, flagVars, loopVars, handleVars, envVars, Alive
  <2>2. DaemonInv' /\ FailInv'
    BY <1>1, ProcNames DEF DaemonInv, CallInv, FailInv, TypeOK, Live, Working,
      Active, Connecting, Disconnecting, ChildExits, Exit, callVars, flagVars,
      loopVars, handleVars, envVars, Alive
  <2>3. QuietInv'
    BY <1>1, ProcNames DEF QuietInv, CallInv, LoopInv, WatcherInv, DaemonInv,
      TypeOK, Live, Working, Active, Connecting, Disconnecting, ChildExits,
      Exit, callVars, flagVars, loopVars, handleVars, envVars, Alive
  <2>4. QED
    BY <2>1, <2>2, <2>3
<1>2. CASE Kill(p)
  <2>1. CallInv' /\ LoopInv' /\ WaitInv' /\ WatcherInv'
    BY <1>2, ProcNames DEF CallInv, LoopInv, WaitInv, WatcherInv, TypeOK,
      Live, Working, Active, Connecting, Disconnecting, Kill, Exit, callVars,
      flagVars, loopVars, handleVars, envVars
  <2>2. DaemonInv' /\ FailInv'
    BY <1>2, ProcNames DEF DaemonInv, CallInv, FailInv, TypeOK, Live, Working,
      Active, Connecting, Disconnecting, Kill, Exit, callVars, flagVars,
      loopVars, handleVars, envVars
  <2>3. QuietInv'
    BY <1>2, ProcNames DEF QuietInv, CallInv, LoopInv, WatcherInv, DaemonInv,
      TypeOK, Live, Working, Active, Connecting, Disconnecting, Kill, Exit,
      callVars, flagVars, loopVars, handleVars, envVars
  <2>4. QED
    BY <2>1, <2>2, <2>3
<1>3. CASE DrainFails(p)
  <2>1. CallInv' /\ LoopInv' /\ WaitInv' /\ WatcherInv'
    BY <1>3, ProcNames DEF CallInv, LoopInv, WaitInv, WatcherInv, TypeOK,
      Live, Working, Active, Connecting, Disconnecting, DrainFails, callVars,
      flagVars, loopVars, handleVars
  <2>2. DaemonInv' /\ FailInv'
    BY <1>3, ProcNames DEF DaemonInv, CallInv, FailInv, TypeOK, Live, Working,
      Active, Connecting, Disconnecting, DrainFails, callVars, flagVars,
      loopVars, handleVars
  <2>3. QuietInv'
    BY <1>3, ProcNames DEF QuietInv, CallInv, LoopInv, WatcherInv, DaemonInv,
      TypeOK, Live, Working, Active, Connecting, Disconnecting, DrainFails,
      callVars, flagVars, loopVars, handleVars
  <2>4. QED
    BY <2>1, <2>2, <2>3
<1>4. QED
  BY <1>1, <1>2, <1>3

LEMMA OrderlyNext ==
  ASSUME Orderly
  PROVE  ServiceInv /\ [Next]_vars => ServiceInv'
<1> SUFFICES ASSUME ServiceInv, [Next]_vars PROVE ServiceInv'
  OBVIOUS
<1>1. CASE UNCHANGED vars
  BY <1>1, TypeNext DEF ServiceInv, TypeOK, CallInv, LoopInv, WaitInv,
     WatcherInv, DaemonInv, FailInv, QuietInv, Active, Live, Working,
     Displaced, vars,
     callVars, flagVars, loopVars, handleVars, procVars, envVars
<1>2. CASE Next
  BY <1>2, OrderlyHermes, OrderlyConnect, OrderlyStop, OrderlyWatchLoop,
     OrderlyChildren DEF Next
<1>3. QED
  BY <1>1, <1>2

LEMMA ServiceInvariant ==
  ASSUME Orderly
  PROVE  Spec => []ServiceInv
BY ServiceInvInit, OrderlyNext, PTL DEF Spec

\* A call that has left _stop_process has no child to wait for any more.
LEMMA AwaitNext == TypeOK /\ AwaitInv /\ [Next]_vars => AwaitInv'
<1> SUFFICES ASSUME TypeOK, AwaitInv, [Next]_vars PROVE AwaitInv'
  OBVIOUS
<1> DEFINE Awaiting == {"rejecting", "stopping_watcher", "stopping_daemon",
                        "cleaning_watcher", "cleaning_daemon"}
           Stays == \A d \in Call : pc[d] \in Awaiting => (pc')[d] = pc[d]
<1>1. ASSUME Stays, UNCHANGED <<proc, stopper>> PROVE AwaitInv'
  BY <1>1 DEF AwaitInv
<1>2. ASSUME Stays, NEW p, NEW d \in Call, StopProcess(p, <<"loop", d>>)
      PROVE  AwaitInv'
  <2>1. Stops(p, <<"loop", d>>)
    BY <1>2, StopEffect DEF Actor
  <2>2. QED
    BY <1>2, <2>1, ProcNames DEF AwaitInv, Stops
<1>3. ASSUME NEW p, NEW c \in Call, StopProcess(p, <<"call", c>>),
             (pc')[c] \in Awaiting, \A d \in Call : d # c => (pc')[d] = pc[d]
      PROVE  AwaitInv'
  <2>1. Stops(p, <<"call", c>>)
    BY <1>3, StopEffect DEF Actor
  <2>2. QED
    BY <1>3, <2>1, ProcNames DEF AwaitInv, Stops
<1>4. CASE UNCHANGED vars
  BY <1>1, <1>4 DEF vars, callVars, procVars
<1>5. CASE Hermes
  <2> PICK c \in Call : \/ ConnectAgain(c) \/ BeginConnect(c)
                         \/ BeginDisconnect(c) \/ CancelCall(c)
    BY <1>5 DEF Hermes
  <2>1. CASE ConnectAgain(c) \/ BeginConnect(c)
    <3>1. pc[c] = "new" /\ \E place : pc' = [pc EXCEPT ![c] = place]
      BY <2>1 DEF ConnectAgain, BeginConnect, MayCall, Begin, TypeOK, Call
    <3>2. Stays
      BY <3>1 DEF TypeOK
    <3>3. UNCHANGED <<proc, stopper>>
      BY <2>1 DEF ConnectAgain, BeginConnect, procVars
    <3>4. QED
      BY <1>1, <3>2, <3>3
  <2>2. CASE BeginDisconnect(c)
    <3>1. Stays /\ proc' = proc
      BY <2>2 DEF BeginDisconnect, MayCall, Begin, TypeOK, Call
    <3>2. \A p \in Proc : (stopper')[p] = stopper[p] \/ (stopper')[p] = None
      BY <2>2, AbandonEffect DEF BeginDisconnect, Abandons
    <3>3. QED
      BY <3>1, <3>2, ProcNames DEF AwaitInv
  <2>3. CASE CancelCall(c)
    <3>1. Abandons(<<"call", c>>) /\ proc' = proc
      BY <2>3, AbandonEffect DEF CancelCall
    <3>2. \A d \in Call : d # c => (pc')[d] = pc[d]
      BY <2>3 DEF CancelCall, TypeOK
    <3>3. QED
      BY <3>1, <3>2, ProcNames DEF AwaitInv, Abandons
  <2>4. QED
    BY <2>1, <2>2, <2>3
<1>6. ASSUME NEW c \in Call, Connect(c) PROVE AwaitInv'
  <2>1. CASE \/ StatusFails(c) \/ StatusUnavailable(c) \/ SpawnDaemonFails(c)
             \/ PollRaises(c) \/ ConnectSilently(c) \/ StatusReady(c)
             \/ CursorReady(c)
    BY <1>1, <2>1 DEF StatusFails, StatusUnavailable, SpawnDaemonFails,
       PollRaises, ConnectSilently, StatusReady, CursorReady, Goto, TypeOK,
       procVars
  <2>2. CASE BinaryMissing(c) \/ PollGivesUp(c) \/ IdentityMissing(c)
    BY <1>3, <2>2 DEF BinaryMissing, PollGivesUp, IdentityMissing,
       StopOwnedDaemon, Goto, TypeOK
  <2>3. CASE WatchFails(c)
    BY <1>3, <2>3 DEF WatchFails, StopWatcher, Goto, TypeOK
  <2>4. CASE Rejected(c)
    BY <2>4 DEF Rejected, WaitsForExit, Goto, TypeOK, AwaitInv, procVars
  <2>5. CASE SpawnDaemon(c) \/ SpawnWatcher(c)
    BY <2>5, ProcNames DEF SpawnDaemon, SpawnWatcher, Spawn, Goto, TypeOK,
       AwaitInv
  <2>6. QED
    BY <1>6, <2>1, <2>2, <2>3, <2>4, <2>5 DEF Connect
<1>7. ASSUME NEW c \in Call, Stop(c) PROVE AwaitInv'
  <2>1. CASE LoopCancelled(c)
    BY <1>3, <2>1 DEF LoopCancelled, StopWatcher, Goto, TypeOK
  <2>2. CASE WatcherStopped(c)
    BY <1>3, <2>2 DEF WatcherStopped, StopOwnedDaemon, Goto, TypeOK
  <2>3. CASE ServiceStopped(c)
    BY <2>3 DEF ServiceStopped, WaitsForExit, Goto, TypeOK, AwaitInv
  <2>4. QED
    BY <1>7, <2>1, <2>2, <2>3 DEF Stop
<1>8. ASSUME NEW c \in Call, WatchLoop(c) PROVE AwaitInv'
  <2>1. CASE LoopFails(c)
    BY <1>2, <2>1 DEF LoopFails, StopWatcher, callVars
  <2>2. CASE LoopStarts(c) \/ LoopReturns(c) \/ LoopCloses(c)
    BY <1>1, <2>2 DEF LoopStarts, LoopReturns, LoopCloses, callVars, procVars
  <2>3. QED
    BY <1>8, <2>1, <2>2 DEF WatchLoop
<1>9. CASE Children
  BY <1>9 DEF Children, ChildExits, Kill, DrainFails, Exit, AwaitInv, TypeOK,
     callVars
<1>10. QED
  BY <1>4, <1>5, <1>6, <1>7, <1>8, <1>9 DEF Next

LEMMA AwaitInvariant == Spec => []AwaitInv
<1>1. Init => AwaitInv
  BY DEF Init, AwaitInv
<1>2. QED
  BY <1>1, TypeInit, TypeNext, AwaitNext, PTL DEF Spec

-----------------------------------------------------------------------------
(* What an orderly gateway can rely on                                     *)

\* No failure and no cancelled call makes the service lose a working child: its
\* handle leads to it, unless it is a daemon and a later connect(), told that none
\* answers, has started another.
THEOREM NoChildIsOrphaned ==
  ASSUME Orderly
  PROVE  Spec => []NoOrphans
<1>1. ServiceInv => NoOrphans
  BY DEF ServiceInv, WatcherInv, DaemonInv, NoOrphans
<1>2. QED
  BY <1>1, ServiceInvariant, PTL

\* When connect() reports a failure, the daemon and the watcher it started are
\* dead.
THEOREM FailuresLeaveNothing ==
  ASSUME Orderly
  PROVE  Spec => []FailedLeavesNothing
<1>1. ServiceInv => FailedLeavesNothing
  BY ProcNames
     DEF ServiceInv, WatcherInv, FailInv, FailedLeavesNothing, Alive
<1>2. QED
  BY <1>1, ServiceInvariant, PTL

\* When disconnect() has returned, no loop runs, and the only children alive are
\* displaced daemons and those that another actor told to terminate.
THEOREM DisconnectQuiets ==
  ASSUME Orderly
  PROVE  Spec => []DisconnectedIsQuiet
<1>1. ServiceInv /\ AwaitInv => DisconnectedIsQuiet
  <2> SUFFICES ASSUME ServiceInv, AwaitInv,
                      calls \in Call, pc[calls] = "disconnected"
               PROVE  /\ ~running
                      /\ \A c \in Call : ~Live(c)
                      /\ \A p \in Proc : Alive(p) =>
                           \/ /\ proc[p] = "terminated"
                              /\ stopper[p] # <<"call", calls>>
                           \/ \E c \in Call : p = Daemon(c) /\ Displaced(c)
    BY DEF DisconnectedIsQuiet, Live
  <2>1. ~running /\ watchProcess = None /\ daemonProcess = None
    BY DEF ServiceInv, QuietInv
  <2>2. \A c \in Call : ~Working(Watcher(c))
                        /\ (Working(Daemon(c)) => Displaced(c))
    BY <2>1, ProcNames DEF ServiceInv, WatcherInv, DaemonInv
  <2>3. \A c \in Call : ~Live(c)
    BY <2>1 DEF ServiceInv, LoopInv
  <2>4. ASSUME NEW p \in Proc, Alive(p)
        PROVE  \/ proc[p] = "terminated" /\ stopper[p] # <<"call", calls>>
               \/ \E c \in Call : p = Daemon(c) /\ Displaced(c)
    <3>1. CASE proc[p] = "terminated"
      BY <3>1 DEF AwaitInv
    <3>2. CASE Working(p)
      BY <2>2, <3>2, ProcNames
    <3>3. QED
      BY <2>4, <3>1, <3>2 DEF Alive, Working
  <2>5. QED
    BY <2>1, <2>3, <2>4
<1>2. QED
  BY <1>1, ServiceInvariant, AwaitInvariant, PTL

\* As long as the adapter counts as connected and nobody disconnects it, its
\* loop lives and reads the watcher in the handle.
THEOREM ConnectedMeansWatching ==
  ASSUME Orderly
  PROVE  Spec => []ConnectedIsWatching
<1>1. ServiceInv => ConnectedIsWatching
  BY ProcNames DEF ServiceInv, LoopInv, ConnectedIsWatching, Live
<1>2. QED
  BY <1>1, ServiceInvariant, PTL

\* The handle that the startup poll reads is that of its own daemon.
THEOREM PollKeepsItsDaemon ==
  ASSUME Orderly
  PROVE  Spec => []PollsItsOwn
<1>1. ServiceInv => PollsItsOwn
  BY DEF ServiceInv, DaemonInv, PollsItsOwn
<1>2. QED
  BY <1>1, ServiceInvariant, PTL

\* A loop that fails, however late, stops no watcher but its own.
THEOREM LoopsStopTheirOwn ==
  ASSUME Orderly
  PROVE  Spec => LoopStopsItsOwn
<1>1. ServiceInv' => [\A c, d \in Call :
                        stopper'[Watcher(d)] = <<"loop", c>> => c = d]_vars
  BY DEF ServiceInv, WaitInv, Watcher
<1>2. QED
  BY <1>1, ServiceInvariant, PTL DEF LoopStopsItsOwn

=============================================================================
