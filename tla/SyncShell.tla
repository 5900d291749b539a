------------------------------ MODULE SyncShell ------------------------------
(***************************************************************************)
(* The Android shell around receive-sync: SyncController.start and stop,   *)
(* called from background threads; SyncService.onStartCommand on the main  *)
(* thread; the thread it spawns to start the core engine; and the platform *)
(* that delivers start commands, kills the process and revives a sticky    *)
(* service (titlan-android, sync/SyncController.kt and sync/SyncService.kt).*)
(*                                                                         *)
(* Every volatile write of start is a step of its own, since start takes   *)
(* no lock; onServiceForegrounded and the body of stop exclude each other. *)
(***************************************************************************)
EXTENDS Integers, Sequences

CONSTANTS
  Caller,   \* threads that call start and stop
  Script,   \* per caller: the calls it makes, "start" or "stop"
  MaxKills  \* bound: how often the platform kills the process

Nobody == "nobody"

ASSUME SyncAssumption ==
  /\ Nobody \notin Caller
  /\ Script \in [Caller -> Seq({"start", "stop"})]
  /\ MaxKills \in Nat

VARIABLES
  running,            \* SyncController.running
  pendingEvents,      \* SyncController.pendingEvents: "null" or "ui"
  foregroundSettled,  \* the latch of the latest start, 0 for null
  counted,            \* latches counted down
  latches,            \* latches created
  at, todo, awaited,  \* per caller: control point, calls left, stop's latch
  monitor,            \* the caller in stop's synchronized block, if any
  engine,             \* the core's sync: "off", or the sink it delivers to
  threads,            \* titlan-sync-start threads that have not run yet
  service,            \* "none", "created" or "foreground"
  commands,           \* onStartCommand calls queued on the main thread
  obliged,            \* platform: startForeground is owed
  crashed,            \* platform: the process was crashed for not paying it
  unlocked,           \* UserManager.isUserUnlocked
  sticky, revived,    \* the service is to be revived / has been, in this process
  kills

ctl  == <<running, pendingEvents, foregroundSettled, counted, latches>>
prog == <<at, todo, awaited, monitor>>
plat == <<service, commands, obliged, crashed, unlocked, sticky, revived, kills>>
vars == <<running, pendingEvents, foregroundSettled, counted, latches, at, todo,
          awaited, monitor, engine, threads, service, commands, obliged, crashed,
          unlocked, sticky, revived, kills>>

Init ==
  /\ running = FALSE /\ pendingEvents = "null"
  /\ foregroundSettled = 0 /\ counted = {} /\ latches = 0
  /\ at = [t \in Caller |-> "ready"] /\ todo = Script
  /\ awaited = [t \in Caller |-> 0] /\ monitor = Nobody
  /\ engine = "off" /\ threads = 0
  /\ service = "none" /\ commands = 0 /\ obliged = FALSE /\ crashed = FALSE
  /\ unlocked \in BOOLEAN
  /\ sticky = FALSE /\ revived = FALSE /\ kills = 0

Goto(t, pc) == at' = [at EXCEPT ![t] = pc] /\ UNCHANGED <<todo, awaited>>
Begin(t, call, pc) ==
  /\ ~crashed
  /\ at[t] = "ready" /\ todo[t] # << >> /\ Head(todo[t]) = call
  /\ at' = [at EXCEPT ![t] = pc]
  /\ todo' = [todo EXCEPT ![t] = Tail(@)]

-----------------------------------------------------------------------------
(* SyncController.start *)

\* The unlock gate, then pendingEvents = events.
start(t) ==
  /\ Begin(t, "start", IF unlocked THEN "latch" ELSE "ready")
  /\ pendingEvents' = IF unlocked THEN "ui" ELSE pendingEvents
  /\ UNCHANGED <<running, foregroundSettled, counted, latches, awaited, monitor,
                 engine, threads, plat>>

\* foregroundSettled = CountDownLatch(1)
new_latch(t) ==
  /\ at[t] = "latch"
  /\ latches' = latches + 1
  /\ foregroundSettled' = latches + 1
  /\ Goto(t, "launch")
  /\ UNCHANGED <<running, pendingEvents, counted, monitor, engine, threads, plat>>

startForegroundService(t) ==
  /\ at[t] = "launch"
  /\ service' = IF service = "none" THEN "created" ELSE service
  /\ commands' = commands + 1
  /\ obliged' = TRUE
  /\ Goto(t, "running")
  /\ UNCHANGED <<ctl, monitor, engine, threads, crashed, unlocked, sticky,
                 revived, kills>>

set_running(t) ==
  /\ at[t] = "running"
  /\ running' = TRUE
  /\ Goto(t, "ready")
  /\ UNCHANGED <<pendingEvents, foregroundSettled, counted, latches, monitor,
                 engine, threads, plat>>

-----------------------------------------------------------------------------
(* SyncService, on the main thread, and the thread it spawns *)

onForegroundSettled ==
  counted' = IF foregroundSettled = 0 THEN counted
             ELSE counted \cup {foregroundSettled}

\* Mutant: a service that is in the foreground starts no thread again.
Spawned_once == IF service = "foreground" THEN threads ELSE threads + 1

Spawned == threads + 1

\* A command that outlives its service changes nothing but the latch and the
\* thread it spawns.  Declining a locked start stops the service with it.
onStartCommand ==
  /\ commands > 0 /\ ~crashed
  /\ commands' = commands - 1
  /\ obliged' = FALSE
  /\ onForegroundSettled
  /\ IF unlocked
     THEN /\ service' = IF service = "none" THEN "none" ELSE "foreground"
          /\ sticky' = (service # "none")
          /\ threads' = Spawned
     ELSE /\ service' = IF commands = 1 THEN "none" ELSE service
          /\ sticky' = FALSE
          /\ UNCHANGED threads
  /\ UNCHANGED <<running, pendingEvents, foregroundSettled, latches, prog,
                 engine, crashed, unlocked, revived, kills>>

\* Mutant: the core is started whether or not a stop came first.
Wanted_always == TRUE

Wanted == running

onServiceForegrounded ==
  /\ threads > 0 /\ monitor = Nobody /\ ~crashed
  /\ threads' = threads - 1
  /\ engine' = IF ~Wanted THEN engine
               ELSE IF pendingEvents = "ui" THEN "ui" ELSE "default"
  /\ UNCHANGED <<ctl, prog, plat>>

-----------------------------------------------------------------------------
(* SyncController.stop *)

\* awaitForegroundSettled reads the latch; without one there is no wait.
stop(t) ==
  /\ Begin(t, "stop", IF foregroundSettled = 0 THEN "enter" ELSE "await")
  /\ awaited' = [awaited EXCEPT ![t] = foregroundSettled]
  /\ UNCHANGED <<ctl, monitor, engine, threads, plat>>

\* Mutant: stop does not wait for the start's foreground call.
Settled_not(t) == TRUE

Settled(t) == awaited[t] \in counted

\* The latch is counted down.  The wait's limit is the time after which the
\* platform has crashed the process by itself, so running into it is no step.
awaitForegroundSettled(t) ==
  /\ at[t] = "await"
  /\ Settled(t)
  /\ foregroundSettled' = 0
  /\ Goto(t, "enter")
  /\ UNCHANGED <<running, pendingEvents, counted, latches, monitor, engine,
                 threads, plat>>

stop_enter(t) ==
  /\ at[t] = "enter"
  /\ monitor = Nobody
  /\ monitor' = t
  /\ running' = FALSE
  /\ Goto(t, "stopSync")
  /\ UNCHANGED <<pendingEvents, foregroundSettled, counted, latches, engine,
                 threads, plat>>

stopSync(t) ==
  /\ at[t] = "stopSync"
  /\ engine' = "off"
  /\ Goto(t, "stopService")
  /\ UNCHANGED <<ctl, monitor, threads, plat>>

\* Commands already on their way to the main thread may still be executed.
stopService(t) ==
  /\ at[t] = "stopService"
  /\ crashed' = obliged
  /\ service' = "none"
  /\ sticky' = FALSE
  /\ obliged' = FALSE
  /\ \E left \in {0, commands} : commands' = left
  /\ Goto(t, "clear")
  /\ UNCHANGED <<ctl, monitor, engine, threads, unlocked, revived, kills>>

stop_leave(t) ==
  /\ at[t] = "clear"
  /\ pendingEvents' = "null"
  /\ monitor' = Nobody
  /\ Goto(t, "ready")
  /\ UNCHANGED <<running, foregroundSettled, counted, latches, engine, threads,
                 plat>>

-----------------------------------------------------------------------------
(* The platform *)

Unlock ==
  /\ ~unlocked
  /\ unlocked' = TRUE
  /\ UNCHANGED <<ctl, prog, engine, threads, service, commands, obliged,
                 crashed, sticky, revived, kills>>

\* The process dies; the objects' fields are initialised anew when it comes
\* back, and its callers make the calls they have not made.
Kill ==
  /\ kills < MaxKills /\ ~crashed
  /\ kills' = kills + 1
  /\ running' = FALSE /\ pendingEvents' = "null"
  /\ foregroundSettled' = 0
  /\ at' = [t \in Caller |-> "ready"]
  /\ awaited' = [t \in Caller |-> 0]
  /\ monitor' = Nobody
  /\ engine' = "off" /\ threads' = 0
  /\ service' = "none" /\ commands' = 0 /\ obliged' = FALSE
  /\ revived' = FALSE
  /\ UNCHANGED <<counted, latches, todo, crashed, unlocked, sticky>>

\* START_STICKY: the service is created again and gets a null intent, which
\* carries no obligation.
Revive ==
  /\ sticky /\ service = "none" /\ ~crashed
  /\ service' = "created"
  /\ commands' = commands + 1
  /\ sticky' = FALSE
  /\ revived' = TRUE
  /\ UNCHANGED <<ctl, prog, engine, threads, obliged, crashed, unlocked, kills>>

-----------------------------------------------------------------------------
Call(t) ==
  start(t) \/ new_latch(t) \/ startForegroundService(t) \/ set_running(t)
    \/ stop(t) \/ awaitForegroundSettled(t) \/ stop_enter(t) \/ stopSync(t)
    \/ stopService(t) \/ stop_leave(t)

Next ==
  \/ \E t \in Caller : Call(t)
  \/ onStartCommand \/ onServiceForegrounded
  \/ Unlock \/ Kill \/ Revive

Spec == Init /\ [][Next]_vars

\* Threads run, the main thread drains its queue.  The user need not unlock
\* the device, and the platform need not kill or revive.
Fairness ==
  /\ \A t \in Caller : WF_vars(Call(t))
  /\ WF_vars(onStartCommand) /\ WF_vars(onServiceForegrounded)

FairSpec == Spec /\ Fairness
-----------------------------------------------------------------------------
(* Properties *)

\* A caller that starts and stops in turn is never crashed for a service that
\* still owes its foreground call (finding F-N of the repository), whatever the
\* platform kills, unless it revived the service in this very process: the
\* revival's command may count down the latch of a start that follows.
OrderlyStop == crashed => revived

\* The core engine never runs without a service above it, although the thread
\* that starts it may run long after a stop.
EngineHasService == engine # "off" => service # "none"

\* A command delivered while `running` is set does start the core, unless a
\* stop or the end of the process comes first.
CommandSyncs ==
  (running /\ commands > 0 /\ service # "none" /\ unlocked)
    ~> (engine # "off" \/ ~running)
=============================================================================
