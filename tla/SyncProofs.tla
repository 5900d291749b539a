----------------------------- MODULE SyncProofs -----------------------------
(***************************************************************************)
(* Proofs about the sync shell, for any number of kills and any script of  *)
(* a single caller: the engine never runs without its service, and a       *)
(* caller that starts and stops in turn is not crashed by its own stop.    *)
(* With two callers neither holds: see the premises in the README.         *)
(***************************************************************************)
EXTENDS SyncShell, TLAPS

\* One thread calls start and stop.
SoleCaller == \A t, u \in Caller : t = u

\* It never makes the same call twice in a row.
Turns(s) == \A i \in 1 .. Len(s) - 1 : s[i] # s[i + 1]
InTurn == \A t \in Caller : Turns(Script[t])

Starting == {"latch", "launch", "running"}
Held     == {"stopSync", "stopService", "clear"}
Stopping == {"await", "enter"} \cup Held

-----------------------------------------------------------------------------
(* The engine and its service *)

\* A caller past the start's gate is on an unlocked device, where no command
\* ends the service; the block of a stop clears `running` before it stops the
\* engine, and the engine before the service.
ServiceInv ==
  /\ at \in [Caller -> {"ready"} \cup Starting \cup Stopping]
  /\ \A t \in Caller :
       /\ at[t] \in Starting => unlocked
       /\ at[t] = "running" => service # "none"
       /\ at[t] \in Held => monitor = t /\ ~running
       /\ at[t] \in {"stopService", "clear"} => engine = "off"
  /\ running => unlocked /\ service # "none"
  /\ engine # "off" => unlocked
  /\ EngineHasService

\* What a step of the caller's leaves alone, it leaves alone in ServiceInv.
LEMMA ServiceStarts ==
  ASSUME ServiceInv, SoleCaller, NEW t \in Caller,
         start(t) \/ new_latch(t) \/ startForegroundService(t) \/ set_running(t)
  PROVE  ServiceInv'
<1> USE DEF ServiceInv, SoleCaller, EngineHasService, Starting, Stopping, Held, ctl, plat, prog
<1>1. CASE start(t)
  BY <1>1 DEF start, Begin
<1>2. CASE new_latch(t)
  BY <1>2 DEF new_latch, Goto
<1>3. CASE startForegroundService(t)
  BY <1>3 DEF startForegroundService, Goto
<1>4. CASE set_running(t)
  BY <1>4 DEF set_running, Goto
<1>5. QED
  BY <1>1, <1>2, <1>3, <1>4

LEMMA ServiceStops ==
  ASSUME ServiceInv, SoleCaller, NEW t \in Caller,
         stop(t) \/ awaitForegroundSettled(t) \/ stop_enter(t) \/ stopSync(t)
           \/ stopService(t) \/ stop_leave(t)
  PROVE  ServiceInv'
<1> USE DEF ServiceInv, SoleCaller, EngineHasService, Starting, Stopping, Held, ctl, plat, prog
<1>1. CASE stop(t)
  BY <1>1 DEF stop, Begin
<1>2. CASE awaitForegroundSettled(t)
  BY <1>2 DEF awaitForegroundSettled, Goto
<1>3. CASE stop_enter(t)
  BY <1>3 DEF stop_enter, Goto
<1>4. CASE stopSync(t)
  BY <1>4 DEF stopSync, Goto
<1>5. CASE stopService(t)
  BY <1>5 DEF stopService, Goto
<1>6. CASE stop_leave(t)
  BY <1>6 DEF stop_leave, Goto
<1>7. QED
  BY <1>1, <1>2, <1>3, <1>4, <1>5, <1>6

LEMMA ServiceElse ==
  ASSUME ServiceInv, onStartCommand \/ onServiceForegrounded \/ Unlock \/ Kill \/ Revive
  PROVE  ServiceInv'
<1> USE DEF ServiceInv, EngineHasService, Starting, Stopping, Held, ctl, plat, prog
<1>1. CASE onStartCommand
  <2>1. at' = at /\ engine' = engine /\ running' = running /\ monitor' = monitor
        /\ unlocked' = unlocked
    BY Zenon, <1>1 DEF onStartCommand
  <2>2. unlocked => service' = IF service = "none" THEN "none" ELSE "foreground"
    BY Zenon, <1>1 DEF onStartCommand
  <2>3. unlocked /\ service # "none" => service' # "none"
    BY <2>2
  <2>4. QED
    BY <2>1, <2>3
<1>2. CASE onServiceForegrounded
  BY <1>2, SyncAssumption DEF onServiceForegrounded, Wanted
<1>3. CASE Unlock
  BY <1>3 DEF Unlock
<1>4. CASE Kill
  BY <1>4 DEF Kill
<1>5. CASE Revive
  BY <1>5 DEF Revive
<1>6. QED
  BY <1>1, <1>2, <1>3, <1>4, <1>5

\* EngineHasService (SyncController.kt, onServiceForegrounded and stop): with a
\* single caller, whatever it calls and whatever the platform kills and
\* revives, the core engine never runs without a service above it.
THEOREM ServiceCorrect ==
  ASSUME SoleCaller
  PROVE  Spec => []EngineHasService
<1>1. Init => ServiceInv
  BY Zenon DEF Init, ServiceInv, EngineHasService, Starting, Stopping, Held
<1>2. ServiceInv /\ [Next]_vars => ServiceInv'
  <2> SUFFICES ASSUME ServiceInv, [Next]_vars PROVE ServiceInv'
    OBVIOUS
  <2>1. CASE UNCHANGED vars
    BY Zenon, <2>1 DEF vars, ServiceInv, EngineHasService
  <2>2. CASE \E t \in Caller : Call(t)
    BY Zenon, <2>2, ServiceStarts, ServiceStops DEF Call
  <2>3. QED
    BY Zenon, <2>1, <2>2, ServiceElse DEF Next
<1>3. ServiceInv => EngineHasService
  BY Zenon DEF ServiceInv
<1>4. QED
  BY <1>1, <1>2, <1>3, PTL DEF Spec

-----------------------------------------------------------------------------
(* The start's foreground call *)

\* The next call, if there is one, is not c.
Not(t, c) == todo[t] # << >> => Head(todo[t]) # c

\* Latches are numbered as they are created; calls are made in turn.
LatchInv ==
  /\ latches \in Nat /\ commands \in Nat
  /\ foregroundSettled \in 0 .. latches /\ counted \subseteq 1 .. latches
  /\ at \in [Caller -> {"ready"} \cup Starting \cup Stopping]
  /\ todo \in [Caller -> Seq({"start", "stop"})]
  /\ awaited \in [Caller -> Nat]
  /\ \A t \in Caller :
       /\ Turns(todo[t])
       /\ at[t] \in Starting => Not(t, "start")
       /\ at[t] \in Stopping => Not(t, "stop")

\* No command is on its way.
Drained == commands = 0 /\ ~obliged

\* While the platform has not revived the service, a command on its way is
\* that of the latest start, its latch is not counted down, and the caller is
\* between that start and the wait of the stop that follows it.
SettleInv ==
  /\ commands # 0 => commands = 1 /\ foregroundSettled # 0 /\ foregroundSettled \notin counted
  /\ obliged => commands # 0
  /\ \A t \in Caller :
       /\ at[t] \in {"latch", "launch"} \cup (Stopping \ {"await"}) => Drained
       /\ at[t] = "launch" => foregroundSettled # 0 /\ foregroundSettled \notin counted
       /\ at[t] = "await" => awaited[t] = foregroundSettled
       /\ at[t] = "ready" => Drained \/ Not(t, "start")

OrderInv == LatchInv /\ (revived \/ SettleInv) /\ OrderlyStop

\* What is left of calls made in turn are calls made in turn.
LEMMA TurnsTail ==
  ASSUME NEW s \in Seq({"start", "stop"}), s # << >>, Turns(s)
  PROVE  /\ Tail(s) \in Seq({"start", "stop"}) /\ Turns(Tail(s))
         /\ Tail(s) # << >> => Head(Tail(s)) # Head(s)
BY DEF Turns

\* The calls' numbers and turns are kept by every step.
LEMMA LatchStarts ==
  ASSUME LatchInv, NEW t \in Caller,
         start(t) \/ new_latch(t) \/ startForegroundService(t) \/ set_running(t)
  PROVE  LatchInv'
<1> USE DEF LatchInv, Not, Starting, Stopping, Held, ctl, plat, prog
<1>1. CASE start(t)
  BY <1>1, TurnsTail DEF start, Begin
<1>2. CASE new_latch(t)
  BY <1>2 DEF new_latch, Goto
<1>3. CASE startForegroundService(t)
  BY <1>3 DEF startForegroundService, Goto
<1>4. CASE set_running(t)
  BY <1>4 DEF set_running, Goto
<1>5. QED
  BY <1>1, <1>2, <1>3, <1>4

LEMMA LatchStops ==
  ASSUME LatchInv, NEW t \in Caller,
         stop(t) \/ awaitForegroundSettled(t) \/ stop_enter(t) \/ stopSync(t)
           \/ stopService(t) \/ stop_leave(t)
  PROVE  LatchInv'
<1> USE DEF LatchInv, Not, Starting, Stopping, Held, ctl, plat, prog
<1>1. CASE stop(t)
  <2>1. awaited' \in [Caller -> Nat]
    BY <1>1 DEF stop
  <2>2. PICK pc \in Stopping : Begin(t, "stop", pc)
    BY <1>1 DEF stop
  <2>3. /\ at' = [at EXCEPT ![t] = pc] /\ todo' = [todo EXCEPT ![t] = Tail(@)]
        /\ todo[t] # << >> /\ Head(todo[t]) = "stop"
    BY Zenon, <2>2 DEF Begin
  <2>4. /\ latches' = latches /\ commands' = commands /\ counted' = counted
        /\ foregroundSettled' = foregroundSettled
    BY Zenon, <1>1 DEF stop
  <2>5. QED
    BY ZenonT(30), <2>1, <2>3, <2>4, TurnsTail
<1>2. CASE awaitForegroundSettled(t)
  BY <1>2 DEF awaitForegroundSettled, Goto
<1>3. CASE stop_enter(t)
  BY <1>3 DEF stop_enter, Goto
<1>4. CASE stopSync(t)
  BY <1>4 DEF stopSync, Goto
<1>5. CASE stopService(t)
  BY <1>5 DEF stopService, Goto
<1>6. CASE stop_leave(t)
  BY <1>6 DEF stop_leave, Goto
<1>7. QED
  BY <1>1, <1>2, <1>3, <1>4, <1>5, <1>6

LEMMA LatchElse ==
  ASSUME LatchInv, onStartCommand \/ onServiceForegrounded \/ Unlock \/ Kill \/ Revive
  PROVE  LatchInv'
<1> USE DEF LatchInv, Not, Starting, Stopping, Held, ctl, plat, prog
<1>1. CASE onStartCommand
  BY <1>1 DEF onStartCommand, onForegroundSettled
<1>2. CASE onServiceForegrounded
  BY <1>2 DEF onServiceForegrounded
<1>3. CASE Unlock
  BY <1>3 DEF Unlock
<1>4. CASE Kill
  BY <1>4 DEF Kill
<1>5. CASE Revive
  BY <1>5 DEF Revive
<1>6. QED
  BY <1>1, <1>2, <1>3, <1>4, <1>5

\* A start leaves one command behind, with a latch of its own.
LEMMA SettleStarts ==
  ASSUME LatchInv, SettleInv, SoleCaller, NEW t \in Caller,
         start(t) \/ new_latch(t) \/ startForegroundService(t) \/ set_running(t)
  PROVE  SettleInv'
<1> USE DEF SettleInv, LatchInv, Drained, Not, SoleCaller, Starting, Stopping, Held,
            ctl, plat, prog
<1>1. CASE start(t)
  BY <1>1, TurnsTail DEF start, Begin
<1>2. CASE new_latch(t)
  BY <1>2 DEF new_latch, Goto
<1>3. CASE startForegroundService(t)
  BY <1>3 DEF startForegroundService, Goto
<1>4. CASE set_running(t)
  BY <1>4 DEF set_running, Goto
<1>5. QED
  BY <1>1, <1>2, <1>3, <1>4

\* A stop passes its wait once the command has run.
LEMMA SettleStops ==
  ASSUME LatchInv, SettleInv, SoleCaller, NEW t \in Caller,
         stop(t) \/ awaitForegroundSettled(t) \/ stop_enter(t) \/ stopSync(t)
           \/ stopService(t) \/ stop_leave(t)
  PROVE  SettleInv'
<1> USE DEF SettleInv, LatchInv, Drained, Not, SoleCaller, Starting, Stopping, Held,
            ctl, plat, prog
<1>1. CASE stop(t)
  BY <1>1, TurnsTail DEF stop, Begin
<1>2. CASE awaitForegroundSettled(t)
  BY <1>2 DEF awaitForegroundSettled, Goto, Settled
<1>3. CASE stop_enter(t)
  BY <1>3 DEF stop_enter, Goto
<1>4. CASE stopSync(t)
  BY <1>4 DEF stopSync, Goto
<1>5. CASE stopService(t)
  BY <1>5 DEF stopService, Goto
<1>6. CASE stop_leave(t)
  BY <1>6 DEF stop_leave, Goto
<1>7. QED
  BY <1>1, <1>2, <1>3, <1>4, <1>5, <1>6

\* A command that runs counts down the latch it belongs to; a process that
\* comes back owes nothing.
LEMMA SettleElse ==
  ASSUME LatchInv, revived \/ SettleInv,
         onStartCommand \/ onServiceForegrounded \/ Unlock \/ Kill \/ Revive
  PROVE  revived' \/ SettleInv'
<1> USE DEF SettleInv, LatchInv, Drained, Not, Starting, Stopping, Held, ctl, plat, prog
<1>1. CASE onStartCommand
  BY <1>1 DEF onStartCommand, onForegroundSettled
<1>2. CASE onServiceForegrounded
  BY <1>2 DEF onServiceForegrounded
<1>3. CASE Unlock
  BY <1>3 DEF Unlock
<1>4. CASE Kill
  BY <1>4 DEF Kill
<1>5. CASE Revive
  BY <1>5 DEF Revive
<1>6. QED
  BY <1>1, <1>2, <1>3, <1>4, <1>5

\* Only stopService crashes the process, and it finds nothing owed.
LEMMA OrderStep ==
  ASSUME OrderInv, SoleCaller, Next
  PROVE  OrderInv'
<1>1. CASE \E t \in Caller : Call(t)
  <2>1. PICK t \in Caller : Call(t)
    BY Zenon, <1>1
  <2>2. LatchInv'
    BY Zenon, <2>1, LatchStarts, LatchStops DEF OrderInv, Call
  <2>3. revived' = revived
    BY Zenon, <2>1 DEF Call, start, new_latch, startForegroundService, set_running, stop,
       awaitForegroundSettled, stop_enter, stopSync, stopService, stop_leave, plat
  <2>4. revived' \/ SettleInv'
    BY Zenon, <2>1, <2>3, SettleStarts, SettleStops DEF OrderInv, Call
  <2>5. OrderlyStop'
    <3>1. CASE stopService(t)
      <4>1. at[t] = "stopService" /\ crashed' = obliged
        BY Zenon, <3>1 DEF stopService
      <4>2. revived \/ ~obliged
        BY <4>1 DEF OrderInv, SettleInv, Drained, Stopping, Held
      <4>3. QED
        BY Zenon, <2>3, <4>1, <4>2 DEF OrderlyStop
    <3>2. CASE ~stopService(t)
      BY Zenon, <2>1, <2>3, <3>2 DEF OrderInv, OrderlyStop, Call, start, new_latch,
         startForegroundService, set_running, stop, awaitForegroundSettled, stop_enter,
         stopSync, stop_leave, plat, Begin
    <3>3. QED
      BY Zenon, <3>1, <3>2
  <2>6. QED
    BY Zenon, <2>2, <2>4, <2>5 DEF OrderInv
<1>2. CASE onStartCommand \/ onServiceForegrounded \/ Unlock \/ Kill \/ Revive
  <2>1. OrderlyStop'
    BY Zenon, <1>2 DEF OrderInv, OrderlyStop, onStartCommand, onServiceForegrounded, Unlock,
       Kill, Revive, plat
  <2>2. QED
    BY Zenon, <1>2, <2>1, LatchElse, SettleElse DEF OrderInv
<1>3. QED
  BY Zenon, <1>1, <1>2 DEF Next

\* OrderlyStop (SyncController.kt, awaitForegroundSettled; finding F-N): a
\* single caller that starts and stops in turn, for any number of cycles and
\* kills, is not crashed by a stop that comes before the foreground call of
\* its start, unless the platform revived the service in this process.
THEOREM OrderlyStopCorrect ==
  ASSUME SoleCaller, InTurn
  PROVE  Spec => []OrderlyStop
<1>1. Init => OrderInv
  <2> SUFFICES ASSUME Init PROVE OrderInv
    OBVIOUS
  <2>1. LatchInv
    BY SyncAssumption DEF Init, LatchInv, InTurn, Starting, Stopping, Held
  <2>2. SettleInv /\ OrderlyStop
    BY Zenon DEF Init, SettleInv, OrderlyStop, Drained, Stopping, Held
  <2>3. QED
    BY Zenon, <2>1, <2>2 DEF OrderInv
<1>2. OrderInv /\ [Next]_vars => OrderInv'
  <2> SUFFICES ASSUME OrderInv, [Next]_vars PROVE OrderInv'
    OBVIOUS
  <2>1. CASE UNCHANGED vars
    BY Zenon, <2>1 DEF vars, OrderInv, OrderlyStop, LatchInv, SettleInv, Drained, Not
  <2>2. QED
    BY Zenon, <2>1, OrderStep
<1>3. OrderInv => OrderlyStop
  BY Zenon DEF OrderInv
<1>4. QED
  BY <1>1, <1>2, <1>3, PTL DEF Spec
=============================================================================
