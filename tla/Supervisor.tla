----------------------------- MODULE Supervisor -----------------------------
(***************************************************************************)
(* scripts/supervisor.py: two children, the main loop that starts them     *)
(* again when they die, and the control threads that carry out restart,    *)
(* stop and start commands.  Program._lock makes start, reap and the first *)
(* half of stop atomic; everything else interleaves.                       *)
(* ApplyPipeline takes a restart as one step; RestartIsFresh says why.     *)
(***************************************************************************)
EXTENDS Naturals, FiniteSets

CONSTANTS
  Handler,       \* threads of _handle_client
  Commands,      \* commands sent, of {"restart", "stop", "start"}
  Targets,       \* programs they are sent to
  CrashLimit,    \* ADMIN_CRASH_LIMIT
  MaxCommands,   \* bound: commands in one behaviour
  MaxFaults      \* bound: children that die by themselves and Popen calls that fail

Program == {"xray", "admin-api"}
Critical == {"admin-api"}
Main == "main"

ASSUME ConstantsOK ==
  /\ Main \notin Handler
  /\ Commands \subseteq {"restart", "stop", "start"}
  /\ Targets \subseteq Program
  /\ CrashLimit \in Nat \ {0}
  /\ MaxCommands \in Nat /\ MaxFaults \in Nat

VARIABLES
  process,       \* Program.process: children are numbered as they start, 0 is None
  alive,         \* the children the operating system runs
  born,          \* how many have been started
  desired,       \* desired_running
  timer,         \* next_start_at: "unset", or "waiting" until it is "due"
  crashes,       \* length of recent_crashes
  shuttingDown, exitCode,
  mainPc, at,    \* the main loop, and the program it looks at
  pc, cmd, target, since,   \* each control thread and its command
  held,          \* the local `process` of a stop() under way
  stopAsked,     \* the programs a stop command was sent to; the properties' record
  commands, deaths, failures   \* counters for the bounds; deaths per program

child == <<process, alive, born, desired>>
loop == <<mainPc, at>>
control == <<pc, cmd, target, since>>
bounds == <<stopAsked, commands, deaths, failures>>
vars == <<child, timer, crashes, shuttingDown, exitCode, loop, control, held, bounds>>

MainLabel == {"boot", "loop", "reap", "crashed", "schedule", "check", "down", "timed",
              "due", "start", "stop", "wait", "exited"}

TypeOK ==
  /\ process \in [Program -> Nat]
  /\ alive \in [Program -> SUBSET Nat]
  /\ born \in [Program -> Nat]
  /\ desired \in [Program -> BOOLEAN]
  /\ timer \in [Program -> {"unset", "waiting", "due"}]
  /\ crashes \in [Program -> Nat]
  /\ shuttingDown \in BOOLEAN /\ exitCode \in {0, 1}
  /\ mainPc \in MainLabel /\ at \in Program
  /\ pc \in [Handler -> {"idle", "stop", "wait", "reset", "start"}]
  /\ cmd \in [Handler -> {"restart", "stop", "start"}]
  /\ target \in [Handler -> Program]
  /\ since \in [Handler -> Nat]
  /\ held \in [Handler \union {Main} -> Nat]
  /\ stopAsked \subseteq Program /\ commands \in 0..MaxCommands
  /\ deaths \in [Program -> 0..MaxFaults] /\ failures \in 0..MaxFaults

Init ==
  /\ process = [p \in Program |-> 0]
  /\ alive = [p \in Program |-> {}]
  /\ born = [p \in Program |-> 0]
  /\ desired = [p \in Program |-> TRUE]
  /\ timer = [p \in Program |-> "unset"]
  /\ crashes = [p \in Program |-> 0]
  /\ shuttingDown = FALSE /\ exitCode = 0
  /\ mainPc = "boot" /\ at = "xray"
  /\ pc = [h \in Handler |-> "idle"]
  /\ cmd = [h \in Handler |-> "start"]
  /\ target = [h \in Handler |-> "xray"]
  /\ since = [h \in Handler |-> 0]
  /\ held = [t \in Handler \union {Main} |-> 0]
  /\ stopAsked = {} /\ commands = 0 /\ deaths = [p \in Program |-> 0] /\ failures = 0

Running(p) == process[p] \in alive[p]

FaultsLeft == deaths["xray"] + deaths["admin-api"] + failures < MaxFaults

------------------------------------------------------------------------------
(* Program: start and the two halves of stop, for any thread *)

NewChild(p) ==
  /\ born' = [born EXCEPT ![p] = @ + 1]
  /\ process' = [process EXCEPT ![p] = born[p] + 1]
  /\ alive' = [alive EXCEPT ![p] = @ \union {born[p] + 1}]

\* Popen raises OSError.
NoChild(p) ==
  /\ FaultsLeft /\ failures' = failures + 1
  /\ process' = [process EXCEPT ![p] = 0]
  /\ UNCHANGED <<alive, born>>

\* Mutants: a child that runs is not looked for; the program is not wanted again.
StartUnconditionally(p) ==
  /\ desired' = [desired EXCEPT ![p] = TRUE]
  /\ NewChild(p) /\ UNCHANGED failures

StartUnwanted(p) ==
  IF Running(p)
    THEN UNCHANGED <<child, failures>>
    ELSE /\ UNCHANGED desired
         /\ \/ NewChild(p) /\ UNCHANGED failures
            \/ NoChild(p)

\* start(): a running child is left alone, and so is desired_running.
StartProgram(p) ==
  IF Running(p)
    THEN UNCHANGED <<child, failures>>
    ELSE /\ desired' = [desired EXCEPT ![p] = TRUE]
         /\ \/ NewChild(p) /\ UNCHANGED failures
            \/ NoChild(p)

\* stop(): under the lock, the program is no longer wanted and its child is held.
StopProgram(t, p) ==
  /\ desired' = [desired EXCEPT ![p] = FALSE]
  /\ held' = [held EXCEPT ![t] = process[p]]
  /\ UNCHANGED <<process, alive, born>>

\* Mutants: stop() returns once SIGTERM is sent; it waits for ever, without SIGKILL.
StoppedUnwaited(t, p) == UNCHANGED <<child, held>>

StoppedPatiently(t, p) ==
  /\ held[t] \notin alive[p]
  /\ held' = [held EXCEPT ![t] = 0]
  /\ UNCHANGED child

\* ... then, without the lock, SIGTERM, and SIGKILL after the grace period.
Stopped(t, p) ==
  /\ alive' = [alive EXCEPT ![p] = @ \ {held[t]}]
  /\ held' = [held EXCEPT ![t] = 0]
  /\ UNCHANGED <<process, born, desired>>

------------------------------------------------------------------------------
(* Children *)

Dies(p) == alive' = [alive EXCEPT ![p] = @ \ {process[p]}]

Crash(p) ==
  /\ mainPc # "exited"
  /\ Running(p)
  /\ FaultsLeft
  /\ deaths' = [deaths EXCEPT ![p] = @ + 1]
  /\ Dies(p)
  /\ UNCHANGED <<process, born, desired, timer, crashes, shuttingDown, exitCode, loop,
                 control, held, stopAsked, commands, failures>>

\* A child obeys SIGTERM before the thread that sent it looks again.
ExitOnTerm(p) ==
  /\ Running(p)
  /\ \/ mainPc = "wait" /\ at = p /\ held[Main] = process[p]
     \/ \E h \in Handler : pc[h] = "wait" /\ target[h] = p /\ held[h] = process[p]
  /\ Dies(p)
  /\ UNCHANGED <<process, born, desired, timer, crashes, shuttingDown, exitCode, loop,
                 control, held, bounds>>

Elapse(p) ==
  /\ timer[p] = "waiting"
  /\ timer' = [timer EXCEPT ![p] = "due"]
  /\ UNCHANGED <<child, crashes, shuttingDown, exitCode, loop, control, held, bounds>>

------------------------------------------------------------------------------
(* The main loop *)

MainGoto(label) == mainPc' = label /\ UNCHANGED at

\* The programs are looked at in the order in which they were built.
NextProgram ==
  IF at = "xray"
    THEN at' = "admin-api" /\ mainPc' = "reap"
    ELSE mainPc' = "loop" /\ UNCHANGED at

\* run() starts every program before it enters the loop.
Boot ==
  /\ mainPc = "boot"
  /\ StartProgram(at)
  /\ IF at = "xray" THEN at' = "admin-api" /\ UNCHANGED mainPc ELSE MainGoto("loop")
  /\ UNCHANGED <<timer, crashes, shuttingDown, exitCode, control, held, stopAsked, commands, deaths>>

\* The loop ends in shutdown(), which stops admin-api first.
BeginPass ==
  /\ mainPc = "loop"
  /\ IF shuttingDown THEN at' = "admin-api" /\ mainPc' = "stop"
                     ELSE at' = "xray" /\ mainPc' = "reap"
  /\ UNCHANGED <<child, timer, crashes, shuttingDown, exitCode, control, held, bounds>>

Reap ==
  /\ mainPc = "reap"
  /\ IF process[at] # 0 /\ ~Running(at)
       THEN process' = [process EXCEPT ![at] = 0] /\ MainGoto("crashed")
       ELSE UNCHANGED process /\ MainGoto("check")
  /\ UNCHANGED <<alive, born, desired, timer, crashes, shuttingDown, exitCode, control,
                 held, bounds>>

\* Mutant: any program that keeps crashing takes the container down.
GiveUpOnAny(count) == count >= CrashLimit

GiveUp(count) == at \in Critical /\ count >= CrashLimit

\* desired_running is read without the lock; older crashes leave the window.
Crashed ==
  /\ mainPc = "crashed"
  /\ IF ~desired[at] \/ shuttingDown
       THEN NextProgram /\ UNCHANGED <<crashes, shuttingDown, exitCode>>
       ELSE \E kept \in 0..crashes[at] :
              /\ crashes' = [crashes EXCEPT ![at] = kept + 1]
              /\ IF GiveUp(kept + 1)
                   THEN shuttingDown' = TRUE /\ exitCode' = 1 /\ MainGoto("loop")
                   ELSE UNCHANGED <<shuttingDown, exitCode>> /\ MainGoto("schedule")
  /\ UNCHANGED <<child, timer, control, held, bounds>>

\* Mutant: the restart is announced and not scheduled.
ScheduleNothing ==
  /\ mainPc = "schedule"
  /\ NextProgram
  /\ UNCHANGED <<child, timer, crashes, shuttingDown, exitCode, control, held, bounds>>

Schedule ==
  /\ mainPc = "schedule"
  /\ timer' = [timer EXCEPT ![at] = "waiting"]
  /\ NextProgram
  /\ UNCHANGED <<child, crashes, shuttingDown, exitCode, control, held, bounds>>

\* The conditions of the second branch are read one after the other, next_start_at twice;
\* as 0.0 (unset) it is not after any time.
Check ==
  /\ \/ mainPc = "check" /\ IF desired[at] THEN MainGoto("down") ELSE NextProgram
     \/ mainPc = "down" /\ IF ~Running(at) THEN MainGoto("timed") ELSE NextProgram
     \/ mainPc = "timed" /\ IF timer[at] # "unset" THEN MainGoto("due") ELSE NextProgram
     \/ mainPc = "due" /\ IF timer[at] # "waiting" THEN MainGoto("start") ELSE NextProgram
  /\ UNCHANGED <<child, timer, crashes, shuttingDown, exitCode, control, held, bounds>>

StartDue ==
  /\ mainPc = "start"
  /\ timer' = [timer EXCEPT ![at] = "unset"]
  /\ StartProgram(at)
  /\ NextProgram
  /\ UNCHANGED <<crashes, shuttingDown, exitCode, control, held, stopAsked, commands, deaths>>

Shutdown ==
  /\ \/ /\ mainPc = "stop"
        /\ StopProgram(Main, at)
        /\ MainGoto("wait")
     \/ /\ mainPc = "wait"
        /\ Stopped(Main, at)
        /\ IF at = "admin-api" THEN at' = "xray" /\ mainPc' = "stop" ELSE MainGoto("exited")
  /\ UNCHANGED <<timer, crashes, shuttingDown, exitCode, control, bounds>>

\* SIGTERM from the platform; the handler only sets the event.
Signal ==
  /\ mainPc # "exited"
  /\ ~shuttingDown
  /\ shuttingDown' = TRUE
  /\ UNCHANGED <<child, timer, crashes, exitCode, loop, control, held, bounds>>

------------------------------------------------------------------------------
(* Control threads; they are daemons and end with the main thread *)

HandlerGoto(h, label) == pc' = [pc EXCEPT ![h] = label] /\ UNCHANGED <<cmd, target, since>>

\* The reply is sent and the thread ends.
HandlerEnds(h) ==
  /\ pc' = [pc EXCEPT ![h] = "idle"]
  /\ cmd' = [cmd EXCEPT ![h] = "start"]
  /\ target' = [target EXCEPT ![h] = "xray"]
  /\ since' = [since EXCEPT ![h] = 0]

\* _handle_command: refused when shutting down, unknown commands and ping aside.
Receive(h, c, p) ==
  /\ mainPc # "exited"
  /\ pc[h] = "idle"
  /\ ~shuttingDown
  /\ commands < MaxCommands /\ commands' = commands + 1
  /\ stopAsked' = IF c = "stop" THEN stopAsked \union {p} ELSE stopAsked
  /\ pc' = [pc EXCEPT ![h] = IF c = "start" THEN "start" ELSE "stop"]
  /\ cmd' = [cmd EXCEPT ![h] = c]
  /\ target' = [target EXCEPT ![h] = p]
  /\ since' = [since EXCEPT ![h] = born[p]]
  /\ UNCHANGED <<child, timer, crashes, shuttingDown, exitCode, loop, held, deaths, failures>>

HandlerStop(h) ==
  /\ pc[h] = "stop"
  /\ StopProgram(h, target[h])
  /\ HandlerGoto(h, "wait")
  /\ UNCHANGED timer

HandlerStopped(h) ==
  /\ pc[h] = "wait"
  /\ Stopped(h, target[h])
  /\ IF cmd[h] = "restart" THEN HandlerGoto(h, "reset") ELSE HandlerEnds(h)
  /\ UNCHANGED timer

HandlerReset(h) ==
  /\ pc[h] = "reset"
  /\ timer' = [timer EXCEPT ![target[h]] = "unset"]
  /\ HandlerGoto(h, "start")
  /\ UNCHANGED <<child, held>>

HandlerStart(h) ==
  /\ pc[h] = "start"
  /\ StartProgram(target[h])
  /\ HandlerEnds(h)
  /\ UNCHANGED <<timer, held>>

Handle(h) ==
  /\ mainPc # "exited"
  /\ \/ (HandlerStop(h) \/ HandlerStopped(h) \/ HandlerReset(h)) /\ UNCHANGED failures
     \/ HandlerStart(h)
  /\ UNCHANGED <<crashes, shuttingDown, exitCode, loop, stopAsked, commands, deaths>>

------------------------------------------------------------------------------
MainLoop ==
  \/ Boot \/ BeginPass \/ Reap \/ Crashed \/ Schedule \/ Check \/ StartDue \/ Shutdown

Next ==
  \/ MainLoop
  \/ \E h \in Handler :
       Handle(h) \/ \E c \in Commands, p \in Targets : Receive(h, c, p)
  \/ \E p \in Program : Crash(p) \/ ExitOnTerm(p) \/ Elapse(p)
  \/ Signal

Spec == Init /\ [][Next]_vars

(***************************************************************************)
(* The main loop and the threads run, and delays pass.  A child may ignore *)
(* SIGTERM and need never crash; no signal need ever come.                 *)
(***************************************************************************)
FairSpec ==
  /\ Spec
  /\ WF_vars(MainLoop)
  /\ \A h \in Handler : WF_vars(Handle(h))
  /\ \A p \in Program : WF_vars(Elapse(p))

------------------------------------------------------------------------------
(* Properties *)

\* Two threads that start a program, or one that starts it while another stops it,
\* never leave two Xrays or two admin-apis running, nor one nobody knows of.
OneChild == \A p \in Program : alive[p] \subseteq {process[p]}

\* A restart that is answered with ok has left a child that was started after the
\* command arrived: apply_configuration relies on it to know that Xray has read the
\* file it has just written, also when other restarts and the main loop interfere.
RestartIsFresh ==
  [][\A h \in Handler :
       (/\ pc[h] = "start" /\ pc'[h] = "idle" /\ cmd[h] = "restart"
        /\ process'[target[h]] # 0)
       => process'[target[h]] > since[h]]_vars

\* The inductive invariant behind the two: children are numbered upwards, and from the
\* moment a restart holds the child it found, any other child that runs is newer than
\* the command; once that child is gone, every one is.
FreshInv ==
  /\ \A p \in Program : \A n \in alive[p] : n <= born[p]
  /\ \A h \in Handler :
       /\ since[h] <= born[target[h]]
       /\ cmd[h] = "restart" =>
            /\ pc[h] = "wait" =>
                 \A n \in alive[target[h]] : n = held[h] \/ n > since[h]
            /\ pc[h] \in {"reset", "start"} =>
                 \A n \in alive[target[h]] : n > since[h]

ProcessInv == TypeOK /\ OneChild /\ FreshInv

\* Restarts that overlap one another, starts and crashes never leave a program that the
\* main loop believes should be down when nobody has asked for it to be stopped.
RestartKeepsWanted ==
  (~shuttingDown /\ \A h \in Handler : pc[h] = "idle") =>
     \A p \in Program \ stopAsked : desired[p]

\* "crashed N times, giving up": the container is given up on for crashes of
\* admin-api only, and for as many as the limit, whatever becomes of Xray.
GivesUpOnCrashes == exitCode = 1 => deaths["admin-api"] >= CrashLimit

\* As long as Popen does not fail (run does not try a failed start again), a child that
\* is down is up again in the end, unless somebody asked for it to be stopped or the
\* supervisor is on its way out, whatever restarts come in between.
KeptAlive ==
  \A p \in Program :
    [](~Running(p) => <>(Running(p) \/ shuttingDown \/ p \in stopAsked \/ failures > 0))

\* Once a shutdown has begun the supervisor exits, also when a child ignores SIGTERM.
ShutdownEnds == shuttingDown ~> mainPc = "exited"
==============================================================================
