-------------------------- MODULE SupervisorProofs --------------------------
(***************************************************************************)
(* Proofs about the supervisor, for any number of control threads and any  *)
(* commands, crashes and failed starts: one child per program, and what a  *)
(* restart that says ok guarantees.                                        *)
(***************************************************************************)
EXTENDS Supervisor, TLAPS

\* The main loop is not one of the control threads.
LEMMA MainIsApart == \A h \in Handler : h # Main
BY ConstantsOK

\* While there is room for one more fault, no counter of faults is at its bound.
LEMMA FaultsBounded ==
  ASSUME TypeOK, FaultsLeft
  PROVE  failures + 1 \in 0..MaxFaults /\ \A p \in Program : deaths[p] + 1 \in 0..MaxFaults
<1>1. /\ deaths["xray"] \in Nat /\ deaths["admin-api"] \in Nat
      /\ failures \in Nat /\ MaxFaults \in Nat
  BY ConstantsOK DEF TypeOK, Program
<1> QED
  BY <1>1 DEF FaultsLeft, Program

\* Nothing runs before the supervisor boots.
LEMMA ProcessStart == Init => ProcessInv
<1> SUFFICES ASSUME Init PROVE ProcessInv
  OBVIOUS
<1> USE ConstantsOK DEF Init
<1>1. TypeOK
  <2>1. /\ alive \in [Program -> SUBSET Nat]
        /\ target \in [Handler -> Program] /\ at \in Program
    BY DEF Program
  <2>2. mainPc \in MainLabel
    BY DEF MainLabel
  <2>3. /\ commands \in 0..MaxCommands
        /\ deaths \in [Program -> 0..MaxFaults] /\ failures \in 0..MaxFaults
    OBVIOUS
  <2>4. /\ process \in [Program -> Nat] /\ born \in [Program -> Nat]
        /\ crashes \in [Program -> Nat] /\ since \in [Handler -> Nat]
        /\ held \in [Handler \union {Main} -> Nat]
    OBVIOUS
  <2> QED
    BY <2>1, <2>2, <2>3, <2>4 DEF TypeOK
<1>2. \A p \in Program : alive[p] = {}
  OBVIOUS
<1>3. OneChild
  BY <1>2 DEF OneChild
<1>4. \A h \in Handler : since[h] = 0 /\ born[target[h]] = 0 /\ pc[h] = "idle"
  BY DEF Program
<1>5. FreshInv
  BY <1>2, <1>4 DEF FreshInv
<1> QED
  BY <1>1, <1>3, <1>5 DEF ProcessInv

\* What the process variables of a program may turn into in one step.
Replaced(p) ==
  /\ born'[p] = born[p] + 1
  /\ process'[p] = born[p] + 1
  /\ alive'[p] = alive[p] \union {born[p] + 1}
  /\ alive[p] = {}

Kept(p) ==
  /\ born'[p] = born[p]
  /\ alive'[p] \subseteq alive[p]
  /\ process'[p] = process[p] \/ alive'[p] = {}

\* start() replaces a child only when none is alive.
LEMMA StartReplaces ==
  ASSUME ProcessInv, NEW p \in Program, StartProgram(p)
  PROVE  /\ \A q \in Program : IF q = p THEN Replaced(q) \/ Kept(q)
                                        ELSE Kept(q) /\ desired'[q] = desired[q]
         /\ process' \in [Program -> Nat] /\ alive' \in [Program -> SUBSET Nat]
         /\ born' \in [Program -> Nat] /\ desired' \in [Program -> BOOLEAN]
         /\ failures' \in 0..MaxFaults
<1>1. TypeOK /\ OneChild
  BY DEF ProcessInv
<1>2. CASE Running(p)
  BY <1>1, <1>2 DEF StartProgram, child, Kept, TypeOK
<1>3. CASE ~Running(p)
  <2>1. alive[p] = {}
    BY <1>1, <1>3 DEF OneChild, Running
  <2>2. desired' \in [Program -> BOOLEAN]
    BY <1>1, <1>3 DEF StartProgram, TypeOK
  <2>3. CASE NewChild(p) /\ UNCHANGED failures
    BY <1>1, <1>3, <2>1, <2>2, <2>3 DEF StartProgram, NewChild, Replaced, Kept, TypeOK
  <2>4. CASE NoChild(p)
    <3>1. failures' \in 0..MaxFaults
      BY <1>1, <2>4, FaultsBounded DEF NoChild
    <3> QED
      BY <1>1, <1>3, <2>1, <2>2, <2>4, <3>1 DEF StartProgram, NoChild, Replaced, Kept, TypeOK
  <2> QED
    BY <1>3, <2>3, <2>4 DEF StartProgram
<1> QED
  BY <1>2, <1>3

\* Changes of this kind preserve the invariant while the control threads stand still.
LEMMA FreshKept ==
  ASSUME ProcessInv,
         \A q \in Program : Replaced(q) \/ Kept(q),
         TypeOK', UNCHANGED control,
         \A h \in Handler : held'[h] = held[h]
  PROVE  ProcessInv'
<1>1. TypeOK /\ OneChild /\ FreshInv
  BY DEF ProcessInv
<1>2. OneChild'
  BY <1>1 DEF OneChild, Replaced, Kept, TypeOK
<1>3. \A p \in Program : \A n \in alive'[p] : n <= born'[p]
  <2> SUFFICES ASSUME NEW p \in Program, NEW n \in alive'[p]
               PROVE  n <= born'[p]
    OBVIOUS
  <2>1. born[p] \in Nat /\ alive[p] \subseteq Nat /\ \A m \in alive[p] : m <= born[p]
    BY <1>1 DEF FreshInv, TypeOK
  <2>2. CASE Replaced(p)
    BY <2>1, <2>2 DEF Replaced
  <2>3. CASE Kept(p)
    BY <2>1, <2>3 DEF Kept
  <2> QED
    BY <2>2, <2>3
<1>4. \A h \in Handler, n \in Nat :
        n \in alive'[target[h]] =>
          n \in alive[target[h]] \/ n = born[target[h]] + 1
  BY <1>1 DEF Replaced, Kept, TypeOK
<1>5. \A h \in Handler : since[h] <= born[target[h]] /\ born[target[h]] <= born'[target[h]]
                         /\ since[h] \in Nat /\ born[target[h]] \in Nat
                         /\ born'[target[h]] \in Nat
                         /\ alive'[target[h]] \subseteq Nat
  <2> SUFFICES ASSUME NEW h \in Handler, NEW p \in Program, p = target[h]
               PROVE  /\ since[h] <= born[p] /\ born[p] <= born'[p]
                      /\ since[h] \in Nat /\ born[p] \in Nat /\ born'[p] \in Nat
                      /\ alive'[p] \subseteq Nat
    BY <1>1 DEF TypeOK
  <2>1. since[h] <= born[p] /\ since[h] \in Nat /\ born[p] \in Nat /\ alive[p] \subseteq Nat
    BY <1>1 DEF FreshInv, TypeOK
  <2>2. CASE Replaced(p)
    BY <2>1, <2>2 DEF Replaced
  <2>3. CASE Kept(p)
    BY <2>1, <2>3 DEF Kept
  <2> QED
    BY <2>1, <2>2, <2>3
<1>6. FreshInv'
  BY <1>1, <1>3, <1>4, <1>5 DEF FreshInv, control
<1> QED
  BY <1>2, <1>6 DEF ProcessInv

\* Steps of the main loop, the children and the clock.
LEMMA LoopStep ==
  ASSUME ProcessInv,
         \/ MainLoop \/ Signal
         \/ \E p \in Program : Crash(p) \/ ExitOnTerm(p) \/ Elapse(p)
  PROVE  ProcessInv'
<1> USE ConstantsOK DEF MainLabel
<1>1. TypeOK
  BY DEF ProcessInv
<1>2. at \in Program
  BY <1>1 DEF TypeOK
<1>3. CASE Boot
  <2>1. StartProgram(at) /\ UNCHANGED <<control, held>>
    BY <1>3 DEF Boot
  <2>2. \A q \in Program : Replaced(q) \/ Kept(q)
    BY <1>2, <2>1, StartReplaces
  <2>3. TypeOK'
    BY <1>1, <1>2, <1>3, <2>1, StartReplaces DEF Boot, MainGoto, TypeOK, control, Program
  <2> QED
    BY <2>1, <2>2, <2>3, FreshKept
<1>4. CASE StartDue
  <2>1. StartProgram(at) /\ UNCHANGED <<control, held>>
    BY <1>4 DEF StartDue
  <2>2. \A q \in Program : Replaced(q) \/ Kept(q)
    BY <1>2, <2>1, StartReplaces
  <2>3. TypeOK'
    BY <1>1, <1>2, <1>4, <2>1, StartReplaces DEF StartDue, NextProgram, TypeOK, control, Program
  <2> QED
    BY <2>1, <2>2, <2>3, FreshKept
<1>5. CASE Reap
  <2>1. UNCHANGED <<alive, born, control, held>>
    BY <1>5 DEF Reap
  <2>2. \A q \in Program : Kept(q)
    BY <1>1, <1>2, <1>5, <2>1 DEF Reap, Kept, TypeOK, Running, ProcessInv, OneChild
  <2>3. TypeOK'
    BY <1>1, <1>2, <1>5, <2>1 DEF Reap, MainGoto, TypeOK, control, bounds
  <2> QED
    BY <2>1, <2>2, <2>3, FreshKept
<1>6. CASE BeginPass \/ Crashed \/ Schedule \/ Check \/ Signal
  <2>1. UNCHANGED <<child, control, held, bounds>>
    BY <1>6 DEF BeginPass, Crashed, Schedule, Check, Signal
  <2>2. \A q \in Program : Kept(q)
    BY <2>1 DEF child, Kept
  <2>3. TypeOK'
    <3>1. CASE BeginPass
      BY <1>1, <2>1, <3>1 DEF BeginPass, TypeOK, control, bounds, child, Program
    <3>2. CASE Crashed
      <4>1. crashes' \in [Program -> Nat]
        BY <1>1, <3>2 DEF Crashed, TypeOK
      <4> QED
        BY <1>1, <2>1, <3>2, <4>1
        DEF Crashed, NextProgram, MainGoto, TypeOK, control, bounds, child, Program
    <3>3. CASE Schedule
      BY <1>1, <2>1, <3>3
      DEF Schedule, NextProgram, TypeOK, control, bounds, child, Program
    <3>4. CASE Check
      BY <1>1, <2>1, <3>4
      DEF Check, NextProgram, MainGoto, TypeOK, control, bounds, child, Program
    <3>5. CASE Signal
      BY <1>1, <2>1, <3>5 DEF Signal, TypeOK, control, bounds, child, loop
    <3> QED
      BY <1>6, <3>1, <3>2, <3>3, <3>4, <3>5
  <2> QED
    BY <2>1, <2>2, <2>3, FreshKept
<1>7. CASE Shutdown
  <2>1. UNCHANGED <<process, born, control, timer, crashes, shuttingDown, exitCode, bounds>>
    BY <1>7 DEF Shutdown, StopProgram, Stopped
  <2>2. \A q \in Program : Kept(q)
    BY <1>1, <1>2, <1>7 DEF Shutdown, StopProgram, Stopped, Kept, TypeOK
  <2>3. /\ alive' \in [Program -> SUBSET Nat]
        /\ held' \in [Handler \union {Main} -> Nat]
        /\ desired' \in [Program -> BOOLEAN]
    <3>1. CASE StopProgram(Main, at)
      BY <1>1, <1>2, <3>1 DEF StopProgram, TypeOK
    <3>2. CASE Stopped(Main, at)
      BY <1>1, <1>2, <3>2 DEF Stopped, TypeOK
    <3> QED
      BY <1>7, <3>1, <3>2 DEF Shutdown
  <2>4. TypeOK'
    BY <1>1, <1>7, <2>1, <2>3 DEF Shutdown, MainGoto, TypeOK, control, bounds, Program
  <2>5. \A h \in Handler : held'[h] = held[h]
    BY <1>1, <1>7, MainIsApart DEF Shutdown, StopProgram, Stopped, TypeOK
  <2> QED
    BY <2>1, <2>2, <2>4, <2>5, FreshKept
<1>8. CASE \E p \in Program : Crash(p) \/ ExitOnTerm(p) \/ Elapse(p)
  <2>1. PICK p \in Program : Crash(p) \/ ExitOnTerm(p) \/ Elapse(p)
    BY <1>8
  <2>2. UNCHANGED <<process, born, desired, control, held>>
    BY <2>1 DEF Crash, ExitOnTerm, Elapse, child
  <2>3. (\A q \in Program : Kept(q)) /\ alive' \in [Program -> SUBSET Nat]
    BY <1>1, <2>1, <2>2 DEF Crash, ExitOnTerm, Elapse, Dies, child, Kept, TypeOK
  <2>4. TypeOK'
    <3>1. deaths' \in [Program -> 0..MaxFaults]
      BY <1>1, <2>1, FaultsBounded DEF Crash, ExitOnTerm, Elapse, TypeOK, bounds
    <3> QED
      BY <1>1, <2>1, <2>2, <2>3, <3>1 DEF Crash, ExitOnTerm, Elapse, TypeOK, control, loop, bounds
  <2> QED
    BY <2>2, <2>3, <2>4, FreshKept
<1> QED
  BY <1>3, <1>4, <1>5, <1>6, <1>7, <1>8 DEF MainLoop

\* Steps of the control threads.
LEMMA ControlStep ==
  ASSUME ProcessInv, NEW h \in Handler,
         Handle(h) \/ \E c \in Commands, p \in Targets : Receive(h, c, p)
  PROVE  ProcessInv'
<1> USE ConstantsOK
<1>1. TypeOK /\ OneChild /\ FreshInv
  BY DEF ProcessInv
<1>2. target[h] \in Program
  BY <1>1 DEF TypeOK
<1>3. CASE \E c \in Commands, p \in Targets : Receive(h, c, p)
  <2>1. PICK c \in Commands, p \in Targets : Receive(h, c, p)
    BY <1>3
  <2>2. /\ p \in Program /\ c \in {"restart", "stop", "start"}
        /\ UNCHANGED <<child, held>>
        /\ pc'[h] \in {"stop", "start"} /\ (pc'[h] = "start" => c = "start")
        /\ cmd'[h] = c /\ target'[h] = p /\ since'[h] = born[p]
        /\ \A g \in Handler : g # h =>
             pc'[g] = pc[g] /\ cmd'[g] = cmd[g] /\ target'[g] = target[g] /\ since'[g] = since[g]
    BY <1>1, <2>1 DEF Receive, TypeOK
  <2>3. TypeOK'
    BY <1>1, <2>1, <2>2 DEF Receive, TypeOK, child, loop
  <2>4. OneChild'
    BY <1>1, <2>2 DEF OneChild, child
  <2>5. FreshInv'
    BY <1>1, <2>2 DEF FreshInv, child, TypeOK
  <2> QED
    BY <2>3, <2>4, <2>5 DEF ProcessInv
<1>4. CASE HandlerStop(h) /\ Handle(h)
  <2>1. /\ UNCHANGED <<process, alive, born, cmd, target, since>>
        /\ pc[h] = "stop" /\ pc'[h] = "wait" /\ held'[h] = process[target[h]]
        /\ \A g \in Handler : g # h => pc'[g] = pc[g] /\ held'[g] = held[g]
    BY <1>1, <1>4 DEF HandlerStop, StopProgram, HandlerGoto, TypeOK
  <2>2. TypeOK'
    <3>1. /\ desired' \in [Program -> BOOLEAN]
          /\ held' \in [Handler \union {Main} -> Nat]
          /\ pc' \in [Handler -> {"idle", "stop", "wait", "reset", "start"}]
      BY <1>1, <1>2, <1>4 DEF HandlerStop, StopProgram, HandlerGoto, TypeOK
    <3>2. UNCHANGED <<timer, crashes, shuttingDown, exitCode, loop, stopAsked, commands, deaths>>
      BY <1>4 DEF HandlerStop, Handle
    <3>3. failures' \in 0..MaxFaults
      <4>1. ~HandlerStart(h)
        BY <2>1 DEF HandlerStart
      <4> QED
        BY <1>1, <1>4, <4>1 DEF Handle, TypeOK
    <3> QED
      BY <1>1, <2>1, <3>1, <3>2, <3>3 DEF TypeOK, loop
  <2>3. OneChild'
    BY <1>1, <2>1 DEF OneChild
  <2>4. FreshInv'
    <3>1. \A n \in alive[target[h]] : n = process[target[h]]
      BY <1>1, <1>2 DEF OneChild
    <3> QED
      BY <1>1, <2>1, <3>1 DEF FreshInv
  <2> QED
    BY <2>2, <2>3, <2>4 DEF ProcessInv
<1>5. CASE HandlerStopped(h) /\ Handle(h)
  <2>1. /\ UNCHANGED <<process, born, desired, timer>>
        /\ pc[h] = "wait" /\ held[h] \in Nat
        /\ alive' = [alive EXCEPT ![target[h]] = @ \ {held[h]}]
        /\ alive' \in [Program -> SUBSET Nat]
        /\ held' \in [Handler \union {Main} -> Nat]
        /\ \A g \in Handler : g # h => held'[g] = held[g]
    BY <1>1, <1>2, <1>5 DEF HandlerStopped, Stopped, TypeOK
  <2>2. \/ /\ cmd[h] = "restart" /\ pc'[h] = "reset"
           /\ UNCHANGED <<cmd, target, since>>
        \/ pc'[h] = "idle" /\ since'[h] = 0 /\ target'[h] = "xray"
    BY <1>1, <1>5 DEF HandlerStopped, HandlerGoto, HandlerEnds, TypeOK
  <2>3. \A g \in Handler : g # h =>
          pc'[g] = pc[g] /\ cmd'[g] = cmd[g] /\ target'[g] = target[g] /\ since'[g] = since[g]
    BY <1>1, <1>5 DEF HandlerStopped, HandlerGoto, HandlerEnds, TypeOK
  <2>4. TypeOK'
    <3>1. /\ pc' \in [Handler -> {"idle", "stop", "wait", "reset", "start"}]
          /\ cmd' \in [Handler -> {"restart", "stop", "start"}]
          /\ target' \in [Handler -> Program]
          /\ since' \in [Handler -> Nat]
      BY <1>1, <1>5 DEF HandlerStopped, HandlerGoto, HandlerEnds, TypeOK, Program
    <3>2. UNCHANGED <<crashes, shuttingDown, exitCode, loop, stopAsked, commands, deaths>>
      BY <1>5 DEF Handle
    <3>3. failures' \in 0..MaxFaults
      <4>1. ~HandlerStart(h)
        BY <2>1 DEF HandlerStart
      <4> QED
        BY <1>1, <1>5, <4>1 DEF Handle, TypeOK
    <3> QED
      BY <1>1, <2>1, <3>1, <3>2, <3>3 DEF TypeOK, loop
  <2>5. OneChild'
    BY <1>1, <2>1 DEF OneChild, TypeOK
  <2>6. \A p \in Program : alive'[p] \subseteq alive[p] /\ born'[p] = born[p]
    BY <1>1, <2>1 DEF TypeOK
  <2>7. \A n \in alive'[target[h]] : n \in alive[target[h]] /\ n # held[h]
    BY <1>1, <1>2, <2>1 DEF TypeOK
  <2>8. FreshInv'
    <3>1. \A p \in Program : \A n \in alive'[p] : n <= born'[p]
      BY <1>1, <2>6 DEF FreshInv
    <3> DEFINE Fresh(g) ==
                 /\ since[g] <= born[target[g]]
                 /\ cmd[g] = "restart" =>
                      /\ pc[g] = "wait" =>
                           \A n \in alive[target[g]] : n = held[g] \/ n > since[g]
                      /\ pc[g] \in {"reset", "start"} =>
                           \A n \in alive[target[g]] : n > since[g]
    <3>2. \A g \in Handler : g # h => Fresh(g)'
      BY <1>1, <2>1, <2>3, <2>6 DEF FreshInv, TypeOK
    <3>3. Fresh(h)'
      <4>1. CASE cmd[h] = "restart" /\ pc'[h] = "reset" /\ UNCHANGED <<cmd, target, since>>
        BY <1>1, <1>2, <2>1, <2>7, <4>1 DEF FreshInv, TypeOK
      <4>2. CASE pc'[h] = "idle" /\ since'[h] = 0 /\ target'[h] = "xray"
        BY <1>1, <2>1, <4>2 DEF TypeOK, Program
      <4> QED
        BY <2>2, <4>1, <4>2
    <3> QED
      BY <3>1, <3>2, <3>3 DEF FreshInv
  <2> QED
    BY <2>4, <2>5, <2>8 DEF ProcessInv
<1>6. CASE HandlerReset(h) /\ Handle(h)
  <2>1. /\ UNCHANGED <<child, held, cmd, target, since>>
        /\ pc[h] = "reset" /\ pc'[h] = "start"
        /\ \A g \in Handler : g # h => pc'[g] = pc[g]
    BY <1>1, <1>6 DEF HandlerReset, HandlerGoto, TypeOK
  <2>2. TypeOK'
    <3>1. /\ pc' \in [Handler -> {"idle", "stop", "wait", "reset", "start"}]
          /\ timer' \in [Program -> {"unset", "waiting", "due"}]
      BY <1>1, <1>6 DEF HandlerReset, HandlerGoto, TypeOK
    <3>2. UNCHANGED <<crashes, shuttingDown, exitCode, loop, stopAsked, commands, deaths>>
      BY <1>6 DEF Handle
    <3>3. failures' \in 0..MaxFaults
      <4>1. ~HandlerStart(h)
        BY <2>1 DEF HandlerStart
      <4> QED
        BY <1>1, <1>6, <4>1 DEF Handle, TypeOK
    <3> QED
      BY <1>1, <2>1, <3>1, <3>2, <3>3 DEF TypeOK, loop, child
  <2>3. OneChild' /\ FreshInv'
    BY <1>1, <2>1 DEF OneChild, FreshInv, child
  <2> QED
    BY <2>2, <2>3 DEF ProcessInv
<1>7. CASE HandlerStart(h) /\ Handle(h)
  <2>1. /\ StartProgram(target[h]) /\ UNCHANGED <<timer, held>>
        /\ pc'[h] = "idle" /\ since'[h] = 0 /\ target'[h] = "xray"
        /\ \A g \in Handler : g # h =>
             pc'[g] = pc[g] /\ cmd'[g] = cmd[g] /\ target'[g] = target[g] /\ since'[g] = since[g]
    BY <1>1, <1>7 DEF HandlerStart, HandlerEnds, TypeOK
  <2>2. /\ \A q \in Program : Replaced(q) \/ Kept(q)
        /\ process' \in [Program -> Nat] /\ alive' \in [Program -> SUBSET Nat]
        /\ born' \in [Program -> Nat] /\ desired' \in [Program -> BOOLEAN]
        /\ failures' \in 0..MaxFaults
    BY <1>2, <2>1, StartReplaces
  <2>3. TypeOK'
    <3>1. /\ pc' \in [Handler -> {"idle", "stop", "wait", "reset", "start"}]
          /\ cmd' \in [Handler -> {"restart", "stop", "start"}]
          /\ target' \in [Handler -> Program]
          /\ since' \in [Handler -> Nat]
      BY <1>1, <1>7 DEF HandlerStart, HandlerEnds, TypeOK, Program
    <3>2. UNCHANGED <<crashes, shuttingDown, exitCode, loop, stopAsked, commands, deaths>>
      BY <1>7 DEF Handle
    <3> QED
      BY <1>1, <2>1, <2>2, <3>1, <3>2 DEF TypeOK, loop
  <2>4. OneChild'
    BY <1>1, <2>2 DEF OneChild, Replaced, Kept, TypeOK
  <2>5. \A p \in Program : \A n \in alive'[p] : n <= born'[p]
    BY <1>1, <2>2 DEF FreshInv, Replaced, Kept, TypeOK
  <2>6. \A g \in Handler, n \in Nat : n \in alive'[target[g]] =>
          n \in alive[target[g]] \/ n = born[target[g]] + 1
    BY <1>1, <2>2 DEF Replaced, Kept, TypeOK
  <2>7. \A g \in Handler : since[g] <= born[target[g]] /\ born[target[g]] <= born'[target[g]]
                           /\ since[g] \in Nat /\ born[target[g]] \in Nat
                           /\ born'[target[g]] \in Nat /\ alive'[target[g]] \subseteq Nat
    BY <1>1, <2>2 DEF FreshInv, Replaced, Kept, TypeOK
  <2>8. 0 <= born'["xray"]
    BY <2>2 DEF Program
  <2>9. FreshInv'
    BY <1>1, <2>1, <2>5, <2>6, <2>7, <2>8 DEF FreshInv
  <2> QED
    BY <2>3, <2>4, <2>9 DEF ProcessInv
<1> QED
  BY <1>3, <1>4, <1>5, <1>6, <1>7 DEF Handle

\* The inductive step.
LEMMA ProcessStep == ProcessInv /\ [Next]_vars => ProcessInv'
<1> SUFFICES ASSUME ProcessInv, [Next]_vars PROVE ProcessInv'
  OBVIOUS
<1>1. CASE Next
  BY <1>1, LoopStep, ControlStep DEF Next
<1>2. CASE UNCHANGED vars
  BY <1>2 DEF vars, child, loop, control, bounds, ProcessInv, TypeOK, OneChild, FreshInv,
              MainLabel
<1> QED
  BY <1>1, <1>2

\* The inductive invariant holds throughout.
THEOREM ProcessAlways == Spec => []ProcessInv
BY ProcessStart, ProcessStep, PTL DEF Spec

\* supervisor.py Program: however restarts, crashes, starts and shutdown interleave, no
\* program ever has two children, nor one that its Program object does not know of.
THEOREM AtMostOneChild == Spec => []OneChild
<1>1. ProcessInv => OneChild
  BY DEF ProcessInv
<1> QED
  BY <1>1, ProcessAlways, PTL

\* supervisor.py restart: when it answers ok the child was started after the command
\* had arrived.  This is what lets ApplyPipeline take a restart as one step.
THEOREM RestartsAreFresh == Spec => RestartIsFresh
<1> DEFINE Fresh(h) ==
      (/\ pc[h] = "start" /\ pc'[h] = "idle" /\ cmd[h] = "restart"
       /\ process'[target[h]] # 0) => process'[target[h]] > since[h]
<1>1. ProcessInv /\ [Next]_vars => \A h \in Handler : Fresh(h)
  <2> SUFFICES ASSUME ProcessInv, [Next]_vars, NEW h \in Handler,
                      pc[h] = "start", pc'[h] = "idle", cmd[h] = "restart",
                      process'[target[h]] # 0
               PROVE  process'[target[h]] > since[h]
    OBVIOUS
  <2>1. TypeOK /\ OneChild /\ FreshInv
    BY DEF ProcessInv
  <2>2. StartProgram(target[h])
    <3>1. CASE \E g \in Handler : Handle(g) \/ \E c \in Commands, p \in Targets : Receive(g, c, p)
      <4>1. PICK g \in Handler : Handle(g) \/ \E c \in Commands, p \in Targets : Receive(g, c, p)
        BY <3>1
      <4>2. g = h
        BY <2>1, <4>1
        DEF Handle, HandlerStop, HandlerStopped, HandlerReset, HandlerStart, Receive,
            HandlerGoto, HandlerEnds, TypeOK
      <4> QED
        BY <4>1, <4>2
        DEF Handle, HandlerStop, HandlerStopped, HandlerReset, HandlerStart, Receive
    <3>2. CASE \/ MainLoop \/ Signal
               \/ \E p \in Program : Crash(p) \/ ExitOnTerm(p) \/ Elapse(p)
      BY <3>2 DEF MainLoop, Boot, BeginPass, Reap, Crashed, Schedule, Check, StartDue, Shutdown,
                  Signal, Crash, ExitOnTerm, Elapse, control
    <3>3. CASE UNCHANGED vars
      BY <3>3 DEF vars, control
    <3> QED
      BY <3>1, <3>2, <3>3 DEF Next
  <2>3. /\ target[h] \in Program /\ since[h] \in Nat /\ born[target[h]] \in Nat
        /\ since[h] <= born[target[h]]
    BY <2>1 DEF TypeOK, FreshInv
  <2>4. CASE Running(target[h])
    BY <2>1, <2>2, <2>4 DEF StartProgram, Running, child, FreshInv
  <2>5. CASE ~Running(target[h])
    <3>1. process'[target[h]] = born[target[h]] + 1
      BY <2>1, <2>2, <2>3, <2>5 DEF StartProgram, NewChild, NoChild, TypeOK
    <3> QED
      BY <2>3, <3>1
  <2> QED
    BY <2>4, <2>5
<1> QED
  BY <1>1, ProcessAlways, PTL DEF Spec, RestartIsFresh

------------------------------------------------------------------------------
(* What is wanted *)

\* A command under way is at a step of its own kind, and a stop is on record.
CommandInv ==
  \A h \in Handler :
    /\ pc[h] \in {"stop", "wait"} => cmd[h] # "start"
    /\ pc[h] = "reset" => cmd[h] = "restart"
    /\ pc[h] # "idle" /\ cmd[h] = "stop" => target[h] \in stopAsked

\* A restart of p that has taken its old child away, or is about to, and has yet to
\* start p again.
Restarting(h, p) ==
  /\ target[h] = p /\ cmd[h] = "restart" /\ pc[h] \in {"wait", "reset", "start"}

\* A program that is not wanted although nobody asked for that is in the hands of a
\* restart, and while a child of it still runs, of one that will take that child away:
\* a restart that finds it running does not say that it is wanted.
WantedInv ==
  \A p \in Program \ stopAsked :
    ~shuttingDown /\ ~desired[p] =>
      /\ \E h \in Handler : Restarting(h, p)
      /\ Running(p) =>
           \E h \in Handler : Restarting(h, p) /\ pc[h] = "wait" /\ held[h] = process[p]

\* The main loop stops children on its way out only.
WayOutInv == mainPc \in {"stop", "wait", "exited"} => shuttingDown

WantInv == CommandInv /\ WantedInv /\ WayOutInv

------------------------------------------------------------------------------
(* What is given up on *)

Admin == "admin-api"

\* Deaths of admin-api that the main loop has not counted yet.
Unreaped == IF process[Admin] # 0 /\ ~Running(Admin) THEN 1 ELSE 0
Uncounted == IF mainPc = "crashed" /\ at = Admin THEN 1 ELSE 0

\* As long as nothing is shut down, each crash that is counted is a death of its own; no
\* command is for admin-api, so it is wanted and only the main loop looks after it.
CountInv ==
  /\ \A h \in Handler : target[h] # Admin
  /\ ~shuttingDown => desired[Admin] /\ crashes[Admin] + Unreaped + Uncounted <= deaths[Admin]
  /\ GivesUpOnCrashes

\* start() leaves the other programs alone; its own is wanted afterwards, or runs already.
LEMMA StartWants ==
  ASSUME TypeOK, NEW p \in Program, StartProgram(p)
  PROVE  /\ \/ UNCHANGED child
            \/ ~Running(p) /\ desired' = [desired EXCEPT ![p] = TRUE]
         /\ \A q \in Program : q # p =>
              process'[q] = process[q] /\ alive'[q] = alive[q] /\ desired'[q] = desired[q]
BY DEF StartProgram, NewChild, NoChild, child, TypeOK

\* While the control threads stand still, a program stays wanted, and one that is not
\* runs only if it ran before.
LEMMA WantedKept ==
  ASSUME WantedInv, UNCHANGED <<control, stopAsked>>,
         \A h \in Handler : held'[h] = held[h],
         shuttingDown => shuttingDown',
         \A q \in Program :
           \/ desired'[q]
           \/ desired'[q] = desired[q] /\ (Running(q)' => Running(q) /\ process'[q] = process[q])
  PROVE  WantedInv'
<1> SUFFICES ASSUME NEW p \in Program \ stopAsked', ~shuttingDown', ~desired'[p]
             PROVE  /\ \E h \in Handler : Restarting(h, p)'
                    /\ Running(p)' =>
                         \E h \in Handler : Restarting(h, p)' /\ pc'[h] = "wait" /\ held'[h] = process'[p]
  BY DEF WantedInv
<1>1. p \in Program \ stopAsked /\ ~shuttingDown /\ ~desired[p]
  OBVIOUS
<1>2. \A h \in Handler : Restarting(h, p)' = Restarting(h, p) /\ pc'[h] = pc[h]
  BY DEF Restarting, control
<1> QED
  BY <1>1, <1>2 DEF WantedInv

LEMMA WantStart == Init => WantInv
BY DEF Init, WantInv, CommandInv, WantedInv, WayOutInv

\* The main loop, the children and the clock.
LEMMA WantLoop ==
  ASSUME ProcessInv, WantInv,
         \/ MainLoop \/ Signal
         \/ \E p \in Program : Crash(p) \/ ExitOnTerm(p) \/ Elapse(p)
  PROVE  WantInv'
<1>1. TypeOK /\ OneChild /\ CommandInv /\ WantedInv /\ WayOutInv /\ at \in Program
  BY DEF ProcessInv, WantInv, TypeOK
<1>2. UNCHANGED <<control, stopAsked>>
  BY DEF MainLoop, Boot, BeginPass, Reap, Crashed, Schedule, Check, StartDue, Shutdown, Signal,
         Crash, ExitOnTerm, Elapse, bounds
<1>3. CommandInv'
  BY <1>1, <1>2 DEF CommandInv, control
<1>4. CASE Boot \/ StartDue
  <2>1. StartProgram(at) /\ UNCHANGED <<held, shuttingDown>> /\ mainPc' \in {"boot", "loop", "reap"}
    BY <1>1, <1>4 DEF Boot, StartDue, MainGoto, NextProgram
  <2>2. \A q \in Program :
          \/ desired'[q]
          \/ desired'[q] = desired[q] /\ (Running(q)' => Running(q) /\ process'[q] = process[q])
    <3>1. CASE UNCHANGED child
      BY <3>1 DEF child, Running
    <3>2. CASE desired' = [desired EXCEPT ![at] = TRUE]
      BY <1>1, <2>1, <3>2, StartWants DEF Running, TypeOK
    <3> QED
      BY <1>1, <2>1, <3>1, <3>2, StartWants
  <2>3. WantedInv'
    BY <1>1, <1>2, <2>1, <2>2, WantedKept
  <2> QED
    BY <1>3, <2>1, <2>3 DEF WantInv, WayOutInv
<1>5. CASE Reap
  <2>1. UNCHANGED <<held, shuttingDown, desired, alive>> /\ mainPc' \in {"crashed", "check"}
    BY <1>5 DEF Reap, MainGoto
  <2>2. \A q \in Program : Running(q)' => Running(q) /\ process'[q] = process[q]
    BY <1>1, <1>5, <2>1 DEF Reap, Running, OneChild, TypeOK
  <2>3. WantedInv'
    BY <1>1, <1>2, <2>1, <2>2, WantedKept
  <2> QED
    BY <1>3, <2>1, <2>3 DEF WantInv, WayOutInv
<1>6. CASE BeginPass \/ Crashed \/ Schedule \/ Check \/ Signal
  <2>1. UNCHANGED <<held, child>> /\ (shuttingDown => shuttingDown')
    BY <1>6 DEF BeginPass, Crashed, Schedule, Check, Signal
  <2>2. \A q \in Program : desired'[q] = desired[q] /\ Running(q)' = Running(q)
                           /\ process'[q] = process[q]
    BY <2>1 DEF child, Running
  <2>3. WantedInv'
    BY <1>1, <1>2, <2>1, <2>2, WantedKept
  <2>4. WayOutInv'
    BY <1>1, <1>6
    DEF BeginPass, Crashed, Schedule, Check, Signal, NextProgram, MainGoto, WayOutInv, loop
  <2> QED
    BY <1>3, <2>3, <2>4 DEF WantInv
<1>7. CASE Shutdown
  <2>1. shuttingDown /\ shuttingDown'
    BY <1>1, <1>7 DEF Shutdown, WayOutInv
  <2> QED
    BY <1>3, <2>1 DEF WantInv, WantedInv, WayOutInv
<1>8. CASE \E p \in Program : Crash(p) \/ ExitOnTerm(p) \/ Elapse(p)
  <2>1. UNCHANGED <<held, process, desired, shuttingDown, mainPc>>
    BY <1>8 DEF Crash, ExitOnTerm, Elapse, child, loop
  <2>2. \A q \in Program : Running(q)' => Running(q) /\ process'[q] = process[q]
    BY <1>1, <1>8, <2>1 DEF Crash, ExitOnTerm, Elapse, Dies, child, Running, TypeOK
  <2>3. WantedInv'
    BY <1>1, <1>2, <2>1, <2>2, WantedKept
  <2> QED
    BY <1>1, <1>3, <2>1, <2>3 DEF WantInv, WayOutInv
<1> QED
  BY <1>4, <1>5, <1>6, <1>7, <1>8 DEF MainLoop

\* The control threads.
LEMMA WantControl ==
  ASSUME ProcessInv, WantInv, NEW h \in Handler,
         Handle(h) \/ \E c \in Commands, p \in Targets : Receive(h, c, p)
  PROVE  WantInv'
<1> USE ConstantsOK
<1>1. TypeOK /\ OneChild /\ CommandInv /\ WantedInv /\ WayOutInv /\ target[h] \in Program
  BY DEF ProcessInv, WantInv, TypeOK
<1>2. WayOutInv' /\ shuttingDown' = shuttingDown
  BY <1>1 DEF Handle, Receive, loop, WayOutInv
<1>3. \A g \in Handler : g # h =>
        pc'[g] = pc[g] /\ cmd'[g] = cmd[g] /\ target'[g] = target[g] /\ held'[g] = held[g]
  BY <1>1 DEF Handle, HandlerStop, HandlerStopped, HandlerReset, HandlerStart, HandlerGoto,
              HandlerEnds, StopProgram, Stopped, Receive, TypeOK
<1>4. ASSUME NEW p \in Program, NEW g \in Handler, g # h
      PROVE  Restarting(g, p)' = Restarting(g, p)
  BY <1>3, <1>4 DEF Restarting
<1>5. CASE \E c \in Commands, p \in Targets : Receive(h, c, p)
  <2>1. PICK c \in Commands, p \in Targets : Receive(h, c, p)
    BY <1>5
  <2>2. /\ pc[h] = "idle" /\ UNCHANGED <<child, held>> /\ stopAsked \subseteq stopAsked'
        /\ cmd'[h] = c /\ target'[h] = p /\ pc'[h] = (IF c = "start" THEN "start" ELSE "stop")
        /\ c = "stop" => p \in stopAsked'
    BY <1>1, <2>1 DEF Receive, TypeOK
  <2>3. CommandInv'
    BY <1>1, <1>3, <2>2 DEF CommandInv
  <2>4. \A q \in Program : ~Restarting(h, q)
    BY <2>2 DEF Restarting
  <2>5. WantedInv'
    BY <1>1, <1>2, <1>3, <1>4, <2>2, <2>4 DEF WantedInv, child, Running
  <2> QED
    BY <1>2, <2>3, <2>5 DEF WantInv
<1>7. CASE HandlerStop(h) /\ Handle(h)
  <2>1. /\ pc[h] = "stop" /\ pc'[h] = "wait" /\ UNCHANGED <<process, alive, cmd, target, stopAsked>>
        /\ held'[h] = process[target[h]]
        /\ \A q \in Program : q # target[h] => desired'[q] = desired[q]
    BY <1>1, <1>7 DEF HandlerStop, StopProgram, HandlerGoto, Handle, TypeOK
  <2>2. CommandInv'
    BY <1>1, <1>3, <2>1 DEF CommandInv
  <2>3. cmd[h] = "restart" \/ target[h] \in stopAsked
    BY <1>1, <2>1 DEF CommandInv, TypeOK
  <2>4. cmd[h] = "restart" => Restarting(h, target[h])'
    BY <2>1 DEF Restarting
  <2>5. \A q \in Program : ~Restarting(h, q)
    BY <2>1 DEF Restarting
  <2>6. WantedInv'
    <3> SUFFICES ASSUME NEW q \in Program \ stopAsked, ~shuttingDown, ~desired'[q]
                 PROVE  /\ \E g \in Handler : Restarting(g, q)'
                        /\ Running(q)' =>
                             \E g \in Handler : Restarting(g, q)' /\ pc'[g] = "wait"
                                                /\ held'[g] = process'[q]
      BY <1>2, <2>1 DEF WantedInv
    <3>1. CASE q = target[h]
      BY <2>1, <2>3, <2>4, <3>1
    <3>2. CASE q # target[h]
      BY <1>1, <1>3, <1>4, <2>1, <2>5, <3>2 DEF WantedInv, Running
    <3> QED
      BY <3>1, <3>2
  <2> QED
    BY <1>2, <2>2, <2>6 DEF WantInv
<1>8. CASE HandlerStopped(h) /\ Handle(h)
  <2>1. /\ pc[h] = "wait" /\ UNCHANGED <<process, desired, stopAsked>>
        /\ alive' = [alive EXCEPT ![target[h]] = @ \ {held[h]}]
        /\ \/ /\ cmd[h] = "restart" /\ pc'[h] = "reset" /\ UNCHANGED <<cmd, target>>
           \/ cmd[h] # "restart" /\ pc'[h] = "idle"
    BY <1>1, <1>8 DEF HandlerStopped, Stopped, HandlerGoto, HandlerEnds, Handle, TypeOK
  <2>2. CommandInv'
    BY <1>1, <1>3, <2>1 DEF CommandInv
  <2>3. \A q \in Program : Restarting(h, q) => Restarting(h, q)'
    BY <2>1 DEF Restarting
  <2>4. \A q \in Program : Running(q)' => Running(q) /\ ~(target[h] = q /\ held[h] = process[q])
    BY <1>1, <2>1 DEF Running, TypeOK
  <2>5. WantedInv'
    <3> SUFFICES ASSUME NEW q \in Program \ stopAsked, ~shuttingDown, ~desired[q]
                 PROVE  /\ \E g \in Handler : Restarting(g, q)'
                        /\ Running(q)' =>
                             \E g \in Handler : Restarting(g, q)' /\ pc'[g] = "wait"
                                                /\ held'[g] = process'[q]
      BY <1>2, <2>1 DEF WantedInv
    <3>1. \E g \in Handler : Restarting(g, q)'
      BY <1>1, <1>4, <2>3 DEF WantedInv
    <3>2. ASSUME Running(q)'
          PROVE  \E g \in Handler : Restarting(g, q)' /\ pc'[g] = "wait" /\ held'[g] = process'[q]
      <4>1. PICK g \in Handler : Restarting(g, q) /\ pc[g] = "wait" /\ held[g] = process[q]
        BY <1>1, <2>4, <3>2 DEF WantedInv
      <4>2. g # h
        BY <2>4, <3>2, <4>1 DEF Restarting
      <4> QED
        BY <1>3, <1>4, <2>1, <4>1, <4>2
    <3> QED
      BY <3>1, <3>2
  <2> QED
    BY <1>2, <2>2, <2>5 DEF WantInv
<1>9. CASE HandlerReset(h) /\ Handle(h)
  <2>1. pc[h] = "reset" /\ pc'[h] = "start" /\ UNCHANGED <<child, held, cmd, target, stopAsked>>
    BY <1>1, <1>9 DEF HandlerReset, HandlerGoto, Handle, TypeOK
  <2>2. CommandInv'
    BY <1>1, <1>3, <2>1 DEF CommandInv
  <2>3. \A q \in Program : Restarting(h, q)' = Restarting(h, q)
    BY <2>1 DEF Restarting
  <2>4. WantedInv'
    BY <1>1, <1>2, <1>3, <1>4, <2>1, <2>3 DEF WantedInv, child, Running
  <2> QED
    BY <1>2, <2>2, <2>4 DEF WantInv
<1>10. CASE HandlerStart(h) /\ Handle(h)
  <2>1. pc[h] = "start" /\ pc'[h] = "idle" /\ StartProgram(target[h]) /\ UNCHANGED stopAsked
    BY <1>1, <1>10 DEF HandlerStart, HandlerEnds, Handle, TypeOK
  <2>2. CommandInv'
    BY <1>1, <1>3, <2>1 DEF CommandInv
  <2>3. WantedInv'
    <3> SUFFICES ASSUME NEW q \in Program \ stopAsked, ~shuttingDown, ~desired'[q]
                 PROVE  /\ \E g \in Handler : Restarting(g, q)'
                        /\ Running(q)' =>
                             \E g \in Handler : Restarting(g, q)' /\ pc'[g] = "wait"
                                                /\ held'[g] = process'[q]
      BY <1>2, <2>1 DEF WantedInv
    <3>1. ~desired[q] /\ process'[q] = process[q] /\ alive'[q] = alive[q]
          /\ (q = target[h] => Running(q))
      <4>1. CASE q # target[h]
        BY <1>1, <2>1, <4>1, StartWants
      <4>2. CASE q = target[h]
        <5>1. Running(target[h])
          BY <1>1, <2>1, <4>2, StartWants DEF TypeOK, StartProgram
        <5> QED
          BY <2>1, <4>2, <5>1 DEF StartProgram, child
      <4> QED
        BY <4>1, <4>2
    <3>2. PICK g \in Handler : /\ Restarting(g, q)
                               /\ Running(q) => pc[g] = "wait" /\ held[g] = process[q]
      BY <1>1, <3>1 DEF WantedInv
    <3>3. g # h
      BY <2>1, <3>1, <3>2 DEF Restarting
    <3> QED
      BY <1>3, <1>4, <3>1, <3>2, <3>3 DEF Running
  <2> QED
    BY <1>2, <2>2, <2>3 DEF WantInv
<1> QED
  BY <1>5, <1>7, <1>8, <1>9, <1>10 DEF Handle

LEMMA WantStep == ProcessInv /\ WantInv /\ [Next]_vars => WantInv'
<1> SUFFICES ASSUME ProcessInv, WantInv, [Next]_vars PROVE WantInv'
  OBVIOUS
<1>1. CASE Next
  BY <1>1, WantLoop, WantControl DEF Next
<1>2. CASE UNCHANGED vars
  <2>1. UNCHANGED <<process, alive, desired, shuttingDown, mainPc, pc, cmd, target, held, stopAsked>>
    BY <1>2 DEF vars, child, loop, control, bounds
  <2> QED
    BY <2>1 DEF WantInv, CommandInv, WantedInv, WayOutInv, Restarting, Running
<1> QED
  BY <1>1, <1>2

\* supervisor.py stop and start behind _handle_command: overlapping restarts, starts and
\* crashes leave every program wanted that nobody asked to stop.
THEOREM WantedStays == Spec => []RestartKeepsWanted
<1>1. WantInv => RestartKeepsWanted
  BY DEF WantInv, WantedInv, Restarting, RestartKeepsWanted
<1> QED
  BY <1>1, WantStart, WantStep, ProcessAlways, PTL DEF Spec

LEMMA CountStart == Init => CountInv
BY ConstantsOK DEF Init, CountInv, Unreaped, Uncounted, GivesUpOnCrashes, Admin, Program

\* Steps that count nothing: no death becomes undone or is counted twice.
LEMMA CountKept ==
  ASSUME TypeOK, CountInv, \A h \in Handler : target'[h] # Admin,
         UNCHANGED <<crashes, exitCode>>, deaths'[Admin] \in Nat,
         deaths'[Admin] >= deaths[Admin],
         shuttingDown => shuttingDown',
         ~shuttingDown' =>
           /\ desired'[Admin]
           /\ Unreaped' + Uncounted' + deaths[Admin] <= Unreaped + Uncounted + deaths'[Admin]
  PROVE  CountInv'
<1>1. /\ crashes[Admin] \in Nat /\ deaths[Admin] \in Nat
      /\ Unreaped \in 0..1 /\ Uncounted \in 0..1
      /\ Unreaped' \in 0..1 /\ Uncounted' \in 0..1
  BY DEF TypeOK, Program, Admin, Unreaped, Uncounted
<1>2. GivesUpOnCrashes'
  BY <1>1, ConstantsOK DEF CountInv, GivesUpOnCrashes, Admin
<1>3. ~shuttingDown' => crashes'[Admin] + Unreaped' + Uncounted' <= deaths'[Admin]
  BY <1>1 DEF CountInv
<1> QED
  BY <1>2, <1>3 DEF CountInv

\* A start leaves no death of admin-api to be reaped that was not there before.
LEMMA CountStarted ==
  ASSUME TypeOK, NEW p \in Program, StartProgram(p), mainPc' # "crashed"
  PROVE  /\ Unreaped' <= Unreaped /\ Uncounted' <= Uncounted
         /\ desired[Admin] => desired'[Admin]
<1>1. Admin \in Program
  BY DEF Admin, Program
<1>2. Uncounted' <= Uncounted
  BY DEF Uncounted
<1>3. CASE UNCHANGED child
  BY <1>2, <1>3 DEF child, Unreaped, Running
<1>4. CASE p # Admin
  BY <1>1, <1>2, <1>4, StartWants DEF Unreaped, Running
<1>5. CASE p = Admin /\ ~UNCHANGED child
  <2>1. desired'[Admin]
    BY <1>1, <1>5, StartWants DEF TypeOK
  <2>2. process'[Admin] = 0 \/ process'[Admin] \in alive'[Admin]
    BY <1>1, <1>5 DEF StartProgram, NewChild, NoChild, TypeOK
  <2> QED
    BY <1>2, <2>1, <2>2 DEF Unreaped, Running
<1> QED
  BY <1>3, <1>4, <1>5

LEMMA CountStep ==
  ASSUME Admin \notin Targets, ProcessInv, WayOutInv, CountInv, [Next]_vars
  PROVE  CountInv'
<1> USE ConstantsOK
<1>1. /\ TypeOK /\ OneChild /\ at \in Program /\ Admin \in Program
      /\ deaths[Admin] \in Nat /\ crashes[Admin] \in Nat
      /\ Unreaped \in 0..1 /\ Uncounted \in 0..1
  BY DEF ProcessInv, TypeOK, Admin, Program, Unreaped, Uncounted
<1>2. CASE Boot \/ StartDue
  <2>1. /\ StartProgram(at) /\ UNCHANGED <<crashes, exitCode, shuttingDown, control, deaths>>
        /\ mainPc' \in {"boot", "loop", "reap"}
    BY <1>1, <1>2 DEF Boot, StartDue, MainGoto, NextProgram
  <2>2. Unreaped' <= Unreaped /\ Uncounted' <= Uncounted /\ (desired[Admin] => desired'[Admin])
    BY <1>1, <2>1, CountStarted
  <2>3. Unreaped' \in 0..1 /\ Uncounted' \in 0..1
    BY DEF Unreaped, Uncounted
  <2> QED
    BY <1>1, <2>1, <2>2, <2>3, CountKept DEF CountInv, control
<1>3. CASE Reap
  <2>1. UNCHANGED <<crashes, exitCode, shuttingDown, control, deaths, desired, alive, at>>
    BY <1>3 DEF Reap, MainGoto, bounds
  <2>2. Unreaped' + Uncounted' <= Unreaped + Uncounted
    <3>1. CASE process[at] # 0 /\ ~Running(at)
      <4>1. process' = [process EXCEPT ![at] = 0] /\ mainPc' = "crashed" /\ mainPc = "reap"
        BY <1>3, <3>1 DEF Reap, MainGoto
      <4>2. CASE at = Admin
        BY <1>1, <2>1, <3>1, <4>1, <4>2 DEF Unreaped, Uncounted, TypeOK
      <4>3. CASE at # Admin
        BY <1>1, <2>1, <4>1, <4>3 DEF Unreaped, Uncounted, Running, TypeOK
      <4> QED
        BY <4>2, <4>3
    <3>2. CASE ~(process[at] # 0 /\ ~Running(at))
      BY <1>3, <2>1, <3>2 DEF Reap, MainGoto, Unreaped, Uncounted, Running
    <3> QED
      BY <3>1, <3>2
  <2>3. Unreaped' \in 0..1 /\ Uncounted' \in 0..1
    BY DEF Unreaped, Uncounted
  <2>4. Unreaped' + Uncounted' + deaths[Admin] <= Unreaped + Uncounted + deaths'[Admin]
    <3>1. deaths'[Admin] = deaths[Admin]
      BY <2>1
    <3> QED
      BY <1>1, <2>2, <2>3, <3>1
  <2>5. \A h \in Handler : target'[h] # Admin
    BY <2>1 DEF CountInv, control
  <2>6. ~shuttingDown' => desired'[Admin]
    BY <2>1 DEF CountInv
  <2> QED
    BY <1>1, <2>1, <2>4, <2>5, <2>6, CountKept
<1>4. CASE Crashed
  <2>1. UNCHANGED <<child, control, deaths>> /\ mainPc = "crashed" /\ mainPc' # "crashed"
    BY <1>1, <1>4 DEF Crashed, NextProgram, MainGoto, bounds
  <2>2. Unreaped' = Unreaped /\ Uncounted' = 0
    BY <2>1 DEF Unreaped, Uncounted, Running, child
  <2>3. CASE ~desired[at] \/ shuttingDown
    <3>1. UNCHANGED <<crashes, exitCode, shuttingDown>>
      BY <1>4, <2>3 DEF Crashed
    <3> QED
      BY <1>1, <2>1, <2>2, <3>1, CountKept DEF CountInv, control, child
  <2>4. CASE desired[at] /\ ~shuttingDown
    <3>1. PICK kept \in 0..crashes[at] :
            /\ crashes' = [crashes EXCEPT ![at] = kept + 1]
            /\ IF GiveUp(kept + 1)
                 THEN shuttingDown' = TRUE /\ exitCode' = 1
                 ELSE UNCHANGED <<shuttingDown, exitCode>>
      BY <1>4, <2>4 DEF Crashed
    <3>2. kept \in Nat /\ crashes[at] \in Nat /\ kept <= crashes[at]
      BY <1>1 DEF TypeOK
    <3>3. crashes'[Admin] + Unreaped' + Uncounted' <= deaths'[Admin]
      <4>1. CASE at = Admin
        <5>1. crashes'[Admin] = kept + 1 /\ Uncounted = 1 /\ deaths'[Admin] = deaths[Admin]
          BY <1>1, <2>1, <3>1, <4>1 DEF Uncounted, TypeOK
        <5> QED
          BY <1>1, <2>2, <2>4, <3>2, <4>1, <5>1 DEF CountInv
      <4>2. CASE at # Admin
        BY <1>1, <2>1, <2>2, <2>4, <3>1, <4>2 DEF CountInv, Uncounted, TypeOK
      <4> QED
        BY <4>1, <4>2
    <3>4. GivesUpOnCrashes'
      <4>1. CASE GiveUp(kept + 1)
        <5>1. at = Admin /\ kept + 1 >= CrashLimit
          BY <4>1 DEF GiveUp, Critical, Admin
        <5>2. crashes'[Admin] = kept + 1
          BY <1>1, <3>1, <5>1 DEF TypeOK
        <5> QED
          BY <1>1, <2>1, <2>2, <3>2, <3>3, <5>1, <5>2 DEF GivesUpOnCrashes, Admin
      <4>2. CASE ~GiveUp(kept + 1)
        BY <2>1, <3>1, <4>2 DEF GivesUpOnCrashes, CountInv
      <4> QED
        BY <4>1, <4>2
    <3> QED
      BY <2>1, <2>4, <3>3, <3>4 DEF CountInv, control, child
  <2> QED
    BY <2>3, <2>4
<1>5. CASE BeginPass \/ Schedule \/ Check \/ Signal
  <2>1. /\ UNCHANGED <<child, crashes, exitCode, control, deaths>>
        /\ shuttingDown => shuttingDown'
        /\ mainPc' # "crashed" \/ (mainPc' = mainPc /\ at' = at)
    BY <1>1, <1>5
    DEF BeginPass, Schedule, Check, Signal, NextProgram, MainGoto, bounds, loop
  <2>2. Unreaped' = Unreaped /\ Uncounted' <= Uncounted /\ Uncounted' \in 0..1
    BY <2>1 DEF Unreaped, Uncounted, Running, child
  <2> QED
    BY <1>1, <2>1, <2>2, CountKept DEF CountInv, control, child
<1>6. CASE Shutdown
  <2>1. shuttingDown /\ shuttingDown' /\ UNCHANGED <<crashes, exitCode, control, deaths>>
    BY <1>6 DEF Shutdown, WayOutInv, bounds
  <2> QED
    BY <1>1, <2>1, CountKept DEF CountInv, control
<1>7. CASE \E p \in Program : Crash(p)
  <2>1. PICK p \in Program : Crash(p)
    BY <1>7
  <2>2. /\ UNCHANGED <<process, desired, crashes, exitCode, shuttingDown, control, mainPc, at>>
        /\ \A q \in Program : q # p => alive'[q] = alive[q] /\ deaths'[q] = deaths[q]
        /\ deaths'[p] = deaths[p] + 1
    BY <1>1, <2>1 DEF Crash, Dies, TypeOK, loop
  <2>3. Uncounted' = Uncounted /\ Unreaped' \in 0..1
    BY <2>2 DEF Uncounted, Unreaped
  <2>4. CASE p = Admin
    <3>1. deaths'[Admin] = deaths[Admin] + 1 /\ deaths'[Admin] \in Nat
      BY <1>1, <2>2, <2>4
    <3>2. Unreaped' + Uncounted' + deaths[Admin] <= Unreaped + Uncounted + deaths'[Admin]
      BY <1>1, <2>3, <3>1
    <3>3. \A h \in Handler : target'[h] # Admin
      BY <2>2 DEF CountInv, control
    <3>4. ~shuttingDown' => desired'[Admin]
      BY <2>2 DEF CountInv
    <3> QED
      BY <1>1, <2>2, <3>1, <3>2, <3>3, <3>4, CountKept
  <2>5. CASE p # Admin
    <3>1. Unreaped' = Unreaped
      BY <1>1, <2>2, <2>5 DEF Unreaped, Running
    <3> QED
      BY <1>1, <2>2, <2>3, <2>5, <3>1, CountKept DEF CountInv, control
  <2> QED
    BY <2>4, <2>5
<1>8. CASE \E p \in Program : ExitOnTerm(p) \/ Elapse(p)
  <2>1. PICK p \in Program : ExitOnTerm(p) \/ Elapse(p)
    BY <1>8
  <2>2. /\ UNCHANGED <<process, desired, crashes, exitCode, shuttingDown, control, mainPc, at, deaths>>
        /\ ~shuttingDown => alive'[Admin] = alive[Admin]
    BY <1>1, <2>1 DEF ExitOnTerm, Elapse, Dies, CountInv, WayOutInv, TypeOK, child, loop, bounds
  <2>3. Uncounted' = Uncounted /\ (~shuttingDown => Unreaped' = Unreaped)
    BY <2>2 DEF Uncounted, Unreaped, Running
  <2> QED
    BY <1>1, <2>2, <2>3, CountKept DEF CountInv, control
<1>9. CASE \E h \in Handler : Handle(h) \/ \E c \in Commands, p \in Targets : Receive(h, c, p)
  <2>1. PICK h \in Handler : Handle(h) \/ \E c \in Commands, p \in Targets : Receive(h, c, p)
    BY <1>9
  <2>2. UNCHANGED <<crashes, exitCode, shuttingDown, mainPc, at, deaths>>
    BY <2>1 DEF Handle, Receive, loop
  <2>3. \A g \in Handler : target'[g] # Admin
    <3>1. CASE Handle(h)
      BY <1>1, <3>1 DEF Handle, HandlerStop, HandlerStopped, HandlerReset, HandlerStart,
                        HandlerGoto, HandlerEnds, CountInv, TypeOK, Admin
    <3>2. CASE \E c \in Commands, p \in Targets : Receive(h, c, p)
      BY <1>1, <3>2 DEF Receive, CountInv, TypeOK
    <3> QED
      BY <2>1, <3>1, <3>2
  <2>4. /\ target[h] # Admin /\ target[h] \in Program
        /\ desired'[Admin] = desired[Admin] /\ process'[Admin] = process[Admin]
        /\ alive'[Admin] = alive[Admin]
    <3>1. target[h] # Admin /\ target[h] \in Program
      BY <1>1 DEF CountInv, TypeOK
    <3>2. CASE HandlerStart(h)
      BY <1>1, <3>1, <3>2, StartWants DEF HandlerStart
    <3>3. CASE ~HandlerStart(h)
      BY <1>1, <2>1, <3>1, <3>3 DEF Handle, HandlerStop, HandlerStopped, HandlerReset, Receive,
                                    StopProgram, Stopped, TypeOK, child
    <3> QED
      BY <3>1, <3>2, <3>3
  <2>5. Unreaped' = Unreaped /\ Uncounted' = Uncounted
    BY <2>2, <2>4 DEF Unreaped, Uncounted, Running
  <2> QED
    BY <1>1, <2>2, <2>3, <2>4, <2>5, CountKept DEF CountInv
<1>10. CASE UNCHANGED vars
  BY <1>10 DEF vars, child, loop, control, bounds, CountInv, Unreaped, Uncounted, Running,
               GivesUpOnCrashes
<1> QED
  BY <1>2, <1>3, <1>4, <1>5, <1>6, <1>7, <1>8, <1>9, <1>10 DEF Next, MainLoop

\* supervisor.py run: the container is given up on for as many crashes of admin-api as the
\* limit says, provided that, as in this repository, no command is sent for admin-api.
THEOREM GivesUpRightly ==
  ASSUME Admin \notin Targets
  PROVE  Spec => []GivesUpOnCrashes
<1>1. ProcessInv /\ WantInv /\ CountInv /\ [Next]_vars => CountInv'
  BY CountStep DEF WantInv
<1>2. CountInv => GivesUpOnCrashes
  BY DEF CountInv
<1> QED
  BY <1>1, <1>2, CountStart, WantStart, WantStep, ProcessAlways, PTL DEF Spec
------------------------------------------------------------------------------
(* What a shutdown leaves *)

\* h is about to start p, or will be.
StartsLater(h, p) == pc[h] # "idle" /\ cmd[h] # "stop" /\ target[h] = p

\* No start or restart of p is under way when the main loop turns to shutdown().
Undisturbed(p) ==
  [][mainPc = "loop" /\ mainPc' = "stop" => \A h \in Handler : ~StartsLater(h, p)]_vars

\* shutdown() is through with p.
StoppedByMain(p) ==
  mainPc = "exited" \/ (p = "admin-api" /\ at = "xray" /\ mainPc \in {"stop", "wait"})

LeftInv(p) ==
  /\ \A h \in Handler : pc[h] = "start" => cmd[h] # "stop"
  /\ mainPc \in {"stop", "wait", "exited"} => \A h \in Handler : ~StartsLater(h, p)
  /\ mainPc = "wait" /\ at = p => alive[p] \subseteq {held[Main]}
  /\ StoppedByMain(p) => alive[p] = {}

\* LeftInv stays while the main loop and the threads stand still and no child is added.
LEMMA LeftKept ==
  ASSUME NEW p \in Program, LeftInv(p), UNCHANGED <<loop, control, held>>, alive'[p] \subseteq alive[p]
  PROVE  LeftInv(p)'
BY DEF LeftInv, StartsLater, StoppedByMain, loop, control

LEMMA LeftLoop ==
  ASSUME ProcessInv, NEW p \in Program, LeftInv(p), MainLoop,
         mainPc = "loop" /\ mainPc' = "stop" => \A h \in Handler : ~StartsLater(h, p)
  PROVE  LeftInv(p)'
<1>1. TypeOK /\ OneChild /\ at \in Program /\ p \in {"xray", "admin-api"}
  BY DEF ProcessInv, TypeOK, Program
<1>2. UNCHANGED control
  BY DEF MainLoop, Boot, BeginPass, Reap, Crashed, Schedule, Check, StartDue, Shutdown
<1>3. \A h \in Handler : StartsLater(h, p)' = StartsLater(h, p) /\ pc'[h] = pc[h] /\ cmd'[h] = cmd[h]
  BY <1>2 DEF StartsLater, control
<1>4. CASE Boot \/ Reap \/ Crashed \/ Schedule \/ Check \/ StartDue
  <2>1. mainPc' \notin {"stop", "wait", "exited"}
    BY <1>1, <1>4 DEF Boot, Reap, Crashed, Schedule, Check, StartDue, MainGoto, NextProgram
  <2> QED
    BY <1>3, <2>1 DEF LeftInv, StoppedByMain
<1>5. CASE BeginPass
  BY <1>3, <1>5 DEF BeginPass, LeftInv, StoppedByMain
<1>6. CASE Shutdown
  <2>1. CASE mainPc = "stop"
    <3>1. /\ mainPc' = "wait" /\ UNCHANGED <<at, process, alive>> /\ held'[Main] = process[at]
      BY <1>1, <1>6, <2>1 DEF Shutdown, StopProgram, MainGoto, TypeOK
    <3> QED
      BY <1>1, <1>3, <2>1, <3>1 DEF LeftInv, StoppedByMain, OneChild
  <2>2. CASE mainPc = "wait"
    <3>1. /\ alive' = [alive EXCEPT ![at] = @ \ {held[Main]}]
          /\ IF at = "admin-api" THEN at' = "xray" /\ mainPc' = "stop"
                                 ELSE at' = at /\ mainPc' = "exited"
      BY <1>6, <2>2 DEF Shutdown, Stopped, MainGoto
    <3>2. alive'[at] = alive[at] \ {held[Main]} /\ \A q \in Program : q # at => alive'[q] = alive[q]
      BY <1>1, <3>1 DEF TypeOK
    <3>3. at \in {"xray", "admin-api"}
      BY <1>1 DEF Program
    <3>4. StoppedByMain(p)' => alive'[p] = {}
      BY <1>1, <2>2, <3>1, <3>2, <3>3 DEF LeftInv, StoppedByMain
    <3> QED
      BY <1>3, <2>2, <3>1, <3>4 DEF LeftInv
  <2> QED
    BY <1>6, <2>1, <2>2 DEF Shutdown
<1> QED
  BY <1>4, <1>5, <1>6 DEF MainLoop

LEMMA LeftControl ==
  ASSUME ProcessInv, WantInv, NEW p \in Program, LeftInv(p), NEW h \in Handler,
         Handle(h) \/ \E c \in Commands, q \in Targets : Receive(h, c, q)
  PROVE  LeftInv(p)'
<1> USE ConstantsOK
<1>1. TypeOK /\ h # Main /\ target[h] \in Program /\ CommandInv /\ WayOutInv
  BY MainIsApart DEF ProcessInv, WantInv, TypeOK
<1>2. /\ UNCHANGED loop /\ held'[Main] = held[Main]
      /\ \A g \in Handler \ {h} : pc'[g] = pc[g] /\ cmd'[g] = cmd[g] /\ target'[g] = target[g]
  BY <1>1 DEF Handle, HandlerStop, HandlerStopped, HandlerReset, HandlerStart, HandlerGoto,
              HandlerEnds, StopProgram, Stopped, Receive, TypeOK
<1>3. CASE \E c \in Commands, q \in Targets : Receive(h, c, q)
  <2>1. mainPc \notin {"stop", "wait", "exited"} /\ (pc'[h] = "start" => cmd'[h] # "stop")
    BY <1>1, <1>3 DEF Receive, WayOutInv, TypeOK
  <2> QED
    BY <1>2, <2>1 DEF LeftInv, StoppedByMain, loop
<1>4. CASE Handle(h)
  <2>1. StartsLater(h, p)' => StartsLater(h, p)
    BY <1>1, <1>4 DEF Handle, HandlerStop, HandlerStopped, HandlerReset, HandlerStart,
                      HandlerGoto, HandlerEnds, StartsLater, TypeOK
  <2>2. pc'[h] = "start" => cmd'[h] # "stop"
    BY <1>1, <1>4 DEF Handle, HandlerStop, HandlerStopped, HandlerReset, HandlerStart,
                      HandlerGoto, HandlerEnds, CommandInv, TypeOK
  <2>3. alive'[p] \subseteq alive[p] \/ StartsLater(h, p)
    <3>1. CASE HandlerStart(h)
      <4>1. pc[h] = "start" /\ cmd[h] # "stop" /\ StartProgram(target[h])
        BY <3>1 DEF HandlerStart, LeftInv
      <4>2. target[h] # p => alive'[p] = alive[p]
        BY <1>1, <4>1, StartWants
      <4> QED
        BY <4>1, <4>2 DEF StartsLater
    <3>2. CASE ~HandlerStart(h)
      BY <1>1, <1>4, <3>2 DEF Handle, HandlerStop, HandlerStopped, HandlerReset, StopProgram,
                              Stopped, TypeOK, child
    <3> QED
      BY <3>1, <3>2
  <2>4. \A g \in Handler : StartsLater(g, p)' => StartsLater(g, p)
    BY <1>2, <2>1 DEF StartsLater
  <2>5. \A g \in Handler : pc'[g] = "start" => cmd'[g] # "stop"
    BY <1>2, <2>2 DEF LeftInv
  <2> QED
    BY <1>2, <2>3, <2>4, <2>5 DEF LeftInv, StoppedByMain, loop
<1> QED
  BY <1>3, <1>4

LEMMA LeftStep ==
  ASSUME ProcessInv, WantInv, NEW p \in Program, LeftInv(p), [Next]_vars,
         [mainPc = "loop" /\ mainPc' = "stop" => \A h \in Handler : ~StartsLater(h, p)]_vars
  PROVE  LeftInv(p)'
<1>1. CASE MainLoop
  BY <1>1, LeftLoop DEF vars, loop
<1>2. CASE \E h \in Handler : Handle(h) \/ \E c \in Commands, q \in Targets : Receive(h, c, q)
  BY <1>2, LeftControl
<1>3. CASE Signal \/ \E q \in Program : Crash(q) \/ ExitOnTerm(q) \/ Elapse(q)
  <2>1. UNCHANGED <<loop, control, held>> /\ alive'[p] \subseteq alive[p]
    BY <1>3 DEF Signal, Crash, ExitOnTerm, Elapse, Dies, ProcessInv, TypeOK, child
  <2> QED
    BY <2>1, LeftKept
<1>4. CASE UNCHANGED vars
  BY <1>4, LeftKept DEF vars, child
<1> QED
  BY <1>1, <1>2, <1>3, <1>4 DEF Next

\* "so Railway deploys shut down cleanly": when the supervisor has exited, a program has
\* no child left unless a start or restart of it was under way when shutdown() began.
THEOREM ShutdownLeavesNone ==
  ASSUME NEW p \in Program
  PROVE  Spec /\ Undisturbed(p) => [](mainPc = "exited" => alive[p] = {})
<1>1. Init => LeftInv(p)
  BY DEF Init, LeftInv, StoppedByMain
<1>2. ProcessInv /\ WantInv /\ LeftInv(p) /\ [Next]_vars
      /\ [mainPc = "loop" /\ mainPc' = "stop" => \A h \in Handler : ~StartsLater(h, p)]_vars
      => LeftInv(p)'
  BY LeftStep
<1>3. LeftInv(p) => (mainPc = "exited" => alive[p] = {})
  BY DEF LeftInv, StoppedByMain
<1> QED
  BY <1>1, <1>2, <1>3, WantStart, WantStep, ProcessAlways, PTL DEF Spec, Undisturbed
LEMMA OnlyTargets ==
  ASSUME NEW p \in Program \ Targets
  PROVE  Spec => Undisturbed(p)
<1> DEFINE Apart == \A h \in Handler : pc[h] # "idle" => target[h] # p
<1>1. Init => Apart
  BY DEF Init
<1>2. ASSUME TypeOK, Apart, [Next]_vars PROVE Apart'
  <2>1. CASE \E h \in Handler : Handle(h) \/ \E c \in Commands, q \in Targets : Receive(h, c, q)
    <3>1. PICK h \in Handler : Handle(h) \/ \E c \in Commands, q \in Targets : Receive(h, c, q)
      BY <2>1
    <3>2. \A g \in Handler \ {h} : pc'[g] = pc[g] /\ target'[g] = target[g]
      BY <1>2, <3>1 DEF Handle, HandlerStop, HandlerStopped, HandlerReset, HandlerStart,
                        HandlerGoto, HandlerEnds, Receive, TypeOK
    <3>3. pc'[h] # "idle" => target'[h] # p
      BY <1>2, <3>1 DEF Handle, HandlerStop, HandlerStopped, HandlerReset, HandlerStart,
                        HandlerGoto, HandlerEnds, Receive, TypeOK
    <3> QED
      BY <1>2, <3>2, <3>3
  <2>2. CASE ~\E h \in Handler : Handle(h) \/ \E c \in Commands, q \in Targets : Receive(h, c, q)
    <3>1. UNCHANGED <<pc, target>>
      BY <1>2, <2>2 DEF Next, MainLoop, Boot, BeginPass, Reap, Crashed, Schedule, Check, StartDue,
                        Shutdown, Signal, Crash, ExitOnTerm, Elapse, vars, control
    <3> QED
      BY <1>2, <3>1
  <2> QED
    BY <2>1, <2>2
<1>3. TypeOK /\ Apart /\ [Next]_vars
      => [mainPc = "loop" /\ mainPc' = "stop" => \A h \in Handler : ~StartsLater(h, p)]_vars
  BY DEF StartsLater
<1>4. ProcessInv => TypeOK
  BY DEF ProcessInv
<1> HIDE DEF Apart
<1> QED
  BY <1>1, <1>2, <1>3, <1>4, ProcessAlways, PTL DEF Spec, Undisturbed

\* A program that no command is for, as admin-api in this repository, never survives the
\* supervisor.
THEOREM UntouchedAreStopped ==
  ASSUME NEW p \in Program \ Targets
  PROVE  Spec => [](mainPc = "exited" => alive[p] = {})
<1>1. Spec => Undisturbed(p)
  BY OnlyTargets
<1>2. Spec /\ Undisturbed(p) => [](mainPc = "exited" => alive[p] = {})
  BY ShutdownLeavesNone
<1> QED
  BY <1>1, <1>2, PTL
==============================================================================
