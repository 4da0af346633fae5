---------------------------- MODULE DeviceProofs ----------------------------
(***************************************************************************)
(* The lanes that change something outside the app: the place the device   *)
(* reports (Location), for any number of calls and loops, and the LAN      *)
(* share and the kernel's forwarding (Hotspot), for any number of taps,    *)
(* changes of the tunnel and deaths of the process.                        *)
(***************************************************************************)
EXTENDS Location, Hotspot, TLAPS

(***************************************************************************)
(* Location.                                                               *)
(***************************************************************************)

\* A task goes to its next statement.
LEMMA StepFacts ==
  ASSUME LocTypeOK, NEW t \in Tasks,
         NEW pc \in {"gate", "resolve", "start", "loop", "done", "cancel", "probe", "restore", "begin",
                     "stop", "clear"},
         Step(t, pc)
  PROVE  /\ task' \in [Tasks -> TaskStates]
         /\ task'[t].pc = pc /\ task'[t].target = task[t].target
         /\ \A u \in Tasks : u # t => task'[u] = task[u]
<1> DEFINE moved == [task[t] EXCEPT !.pc = pc]
<1>1. moved \in TaskStates /\ moved.pc = pc /\ moved.target = task[t].target
  BY DEF LocTypeOK, TaskStates
<1>2. task' = [task EXCEPT ![t] = moved]
  BY DEF Step
<1> QED
  BY <1>1, <1>2 DEF LocTypeOK

\* A task has found what it is to publish.
LEMMA AimFacts ==
  ASSUME LocTypeOK, NEW t \in Tasks, NEW target \in Fixes, Aim(t, "begin", target)
  PROVE  /\ task' \in [Tasks -> TaskStates]
         /\ task'[t].pc = "begin" /\ task'[t].target = target
         /\ \A u \in Tasks : u # t => task'[u] = task[u]
<1> DEFINE moved == [[task[t] EXCEPT !.pc = "begin"] EXCEPT !.target = target]
<1>1. moved \in TaskStates /\ moved.pc = "begin" /\ moved.target = target
  BY DEF LocTypeOK, TaskStates
<1>2. task' = [task EXCEPT ![t] = moved]
  BY DEF Aim, LocTypeOK
<1> QED
  BY <1>1, <1>2 DEF LocTypeOK

\* A call is a task of its own.
LEMMA CallFacts ==
  ASSUME LocTypeOK, Unlaunched, NEW kind \in {"up", "down", "manual", "clear", "test"},
         NEW pc \in {"enter", "drop", "begin", "resolve", "cancel", "pause"},
         NEW target \in Fixes \cup {"none"}, Call(kind, pc, target)
  PROVE  /\ task' \in [Tasks -> TaskStates] /\ tasks' \in 0 .. MaxTasks /\ tasks' = tasks + 1
         /\ tasks + 1 \in Tasks /\ task[tasks + 1].pc = "done"
         /\ task'[tasks + 1].pc = pc /\ task'[tasks + 1].target = target
         /\ \A u \in Tasks : u # tasks + 1 => task'[u] = task[u]
<1>1. tasks + 1 \in Tasks /\ tasks' \in 0 .. MaxTasks /\ tasks' = tasks + 1 /\ tasks + 1 > tasks
  BY LocationAssumption DEF LocTypeOK, Call, Tasks
<1> DEFINE new == [kind |-> kind, pc |-> pc, target |-> target]
<1>2. new \in TaskStates /\ new.pc = pc /\ new.target = target
  BY DEF TaskStates
<1>3. task' = [task EXCEPT ![tasks + 1] = new]
  BY DEF Call
<1> HIDE DEF new
<1> QED
  BY <1>1, <1>2, <1>3 DEF LocTypeOK, Unlaunched, TaskAt

\* republishJob?.cancel()
LEMMA CancelFacts ==
  ASSUME LocTypeOK, OneLoop, CancelJob
  PROVE  /\ loop' \in [Loops -> LoopStates]
         /\ \A l \in Loops : loop'[l].pc = loop[l].pc
         /\ \A l \in Loops : loop'[l].pc \in {"check", "push"} => loop'[l].cancelled
<1>1. \A l \in Loops : [loop[l] EXCEPT !.cancelled = TRUE] \in LoopStates
  BY DEF LocTypeOK, LoopStates
<1>2. loop' \in [Loops -> LoopStates]
  BY <1>1 DEF LocTypeOK, CancelJob
<1>3. \A l \in Loops : /\ l = republishJob => loop'[l] = [loop[l] EXCEPT !.cancelled = TRUE]
                       /\ l # republishJob => loop'[l] = loop[l]
  BY DEF CancelJob
<1>4. \A l \in Loops : loop'[l].pc = loop[l].pc /\ (l = republishJob => loop'[l].cancelled)
  BY <1>3 DEF LocTypeOK, LoopStates
<1> QED
  BY <1>2, <1>3, <1>4 DEF OneLoop, Running

\* What the engine has after it was offered a fix.
LEMMA OfferFacts ==
  ASSUME LocTypeOK, NEW fix \in Fixes \cup {"test"}, Publish(fix) \/ EngineTakes(fix)
  PROVE  /\ provider' \in Fixes \cup {"none", "empty", "test"}
         /\ provider' = "none" => provider = "none"
         /\ EngineTakes(fix) => provider' # "none"
  BY DEF LocTypeOK, Publish, EngineTakes, Fixes

\* The initial states satisfy the invariant.
LEMMA InitLocInv == ASSUME LocInit PROVE LocInv
<1> USE LocationAssumption DEF LocInit
<1>1. NoLoop \in LoopStates /\ NoTask \in TaskStates /\ NoLoop.pc = "none" /\ NoTask.pc = "done"
  BY DEF NoLoop, LoopStates, Fixes, NoTask, TaskStates
<1>2. 0 \in 0 .. MaxTasks /\ 0 \in 0 .. MaxLoops
  OBVIOUS
<1>3. LocTypeOK
  BY <1>1, <1>2 DEF LocTypeOK
<1>4. 0 \notin Tasks
  BY DEF Tasks
<1>5. Unlaunched /\ JobLockHeld /\ OneLoop /\ Aimed /\ ShownOrMoving
  BY <1>1, <1>4 DEF Unlaunched, JobLockHeld, OneLoop, Aimed, ShownOrMoving, Running, TaskAt
<1> QED
  BY <1>3, <1>5 DEF LocInv

\* Every step of the location lane preserves the invariant.
LEMMA StepLocInv == ASSUME LocInv, [LocNext]_locVars PROVE LocInv'
<1>0. LocTypeOK /\ Unlaunched /\ JobLockHeld /\ OneLoop /\ Aimed /\ ShownOrMoving
  BY DEF LocInv
<1>1. CASE SessionUp
  <2> USE <1>0, <1>1 DEF SessionUp, TaskAt, stateVars, jobVars, engineVars
  <2>a1. /\ task' \in [Tasks -> TaskStates] /\ tasks' \in 0 .. MaxTasks /\ tasks' = tasks + 1
         /\ tasks + 1 \in Tasks /\ task[tasks + 1].pc = "done"
         /\ task'[tasks + 1].pc = "enter" /\ task'[tasks + 1].target = "none"
         /\ \A u \in Tasks : u # tasks + 1 => task'[u] = task[u]
    BY CallFacts
  <2>1. LocTypeOK'
    BY <2>a1 DEF LocTypeOK
  <2>2. Unlaunched'
    BY <2>a1 DEF Unlaunched, Running, LocTypeOK, Tasks
  <2>3. JobLockHeld'
    BY <2>a1 DEF JobLockHeld, Running
  <2>4. OneLoop'
    BY DEF OneLoop, Running
  <2>5. Aimed'
    BY <2>a1 DEF Aimed
  <2>6. ShownOrMoving'
    BY <2>a1 DEF ShownOrMoving
  <2> QED
    BY <2>1, <2>2, <2>3, <2>4, <2>5, <2>6 DEF LocInv
<1>2. CASE SessionDown
  <2> USE <1>0, <1>2 DEF SessionDown, TaskAt, stateVars, jobVars, engineVars
  <2>a1. /\ task' \in [Tasks -> TaskStates] /\ tasks' \in 0 .. MaxTasks /\ tasks' = tasks + 1
         /\ tasks + 1 \in Tasks /\ task[tasks + 1].pc = "done"
         /\ task'[tasks + 1].pc = "drop" /\ task'[tasks + 1].target = "none"
         /\ \A u \in Tasks : u # tasks + 1 => task'[u] = task[u]
    BY CallFacts
  <2>1. LocTypeOK'
    BY <2>a1 DEF LocTypeOK
  <2>2. Unlaunched'
    BY <2>a1 DEF Unlaunched, Running, LocTypeOK, Tasks
  <2>3. JobLockHeld'
    BY <2>a1 DEF JobLockHeld, Running
  <2>4. OneLoop'
    BY DEF OneLoop, Running
  <2>5. Aimed'
    BY <2>a1 DEF Aimed
  <2>6. ShownOrMoving'
    BY <2>a1 DEF ShownOrMoving
  <2> QED
    BY <2>1, <2>2, <2>3, <2>4, <2>5, <2>6 DEF LocInv
<1>3. CASE SetManual /\ connected /\ capability
  <2> USE <1>0, <1>3 DEF SetManual, TaskAt, jobVars, Fixes, engineVars
  <2>a1. /\ task' \in [Tasks -> TaskStates] /\ tasks' \in 0 .. MaxTasks /\ tasks' = tasks + 1
         /\ tasks + 1 \in Tasks /\ task[tasks + 1].pc = "done"
         /\ task'[tasks + 1].pc = "begin" /\ task'[tasks + 1].target = "manual"
         /\ \A u \in Tasks : u # tasks + 1 => task'[u] = task[u]
    BY CallFacts
  <2>1. LocTypeOK'
    BY <2>a1 DEF LocTypeOK
  <2>2. Unlaunched'
    BY <2>a1 DEF Unlaunched, Running, LocTypeOK, Tasks
  <2>3. JobLockHeld'
    BY <2>a1 DEF JobLockHeld, Running
  <2>4. OneLoop'
    BY DEF OneLoop, Running
  <2>5. Aimed'
    BY <2>a1 DEF Aimed
  <2>6. ShownOrMoving'
    BY <2>a1 DEF ShownOrMoving
  <2> QED
    BY <2>1, <2>2, <2>3, <2>4, <2>5, <2>6 DEF LocInv
<1>4. CASE SetManual /\ ~(connected /\ capability)
  <2> USE <1>0, <1>4 DEF SetManual, TaskAt, jobVars, engineVars
  <2>1. LocTypeOK'
    BY DEF LocTypeOK
  <2>2. Unlaunched'
    BY DEF Unlaunched, Running
  <2>3. JobLockHeld'
    BY DEF JobLockHeld, Running
  <2>4. OneLoop'
    BY DEF OneLoop, Running
  <2>5. Aimed'
    BY DEF Aimed
  <2>6. ShownOrMoving'
    BY DEF ShownOrMoving
  <2> QED
    BY <2>1, <2>2, <2>3, <2>4, <2>5, <2>6 DEF LocInv
<1>5. CASE ClearManual /\ connected /\ capability
  <2> USE <1>0, <1>5 DEF ClearManual, TaskAt, jobVars, engineVars
  <2>a1. /\ task' \in [Tasks -> TaskStates] /\ tasks' \in 0 .. MaxTasks /\ tasks' = tasks + 1
         /\ tasks + 1 \in Tasks /\ task[tasks + 1].pc = "done"
         /\ task'[tasks + 1].pc = "resolve" /\ task'[tasks + 1].target = "none"
         /\ \A u \in Tasks : u # tasks + 1 => task'[u] = task[u]
    BY CallFacts
  <2>1. LocTypeOK'
    BY <2>a1 DEF LocTypeOK
  <2>2. Unlaunched'
    BY <2>a1 DEF Unlaunched, Running, LocTypeOK, Tasks
  <2>3. JobLockHeld'
    BY <2>a1 DEF JobLockHeld, Running
  <2>4. OneLoop'
    BY DEF OneLoop, Running
  <2>5. Aimed'
    BY <2>a1 DEF Aimed
  <2>6. ShownOrMoving'
    BY <2>a1 DEF ShownOrMoving
  <2> QED
    BY <2>1, <2>2, <2>3, <2>4, <2>5, <2>6 DEF LocInv
<1>6. CASE ClearManual /\ ~(connected /\ capability)
  <2> USE <1>0, <1>6 DEF ClearManual, TaskAt, jobVars, engineVars
  <2>a1. /\ task' \in [Tasks -> TaskStates] /\ tasks' \in 0 .. MaxTasks /\ tasks' = tasks + 1
         /\ tasks + 1 \in Tasks /\ task[tasks + 1].pc = "done"
         /\ task'[tasks + 1].pc = "cancel" /\ task'[tasks + 1].target = "none"
         /\ \A u \in Tasks : u # tasks + 1 => task'[u] = task[u]
    BY CallFacts
  <2>1. LocTypeOK'
    BY <2>a1 DEF LocTypeOK
  <2>2. Unlaunched'
    BY <2>a1 DEF Unlaunched, Running, LocTypeOK, Tasks
  <2>3. JobLockHeld'
    BY <2>a1 DEF JobLockHeld, Running
  <2>4. OneLoop'
    BY DEF OneLoop, Running
  <2>5. Aimed'
    BY <2>a1 DEF Aimed
  <2>6. ShownOrMoving'
    BY <2>a1 DEF ShownOrMoving
  <2> QED
    BY <2>1, <2>2, <2>3, <2>4, <2>5, <2>6 DEF LocInv
<1>7. CASE SelfTest
  <2> USE <1>0, <1>7 DEF SelfTest, TaskAt, jobVars, engineVars
  <2>a1. /\ task' \in [Tasks -> TaskStates] /\ tasks' \in 0 .. MaxTasks /\ tasks' = tasks + 1
         /\ tasks + 1 \in Tasks /\ task[tasks + 1].pc = "done"
         /\ task'[tasks + 1].pc = "pause" /\ task'[tasks + 1].target = current
         /\ \A u \in Tasks : u # tasks + 1 => task'[u] = task[u]
    BY CallFacts DEF LocTypeOK
  <2>a2. granted' \in BOOLEAN
    BY DEF LocTypeOK
  <2>1. LocTypeOK'
    BY <2>a1, <2>a2 DEF LocTypeOK
  <2>2. Unlaunched'
    BY <2>a1 DEF Unlaunched, Running, LocTypeOK, Tasks
  <2>3. JobLockHeld'
    BY <2>a1 DEF JobLockHeld, Running
  <2>4. OneLoop'
    BY DEF OneLoop, Running
  <2>5. Aimed'
    BY <2>a1 DEF Aimed
  <2>6. ShownOrMoving'
    BY <2>a1 DEF ShownOrMoving
  <2> QED
    BY <2>1, <2>2, <2>3, <2>4, <2>5, <2>6 DEF LocInv
<1>8. CASE RefreshCapability
  <2> USE <1>0, <1>8 DEF RefreshCapability, TaskAt, jobVars, engineVars
  <2>1. LocTypeOK'
    BY DEF LocTypeOK
  <2>2. Unlaunched'
    BY DEF Unlaunched, Running
  <2>3. JobLockHeld'
    BY DEF JobLockHeld, Running
  <2>4. OneLoop'
    BY DEF OneLoop, Running
  <2>5. Aimed'
    BY DEF Aimed
  <2>6. ShownOrMoving'
    BY DEF ShownOrMoving
  <2> QED
    BY <2>1, <2>2, <2>3, <2>4, <2>5, <2>6 DEF LocInv
<1>9. ASSUME NEW t \in Tasks, Enter(t) PROVE LocInv'
  <2> USE <1>0, <1>9 DEF Enter, TaskAt, jobVars, engineVars
  <2>a1. /\ task' \in [Tasks -> TaskStates] /\ task'[t].pc = "gate"
         /\ task'[t].target = task[t].target
         /\ \A u \in Tasks : u # t => task'[u] = task[u]
    BY StepFacts
  <2>1. LocTypeOK'
    BY <2>a1 DEF LocTypeOK
  <2>2. Unlaunched'
    BY <2>a1 DEF Unlaunched, Running
  <2>3. JobLockHeld'
    BY <2>a1 DEF JobLockHeld, Running
  <2>4. OneLoop'
    BY DEF OneLoop, Running
  <2>5. Aimed'
    BY <2>a1 DEF Aimed
  <2>6. ShownOrMoving'
    BY <2>a1 DEF ShownOrMoving
  <2> QED
    BY <2>1, <2>2, <2>3, <2>4, <2>5, <2>6 DEF LocInv
<1>10. ASSUME NEW t \in Tasks, Gate(t) PROVE LocInv'
  <2> USE <1>0, <1>10 DEF Gate, TaskAt, jobVars, engineVars
  <2>a1. /\ task' \in [Tasks -> TaskStates] /\ task'[t].pc \in {"done", "resolve", "begin"}
         /\ (task'[t].pc = "begin" => task'[t].target # "none")
         /\ \A u \in Tasks : u # t => task'[u] = task[u]
    <3>1. CASE Step(t, "done")
      BY <3>1, StepFacts
    <3>2. CASE Step(t, "resolve")
      BY <3>2, StepFacts
    <3>3. CASE manual # "none" /\ Aim(t, "begin", manual)
      <4>1. manual \in Fixes
        BY <3>3 DEF LocTypeOK, Fixes
      <4> QED
        BY <3>3, <4>1, AimFacts
    <3> QED
      BY <3>1, <3>2, <3>3
  <2>a2. capability' \in BOOLEAN /\ granted' \in BOOLEAN /\ current' \in {current, "none"}
    BY DEF LocTypeOK
  <2>1. LocTypeOK'
    BY <2>a1, <2>a2 DEF LocTypeOK
  <2>2. Unlaunched'
    BY <2>a1, <2>a2 DEF Unlaunched, Running
  <2>3. JobLockHeld'
    BY <2>a1, <2>a2 DEF JobLockHeld, Running
  <2>4. OneLoop'
    BY DEF OneLoop, Running
  <2>5. Aimed'
    BY <2>a1, <2>a2 DEF Aimed
  <2>6. ShownOrMoving'
    BY <2>a1, <2>a2 DEF ShownOrMoving
  <2> QED
    BY <2>1, <2>2, <2>3, <2>4, <2>5, <2>6 DEF LocInv
<1>11. ASSUME NEW t \in Tasks, Resolve(t) PROVE LocInv'
  <2> USE <1>0, <1>11 DEF Resolve, TaskAt, jobVars, engineVars
  <2>a1. /\ task' \in [Tasks -> TaskStates] /\ task'[t].pc \in {"done", "cancel", "begin"}
         /\ (task'[t].pc = "begin" => task'[t].target # "none")
         /\ \A u \in Tasks : u # t => task'[u] = task[u]
    <3>1. CASE Step(t, "done")
      BY <3>1, StepFacts
    <3>2. CASE Step(t, "cancel")
      BY <3>2, StepFacts
    <3>3. CASE Aim(t, "begin", "exit")
      BY <3>3, AimFacts DEF Fixes
    <3> QED
      BY <3>1, <3>2, <3>3
  <2>a2. current' \in {current, "none"}
    OBVIOUS
  <2>1. LocTypeOK'
    BY <2>a1, <2>a2 DEF LocTypeOK
  <2>2. Unlaunched'
    BY <2>a1, <2>a2 DEF Unlaunched, Running
  <2>3. JobLockHeld'
    BY <2>a1, <2>a2 DEF JobLockHeld, Running
  <2>4. OneLoop'
    BY DEF OneLoop, Running
  <2>5. Aimed'
    BY <2>a1, <2>a2 DEF Aimed
  <2>6. ShownOrMoving'
    BY <2>a1, <2>a2 DEF ShownOrMoving
  <2> QED
    BY <2>1, <2>2, <2>3, <2>4, <2>5, <2>6 DEF LocInv
<1>12. ASSUME NEW t \in Tasks, Begin(t) PROVE LocInv'
  <2> USE <1>0, <1>12 DEF Begin, TaskAt, engineVars
  <2>a1. /\ task' \in [Tasks -> TaskStates] /\ task'[t].pc = "start"
         /\ task'[t].target = task[t].target
         /\ \A u \in Tasks : u # t => task'[u] = task[u]
    BY StepFacts
  <2>a2. /\ loop' \in [Loops -> LoopStates] /\ \A l \in Loops : loop'[l].pc = loop[l].pc
         /\ \A l \in Loops : loop'[l].pc \in {"check", "push"} => loop'[l].cancelled
    BY CancelFacts
  <2>a3. jobLock' \in 0 .. MaxTasks /\ current' \in Fixes \cup {"none"}
    BY LocationAssumption DEF LocTypeOK, TaskStates, Tasks
  <2>1. LocTypeOK'
    BY <2>a1, <2>a2, <2>a3 DEF LocTypeOK
  <2>2. Unlaunched'
    BY <2>a1, <2>a2 DEF Unlaunched, Running
  <2>3. JobLockHeld'
    <3>1. \A u \in Tasks : task[u].pc \notin {"start", "loop"}
      BY DEF JobLockHeld, Tasks
    <3> QED
      BY <2>a1, <2>a2, <3>1 DEF JobLockHeld, Running
  <2>4. OneLoop'
    BY <2>a2 DEF OneLoop, Running
  <2>5. Aimed'
    BY <2>a1, <2>a2 DEF Aimed
  <2>6. ShownOrMoving'
    BY <2>a1, <2>a2 DEF ShownOrMoving
  <2> QED
    BY <2>1, <2>2, <2>3, <2>4, <2>5, <2>6 DEF LocInv
<1>13. ASSUME NEW t \in Tasks, EngineStart(t) PROVE LocInv'
  <2> USE <1>0, <1>13 DEF EngineStart, TaskAt, stateVars, jobVars, engineVars
  <2>a1. /\ task' \in [Tasks -> TaskStates] /\ task'[t].pc = "loop"
         /\ task'[t].target = task[t].target
         /\ \A u \in Tasks : u # t => task'[u] = task[u]
    BY StepFacts
  <2>a2. provider' \in Fixes \cup {"none", "empty", "test"} /\ provider' # "none"
    <3>1. task[t].target \in Fixes
      BY DEF Aimed, LocTypeOK, TaskStates
    <3> QED
      BY <3>1, OfferFacts
  <2>1. LocTypeOK'
    BY <2>a1, <2>a2 DEF LocTypeOK
  <2>2. Unlaunched'
    BY <2>a1, <2>a2 DEF Unlaunched, Running
  <2>3. JobLockHeld'
    BY <2>a1, <2>a2 DEF JobLockHeld, Running
  <2>4. OneLoop'
    BY DEF OneLoop, Running
  <2>5. Aimed'
    BY <2>a1, <2>a2 DEF Aimed
  <2>6. ShownOrMoving'
    BY <2>a2 DEF ShownOrMoving
  <2> QED
    BY <2>1, <2>2, <2>3, <2>4, <2>5, <2>6 DEF LocInv
<1>14. ASSUME NEW t \in Tasks, Republish(t) PROVE LocInv'
  <2> USE <1>0, <1>14 DEF Republish, TaskAt, stateVars, engineVars
  <2>a1. /\ task' \in [Tasks -> TaskStates] /\ task'[t].pc = "done"
         /\ task'[t].target = task[t].target
         /\ \A u \in Tasks : u # t => task'[u] = task[u]
    BY StepFacts
  <2>a2. looped + 1 \in Loops /\ looped' = looped + 1 /\ looped' \in 0 .. MaxLoops
    BY LocationAssumption DEF LocTypeOK, Loops
  <2>a3. /\ loop' \in [Loops -> LoopStates] /\ \A l \in Loops : l # looped + 1 => loop'[l] = loop[l]
    <3> DEFINE new == [NoLoop EXCEPT !.pc = "check", !.fix = task[t].target]
    <3>1. task[t].target \in Fixes
      BY DEF Aimed, LocTypeOK, TaskStates
    <3>2. new \in LoopStates
      BY <3>1 DEF NoLoop, LoopStates
    <3> HIDE DEF new
    <3>3. loop' = [loop EXCEPT ![looped + 1] = new]
      BY DEF new
    <3> QED
      BY <2>a2, <3>2, <3>3 DEF LocTypeOK
  <2>a4. jobLock = t /\ t # 0 /\ \A l \in Loops : loop[l].pc \in {"check", "push"} => loop[l].cancelled
    BY DEF JobLockHeld, Running, Tasks
  <2>1. LocTypeOK'
    <3>1. 0 \in 0 .. MaxTasks /\ looped + 1 \in 0 .. MaxLoops
      BY <2>a2, LocationAssumption
    <3> QED
      BY <2>a1, <2>a2, <2>a3, <3>1 DEF LocTypeOK
  <2>2. Unlaunched'
    <3>1. \A l \in Loops : l > looped + 1 => l > looped /\ l # looped + 1
      BY DEF LocTypeOK, Loops
    <3> QED
      BY <2>a1, <2>a2, <2>a3, <3>1 DEF Unlaunched, Running
  <2>3. JobLockHeld'
    <3>1. \A u \in Tasks : u # 0 /\ (u # t => task[u].pc \notin {"start", "loop"})
      BY <2>a4 DEF JobLockHeld, Tasks
    <3> QED
      BY <2>a1, <3>1 DEF JobLockHeld
  <2>4. OneLoop'
    BY <2>a2, <2>a3, <2>a4 DEF OneLoop, Running
  <2>5. Aimed'
    BY <2>a1 DEF Aimed
  <2>6. ShownOrMoving'
    BY <2>a1 DEF ShownOrMoving
  <2> QED
    BY <2>1, <2>2, <2>3, <2>4, <2>5, <2>6 DEF LocInv
<1>15. ASSUME NEW t \in Tasks, Drop(t) PROVE LocInv'
  <2> USE <1>0, <1>15 DEF Drop, TaskAt, jobVars, engineVars
  <2>a1. /\ task' \in [Tasks -> TaskStates] /\ task'[t].pc = "cancel"
         /\ task'[t].target = task[t].target
         /\ \A u \in Tasks : u # t => task'[u] = task[u]
    BY StepFacts
  <2>1. LocTypeOK'
    BY <2>a1 DEF LocTypeOK
  <2>2. Unlaunched'
    BY <2>a1 DEF Unlaunched, Running
  <2>3. JobLockHeld'
    BY <2>a1 DEF JobLockHeld, Running
  <2>4. OneLoop'
    BY DEF OneLoop, Running
  <2>5. Aimed'
    BY <2>a1 DEF Aimed
  <2>6. ShownOrMoving'
    BY <2>a1 DEF ShownOrMoving
  <2> QED
    BY <2>1, <2>2, <2>3, <2>4, <2>5, <2>6 DEF LocInv
<1>16. ASSUME NEW t \in Tasks, Cancel(t) PROVE LocInv'
  <2> USE <1>0, <1>16 DEF Cancel, TaskAt, stateVars, engineVars
  <2> DEFINE next == IF task[t].pc = "pause" THEN "probe" ELSE "stop"
  <2>a1. /\ task' \in [Tasks -> TaskStates] /\ task'[t].pc \in {"probe", "stop"}
         /\ \A u \in Tasks : u # t => task'[u] = task[u]
    <3>1. Step(t, next) /\ next \in {"probe", "stop"}
      OBVIOUS
    <3> HIDE DEF next
    <3> QED
      BY <3>1, StepFacts
  <2>a2. /\ loop' \in [Loops -> LoopStates] /\ \A l \in Loops : loop'[l].pc = loop[l].pc
         /\ \A l \in Loops : loop'[l].pc \in {"check", "push"} => loop'[l].cancelled
    BY CancelFacts
  <2>1. LocTypeOK'
    <3>1. 0 \in 0 .. MaxLoops
      BY LocationAssumption
    <3> QED
      BY <2>a1, <2>a2, <3>1 DEF LocTypeOK
  <2>2. Unlaunched'
    BY <2>a1, <2>a2 DEF Unlaunched, Running
  <2>3. JobLockHeld'
    BY <2>a1, <2>a2 DEF JobLockHeld, Running
  <2>4. OneLoop'
    BY <2>a2 DEF OneLoop, Running
  <2>5. Aimed'
    BY <2>a1, <2>a2 DEF Aimed
  <2>6. ShownOrMoving'
    BY <2>a1, <2>a2 DEF ShownOrMoving
  <2> QED
    BY <2>1, <2>2, <2>3, <2>4, <2>5, <2>6 DEF LocInv
<1>17. ASSUME NEW t \in Tasks, Probe(t) PROVE LocInv'
  <2> USE <1>0, <1>17 DEF Probe, TaskAt, stateVars, jobVars, engineVars
  <2>a1. /\ task' \in [Tasks -> TaskStates] /\ task'[t].pc = "restore"
         /\ task'[t].target = task[t].target
         /\ \A u \in Tasks : u # t => task'[u] = task[u]
    BY StepFacts
  <2>a2. provider' \in Fixes \cup {"none", "empty", "test"} /\ provider' # "none"
    BY OfferFacts
  <2>1. LocTypeOK'
    BY <2>a1, <2>a2 DEF LocTypeOK
  <2>2. Unlaunched'
    BY <2>a1 DEF Unlaunched, Running
  <2>3. JobLockHeld'
    BY <2>a1 DEF JobLockHeld, Running
  <2>4. OneLoop'
    BY DEF OneLoop, Running
  <2>5. Aimed'
    BY <2>a1 DEF Aimed
  <2>6. ShownOrMoving'
    BY <2>a1, <2>a2 DEF ShownOrMoving
  <2> QED
    BY <2>1, <2>2, <2>3, <2>4, <2>5, <2>6 DEF LocInv
<1>18. ASSUME NEW t \in Tasks, Restore(t) PROVE LocInv'
  <2> USE <1>0, <1>18 DEF Restore, TaskAt, stateVars, jobVars, engineVars
  <2> DEFINE next == IF connected /\ task[t].target # "none" THEN "begin" ELSE "stop"
  <2>a1. /\ task' \in [Tasks -> TaskStates] /\ task'[t].pc \in {"begin", "stop"}
         /\ (task'[t].pc = "begin" => task'[t].target # "none")
         /\ \A u \in Tasks : u # t => task'[u] = task[u]
    <3>1. Step(t, next) /\ next \in {"begin", "stop"} /\ (next = "begin" => task[t].target # "none")
      OBVIOUS
    <3> HIDE DEF next
    <3> QED
      BY <3>1, StepFacts
  <2>1. LocTypeOK'
    BY <2>a1 DEF LocTypeOK
  <2>2. Unlaunched'
    BY <2>a1 DEF Unlaunched, Running
  <2>3. JobLockHeld'
    BY <2>a1 DEF JobLockHeld, Running
  <2>4. OneLoop'
    BY DEF OneLoop, Running
  <2>5. Aimed'
    BY <2>a1 DEF Aimed
  <2>6. ShownOrMoving'
    BY <2>a1 DEF ShownOrMoving
  <2> QED
    BY <2>1, <2>2, <2>3, <2>4, <2>5, <2>6 DEF LocInv
<1>19. ASSUME NEW t \in Tasks, EngineStop(t) PROVE LocInv'
  <2> USE <1>0, <1>19 DEF EngineStop, TaskAt, stateVars, jobVars, engineVars
  <2>a1. /\ task' \in [Tasks -> TaskStates] /\ task'[t].pc = "clear"
         /\ task'[t].target = task[t].target
         /\ \A u \in Tasks : u # t => task'[u] = task[u]
    BY StepFacts
  <2>1. LocTypeOK'
    BY <2>a1 DEF LocTypeOK
  <2>2. Unlaunched'
    BY <2>a1 DEF Unlaunched, Running
  <2>3. JobLockHeld'
    BY <2>a1 DEF JobLockHeld, Running
  <2>4. OneLoop'
    BY DEF OneLoop, Running
  <2>5. Aimed'
    BY <2>a1 DEF Aimed
  <2>6. ShownOrMoving'
    BY <2>a1 DEF ShownOrMoving
  <2> QED
    BY <2>1, <2>2, <2>3, <2>4, <2>5, <2>6 DEF LocInv
<1>20. ASSUME NEW t \in Tasks, Clear(t) PROVE LocInv'
  <2> USE <1>0, <1>20 DEF Clear, TaskAt, jobVars, engineVars
  <2>a1. /\ task' \in [Tasks -> TaskStates] /\ task'[t].pc = "done"
         /\ task'[t].target = task[t].target
         /\ \A u \in Tasks : u # t => task'[u] = task[u]
    BY StepFacts
  <2>1. LocTypeOK'
    BY <2>a1 DEF LocTypeOK
  <2>2. Unlaunched'
    BY <2>a1 DEF Unlaunched, Running
  <2>3. JobLockHeld'
    BY <2>a1 DEF JobLockHeld, Running
  <2>4. OneLoop'
    BY DEF OneLoop, Running
  <2>5. Aimed'
    BY <2>a1 DEF Aimed
  <2>6. ShownOrMoving'
    BY <2>a1 DEF ShownOrMoving
  <2> QED
    BY <2>1, <2>2, <2>3, <2>4, <2>5, <2>6 DEF LocInv
<1>21. ASSUME NEW l \in Loops, Check(l) PROVE LocInv'
  <2> USE <1>0, <1>21 DEF Check, LoopStep, stateVars, engineVars
  <2>a1. /\ loop' \in [Loops -> LoopStates]
         /\ loop'[l].cancelled = loop[l].cancelled
         /\ (loop'[l].pc \in {"check", "push"} => loop[l].pc \in {"check", "push"})
         /\ \A k \in Loops : k # l => loop'[k] = loop[k]
    <3> DEFINE next == IF loop[l].cancelled \/ ~connected THEN "end" ELSE "push"
               moved == [loop[l] EXCEPT !.pc = next]
    <3>1. next \in {"check", "push", "end"}
      OBVIOUS
    <3>2. /\ moved \in LoopStates /\ moved.cancelled = loop[l].cancelled
      BY <3>1 DEF LocTypeOK, LoopStates
    <3>3. loop' = [loop EXCEPT ![l] = moved]
      OBVIOUS
    <3> HIDE DEF moved
    <3> QED
      BY <3>2, <3>3 DEF LocTypeOK
  <2>1. LocTypeOK'
    BY <2>a1 DEF LocTypeOK
  <2>2. Unlaunched'
    BY <2>a1 DEF Unlaunched, Running, TaskAt
  <2>3. JobLockHeld'
    BY <2>a1 DEF JobLockHeld, Running
  <2>4. OneLoop'
    BY <2>a1 DEF OneLoop, Running
  <2>5. Aimed'
    BY DEF Aimed
  <2>6. ShownOrMoving'
    BY DEF ShownOrMoving
  <2> QED
    BY <2>1, <2>2, <2>3, <2>4, <2>5, <2>6 DEF LocInv
<1>22. ASSUME NEW l \in Loops, Push(l) PROVE LocInv'
  <2> USE <1>0, <1>22 DEF Push, LoopStep, stateVars, engineVars
  <2>a1. /\ loop' \in [Loops -> LoopStates]
         /\ loop'[l].cancelled = loop[l].cancelled
         /\ (loop'[l].pc \in {"check", "push"} => loop[l].pc \in {"check", "push"})
         /\ \A k \in Loops : k # l => loop'[k] = loop[k]
    <3> DEFINE next == "check"
               moved == [loop[l] EXCEPT !.pc = next]
    <3>1. next \in {"check", "push", "end"}
      OBVIOUS
    <3>2. /\ moved \in LoopStates /\ moved.cancelled = loop[l].cancelled
      BY <3>1 DEF LocTypeOK, LoopStates
    <3>3. loop' = [loop EXCEPT ![l] = moved]
      OBVIOUS
    <3> HIDE DEF moved
    <3> QED
      BY <3>2, <3>3 DEF LocTypeOK
  <2>a2. /\ provider' \in Fixes \cup {"none", "empty", "test"}
         /\ provider' = "none" => provider = "none"
    <3>1. loop[l].fix \in Fixes
      BY DEF LocTypeOK, LoopStates
    <3> QED
      BY <3>1, OfferFacts
  <2>1. LocTypeOK'
    BY <2>a1, <2>a2 DEF LocTypeOK
  <2>2. Unlaunched'
    BY <2>a1 DEF Unlaunched, Running, TaskAt
  <2>3. JobLockHeld'
    BY <2>a1 DEF JobLockHeld, Running
  <2>4. OneLoop'
    BY <2>a1 DEF OneLoop, Running
  <2>5. Aimed'
    BY DEF Aimed
  <2>6. ShownOrMoving'
    BY <2>a2 DEF ShownOrMoving
  <2> QED
    BY <2>1, <2>2, <2>3, <2>4, <2>5, <2>6 DEF LocInv
<1>23. CASE UNCHANGED locVars
  <2> USE <1>0, <1>23 DEF locVars, stateVars, jobVars, TaskAt, engineVars
  <2>1. LocTypeOK'
    BY DEF LocTypeOK
  <2>2. Unlaunched'
    BY DEF Unlaunched, Running
  <2>3. JobLockHeld'
    BY DEF JobLockHeld, Running
  <2>4. OneLoop'
    BY DEF OneLoop, Running
  <2>5. Aimed'
    BY DEF Aimed
  <2>6. ShownOrMoving'
    BY DEF ShownOrMoving
  <2> QED
    BY <2>1, <2>2, <2>3, <2>4, <2>5, <2>6 DEF LocInv
<1>24. CASE GrantChanges
  <2> USE <1>0, <1>24 DEF GrantChanges, stateVars, jobVars, TaskAt, engineVars
  <2>1. LocTypeOK'
    BY DEF LocTypeOK
  <2>2. Unlaunched'
    BY DEF Unlaunched, Running
  <2>3. JobLockHeld'
    BY DEF JobLockHeld, Running
  <2>4. OneLoop'
    BY DEF OneLoop, Running
  <2>5. Aimed'
    BY DEF Aimed
  <2>6. ShownOrMoving'
    BY DEF ShownOrMoving
  <2> QED
    BY <2>1, <2>2, <2>3, <2>4, <2>5, <2>6 DEF LocInv
<1> QED
  BY <1>1, <1>2, <1>3, <1>4, <1>5, <1>6, <1>7, <1>8, <1>9, <1>10, <1>11,
     <1>12, <1>13, <1>14, <1>15, <1>16, <1>17, <1>18, <1>19, <1>20, <1>21,
     <1>22, <1>23, <1>24
     DEF LocNext, Calls, TaskStep, Publishing

\* The location lane keeps its invariant.
THEOREM LocInvariance == LocSpec => []LocInv
<1>1. LocInit => LocInv
  BY InitLocInv
<1>2. LocInv /\ [LocNext]_locVars => LocInv'
  BY StepLocInv
<1> QED
  BY <1>1, <1>2, PTL DEF LocSpec

\* The types of LocationControllerImpl.
THEOREM LocTypeCorrect == LocSpec => []LocTypeOK
<1>1. LocInv => LocTypeOK
  BY DEF LocInv
<1> QED
  BY <1>1, LocInvariance, PTL

\* beginPublishing cancels and launches under jobLock, so that no loop that
\* runs uncancelled is out of republishJob's reach, however calls interleave.
THEOREM OneLoopAlways == LocSpec => []OneLoop
<1>1. LocInv => OneLoop
  BY DEF LocInv
<1> QED
  BY <1>1, LocInvariance, PTL

\* No task under way: a place that is shown has a started engine behind it.
LEMMA ShownFollows == ASSUME LocInv PROVE ShownIsStarted
  BY DEF LocInv, ShownOrMoving, ShownIsStarted, Idle, TaskAt

\* stopPublishing and onProxyDisconnected stop the engine before they clear the
\* target, and beginPublishing shows it before it starts the engine: no
\* interleaving leaves a target on display behind a stopped engine, also when
\* the providers refuse to be registered or to take a fix.
THEOREM ShownIsStartedAlways == LocSpec => []ShownIsStarted
<1>1. LocInv => ShownIsStarted
  BY ShownFollows
<1> QED
  BY <1>1, LocInvariance, PTL

(***************************************************************************)
(* Hotspot.                                                                *)
(***************************************************************************)

\* The initial states satisfy the invariant.
LEMMA InitHotspotInv == ASSUME HotspotInit PROVE HotspotInv
<1> USE HotspotAssumption DEF HotspotInit, NoWork
<1>1. work \in [Actors -> WorkStates]
  BY DEF WorkStates
<1>2. 0 \in 0 .. MaxShares /\ 0 \in 0 .. MaxHotspotEvents /\ 0 \in 0 .. MaxRelaunches
  OBVIOUS
<1>3. HotspotTypeOK
  BY <1>1, <1>2 DEF HotspotTypeOK
<1>4. OneAtATime
  BY DEF OneAtATime, Resting, Actors, Restorable
<1>5. \A a \in Actors : Progressing(a)
  BY DEF Progressing
<1>6. WorkNamed
  BY DEF WorkNamed
<1> QED
  BY <1>3, <1>4, <1>5, <1>6 DEF HotspotInv

\* An operation goes to its next statement.
LEMMA GoFacts ==
  ASSUME HotspotTypeOK, NEW a \in Actors,
         NEW pc \in {"forget", "revert", "inactive", "publish", "listen", "keep", "show", "detect",
                     "script", "active", "undo"},
         Go(a, pc)
  PROVE  /\ work' \in [Actors -> WorkStates] /\ work'[a].pc = pc /\ work'[a].op = work[a].op
         /\ work'[a] # NoWork /\ \A b \in Actors : b # a => work'[b] = work[b]
<1> DEFINE moved == [work[a] EXCEPT !.pc = pc]
<1>1. moved \in WorkStates /\ moved.pc = pc /\ moved.op = work[a].op
  BY DEF HotspotTypeOK, WorkStates
<1>2. work' = [work EXCEPT ![a] = moved]
  BY DEF Go
<1>3. moved # NoWork
  BY <1>1 DEF NoWork
<1> QED
  BY <1>1, <1>2, <1>3 DEF HotspotTypeOK

\* An operation is over.
LEMMA FinishFacts ==
  ASSUME HotspotTypeOK, NEW a \in Actors, Finish(a)
  PROVE  /\ work' \in [Actors -> WorkStates] /\ work'[a] = NoWork
         /\ \A b \in Actors : b # a => work'[b] = work[b]
<1>1. NoWork \in WorkStates
  BY DEF NoWork, WorkStates
<1> QED
  BY <1>1 DEF HotspotTypeOK, Finish

\* What follows stopShareInternal.
LEMMA AfterStopFacts ==
  ASSUME NEW a \in Actors, work[a].op \in {"off", "lan", "root"}
  PROVE  /\ work[a].op = "off" => AfterStop(a) = "publish"
         /\ work[a].op = "lan" => AfterStop(a) = "listen"
         /\ work[a].op = "root" => AfterStop(a) = "detect"
         /\ AfterStop(a) \in {"publish", "listen", "detect"}
  BY DEF AfterStop

\* The revert script puts ip_forward back, or su has refused.
LEMMA RevertedFacts ==
  ASSUME HotspotTypeOK, Reverted
  PROVE  /\ rules' \in BOOLEAN /\ refused' \in BOOLEAN /\ forward' \in {"0", "1"}
         /\ stash' \in {"none", "0", "1"} /\ before' = before /\ unsaved' = unsaved
         /\ Restorable => Clean' /\ Restorable'
  BY DEF HotspotTypeOK, Reverted, Restorable, Clean, Back

\* The apply script leaves a value that a revert will put back, or has not been
\* able to save it.
LEMMA ScriptFacts ==
  ASSUME HotspotTypeOK, NEW a \in Actors, Script(a)
  PROVE  /\ rules' \in BOOLEAN /\ forward' \in {"0", "1"} /\ stash' \in {"none", "0", "1"}
         /\ unsaved' \in BOOLEAN
         /\ Clean => Restorable'
<1>1. rules' \in BOOLEAN /\ unsaved' \in BOOLEAN /\ refused' = refused /\ before' = before
  BY DEF HotspotTypeOK, Script
<1>2. \/ forward' = "1" /\ stash' = forward
      \/ forward' = "1" /\ stash' = stash /\ unsaved'
      \/ forward' = forward /\ stash' = stash /\ unsaved' = unsaved
  BY DEF Script
<1>3. unsaved => unsaved'
  BY DEF Script
<1> QED
  BY <1>1, <1>2, <1>3 DEF HotspotTypeOK, Clean, Back, Restorable

\* An operation alone: the other actor rests.
LEMMA Alone ==
  ASSUME OneAtATime, NEW a \in Actors, work[a].pc # "none"
  PROVE  /\ ~reconciling /\ ~Resting
         /\ \A b \in Actors : b # a => work[b] = NoWork
<1>1. work[a] # NoWork
  BY DEF NoWork
<1> QED
  BY <1>1 DEF OneAtATime, Resting, Actors

\* What is left to show of a step of an operation that goes on ...
LEMMA GoesOn ==
  ASSUME NEW a \in Actors, work'[a] # NoWork, \A b \in Actors : b # a => work'[b] = NoWork,
         ~reconciling', Restorable', Progressing(a)'
  PROVE  OneAtATime' /\ \A b \in Actors : Progressing(b)'
<1>1. ~Resting'
  BY DEF Resting
<1>2. OneAtATime'
  BY <1>1 DEF OneAtATime, Actors
<1>3. \A b \in Actors : b # a => Progressing(b)'
  BY DEF Progressing, NoWork
<1> QED
  BY <1>2, <1>3

\* ... and of one that ends, or finds none under way.
LEMMA Rests ==
  ASSUME \A b \in Actors : work'[b] = NoWork, Restorable',
         reconciling' => share' = "Off" /\ ~redirect', ~reconciling' => RedirectAsShown'
  PROVE  OneAtATime' /\ \A b \in Actors : Progressing(b)'
<1>1. Resting'
  BY DEF Resting
<1>2. OneAtATime'
  BY <1>1 DEF OneAtATime, Actors
<1>3. \A b \in Actors : Progressing(b)'
  BY DEF Progressing, NoWork
<1> QED
  BY <1>2, <1>3

\* Every step preserves the invariant.
LEMMA HotspotStep ==
  ASSUME HotspotInv, [HotspotNext]_hotspotVars
  PROVE  HotspotInv'
<1>0. HotspotTypeOK /\ WorkNamed /\ (crossed \/ (OneAtATime /\ \A a \in Actors : Progressing(a)))
  BY DEF HotspotInv
<1>1. ASSUME NEW a \in Actors, StopServer(a) PROVE HotspotInv'
  <2> USE <1>0, <1>1 DEF StopServer, WorkAt, shareVars, kernelVars, envVars
  <2>a1. /\ work' \in [Actors -> WorkStates] /\ work'[a].pc = "forget" /\ work'[a].op = work[a].op
         /\ work'[a] # NoWork /\ \A b \in Actors : b # a => work'[b] = work[b]
    BY GoFacts
  <2>1. HotspotTypeOK'
    BY <2>a1 DEF HotspotTypeOK
  <2>2. ASSUME ~crossed' PROVE OneAtATime' /\ \A b \in Actors : Progressing(b)'
    <3>0. OneAtATime /\ Restorable /\ \A b \in Actors : Progressing(b)
      BY <2>2 DEF OneAtATime
    <3>1. ~reconciling /\ \A b \in Actors : b # a => work[b] = NoWork
      BY <3>0, Alone
    <3>2. Restorable' /\ Progressing(a)'
      BY <2>a1, <3>0 DEF Progressing, RedirectAsShown, Clean, Back, Restorable
    <3> QED
      BY <2>a1, <3>1, <3>2, GoesOn
  <2>3. WorkNamed'
    BY <2>a1 DEF WorkNamed, NoWork
  <2> QED
    BY <2>1, <2>2, <2>3 DEF HotspotInv
<1>2. ASSUME NEW a \in Actors, ForgetServer(a) PROVE HotspotInv'
  <2> USE <1>0, <1>2 DEF ForgetServer, WorkAt, shareVars, kernelVars, envVars
  <2>a1. /\ work'[a].pc = (IF redirect THEN "revert" ELSE AfterStop(a)) /\ work'[a].op = work[a].op
         /\ work' \in [Actors -> WorkStates]
         /\ work'[a] # NoWork /\ \A b \in Actors : b # a => work'[b] = work[b]
    <3>1. work[a].op \in {"off", "lan", "root"}
      BY DEF WorkNamed, HotspotTypeOK, WorkStates
    <3>2. (IF redirect THEN "revert" ELSE AfterStop(a)) \in {"revert", "publish", "listen", "detect"}
      BY <3>1, AfterStopFacts
    <3>3. Go(a, (IF redirect THEN "revert" ELSE AfterStop(a)))
      OBVIOUS
    <3> QED
      BY <3>2, <3>3, GoFacts
  <2>a2. /\ work[a].op = "off" => AfterStop(a) = "publish"
         /\ work[a].op = "lan" => AfterStop(a) = "listen"
         /\ work[a].op = "root" => AfterStop(a) = "detect"
         /\ AfterStop(a) \in {"publish", "listen", "detect"}
         /\ work[a].op \in {"off", "lan", "root"}
    <3>1. work[a].op \in {"off", "lan", "root"}
      BY DEF WorkNamed, HotspotTypeOK, WorkStates
    <3> QED
      BY <3>1, AfterStopFacts
  <2>1. HotspotTypeOK'
    <3>1. 0 \in 0 .. MaxShares
      BY HotspotAssumption
    <3> QED
      BY <2>a1, <3>1 DEF HotspotTypeOK
  <2>2. ASSUME ~crossed' PROVE OneAtATime' /\ \A b \in Actors : Progressing(b)'
    <3>0. OneAtATime /\ Restorable /\ \A b \in Actors : Progressing(b)
      BY <2>2 DEF OneAtATime
    <3>1. ~reconciling /\ \A b \in Actors : b # a => work[b] = NoWork
      BY <3>0, Alone
    <3>2. Restorable' /\ Progressing(a)'
      BY <2>a1, <2>a2, <3>0 DEF Progressing, RedirectAsShown, Clean, Back, Restorable
    <3> QED
      BY <2>a1, <3>1, <3>2, GoesOn
  <2>3. WorkNamed'
    BY <2>a1, <2>a2 DEF WorkNamed, NoWork
  <2> QED
    BY <2>1, <2>2, <2>3 DEF HotspotInv
<1>3. ASSUME NEW a \in Actors, Revert(a) PROVE HotspotInv'
  <2> USE <1>0, <1>3 DEF Revert, WorkAt, shareVars, kernelVars, envVars
  <2>a1. /\ work' \in [Actors -> WorkStates] /\ work'[a].pc = "inactive" /\ work'[a].op = work[a].op
         /\ work'[a] # NoWork /\ \A b \in Actors : b # a => work'[b] = work[b]
    BY GoFacts
  <2>a2. /\ rules' \in BOOLEAN /\ refused' \in BOOLEAN /\ forward' \in {"0", "1"}
         /\ stash' \in {"none", "0", "1"} /\ before' = before /\ unsaved' = unsaved
         /\ Restorable => Clean' /\ Restorable'
    BY RevertedFacts
  <2>1. HotspotTypeOK'
    BY <2>a1, <2>a2 DEF HotspotTypeOK
  <2>2. ASSUME ~crossed' PROVE OneAtATime' /\ \A b \in Actors : Progressing(b)'
    <3>0. OneAtATime /\ Restorable /\ \A b \in Actors : Progressing(b)
      BY <2>2 DEF OneAtATime
    <3>1. ~reconciling /\ \A b \in Actors : b # a => work[b] = NoWork
      BY <3>0, Alone
    <3>2. Restorable' /\ Progressing(a)'
      BY <2>a1, <2>a2, <3>0 DEF Progressing, RedirectAsShown
    <3> QED
      BY <2>a1, <3>1, <3>2, GoesOn
  <2>3. WorkNamed'
    BY <2>a1 DEF WorkNamed, NoWork
  <2> QED
    BY <2>1, <2>2, <2>3 DEF HotspotInv
<1>4. ASSUME NEW a \in Actors, Inactive(a) PROVE HotspotInv'
  <2> USE <1>0, <1>4 DEF Inactive, WorkAt, shareVars, kernelVars, envVars
  <2>a1. /\ work'[a].pc = AfterStop(a) /\ work'[a].op = work[a].op
         /\ work' \in [Actors -> WorkStates]
         /\ work'[a] # NoWork /\ \A b \in Actors : b # a => work'[b] = work[b]
    <3>1. work[a].op \in {"off", "lan", "root"}
      BY DEF WorkNamed, HotspotTypeOK, WorkStates
    <3>2. AfterStop(a) \in {"revert", "publish", "listen", "detect"}
      BY <3>1, AfterStopFacts
    <3>3. Go(a, AfterStop(a))
      OBVIOUS
    <3> QED
      BY <3>2, <3>3, GoFacts
  <2>a2. /\ work[a].op = "off" => AfterStop(a) = "publish"
         /\ work[a].op = "lan" => AfterStop(a) = "listen"
         /\ work[a].op = "root" => AfterStop(a) = "detect"
         /\ AfterStop(a) \in {"publish", "listen", "detect"}
         /\ work[a].op \in {"off", "lan", "root"}
    <3>1. work[a].op \in {"off", "lan", "root"}
      BY DEF WorkNamed, HotspotTypeOK, WorkStates
    <3> QED
      BY <3>1, AfterStopFacts
  <2>1. HotspotTypeOK'
    <3>1. redirect' \in BOOLEAN
      OBVIOUS
    <3> QED
      BY <2>a1, <3>1 DEF HotspotTypeOK
  <2>2. ASSUME ~crossed' PROVE OneAtATime' /\ \A b \in Actors : Progressing(b)'
    <3>0. OneAtATime /\ Restorable /\ \A b \in Actors : Progressing(b)
      BY <2>2 DEF OneAtATime
    <3>1. ~reconciling /\ \A b \in Actors : b # a => work[b] = NoWork
      BY <3>0, Alone
    <3>2. Restorable' /\ Progressing(a)'
      BY <2>a1, <2>a2, <3>0 DEF Progressing, RedirectAsShown, Clean, Back, Restorable
    <3> QED
      BY <2>a1, <3>1, <3>2, GoesOn
  <2>3. WorkNamed'
    BY <2>a1, <2>a2 DEF WorkNamed, NoWork
  <2> QED
    BY <2>1, <2>2, <2>3 DEF HotspotInv
<1>5. ASSUME NEW a \in Actors, PublishOff(a) PROVE HotspotInv'
  <2> USE <1>0, <1>5 DEF PublishOff, WorkAt, shareVars, kernelVars, envVars
  <2>a1. /\ work' \in [Actors -> WorkStates] /\ work'[a] = NoWork
         /\ \A b \in Actors : b # a => work'[b] = work[b]
    BY FinishFacts
  <2>1. HotspotTypeOK'
    BY <2>a1 DEF HotspotTypeOK
  <2>2. ASSUME ~crossed' PROVE OneAtATime' /\ \A b \in Actors : Progressing(b)'
    <3>0. OneAtATime /\ Restorable /\ \A b \in Actors : Progressing(b)
      BY <2>2 DEF OneAtATime
    <3>1. ~reconciling /\ \A b \in Actors : b # a => work[b] = NoWork
      BY <3>0, Alone
    <3>2. Restorable' /\ RedirectAsShown'
      BY <2>a1, <3>0 DEF Progressing, RedirectAsShown, Clean, Back, Restorable
    <3> QED
      BY <2>a1, <3>1, <3>2, Rests
  <2>3. WorkNamed'
    BY <2>a1 DEF WorkNamed, NoWork
  <2> QED
    BY <2>1, <2>2, <2>3 DEF HotspotInv
<1>6. ASSUME NEW a \in Actors, Listen(a), Finish(a), UNCHANGED <<listening, shares>> PROVE HotspotInv'
  <2> USE <1>0, <1>6 DEF Listen, WorkAt, shareVars, kernelVars, envVars
  <2>a1. /\ work' \in [Actors -> WorkStates] /\ work'[a] = NoWork
         /\ \A b \in Actors : b # a => work'[b] = work[b]
    BY FinishFacts
  <2>1. HotspotTypeOK'
    BY <2>a1 DEF HotspotTypeOK
  <2>2. ASSUME ~crossed' PROVE OneAtATime' /\ \A b \in Actors : Progressing(b)'
    <3>0. OneAtATime /\ Restorable /\ \A b \in Actors : Progressing(b)
      BY <2>2 DEF OneAtATime
    <3>1. ~reconciling /\ \A b \in Actors : b # a => work[b] = NoWork
      BY <3>0, Alone
    <3>2. Restorable' /\ RedirectAsShown'
      BY <2>a1, <3>0 DEF Progressing, RedirectAsShown, Clean, Back, Restorable
    <3> QED
      BY <2>a1, <3>1, <3>2, Rests
  <2>3. WorkNamed'
    BY <2>a1 DEF WorkNamed, NoWork
  <2> QED
    BY <2>1, <2>2, <2>3 DEF HotspotInv
<1>7. ASSUME NEW a \in Actors, Listen(a), Go(a, "keep"), shares' = shares + 1,
            shares < MaxShares, listening' = listening \cup {shares + 1} PROVE HotspotInv'
  <2> USE <1>0, <1>7 DEF Listen, WorkAt, shareVars, kernelVars, envVars
  <2>a1. /\ work' \in [Actors -> WorkStates] /\ work'[a].pc = "keep" /\ work'[a].op = work[a].op
         /\ work'[a] # NoWork /\ \A b \in Actors : b # a => work'[b] = work[b]
    BY GoFacts
  <2>1. HotspotTypeOK'
    <3>1. shares + 1 \in 1 .. MaxShares /\ shares + 1 \in 0 .. MaxShares
      BY HotspotAssumption DEF HotspotTypeOK
    <3> QED
      BY <2>a1, <3>1 DEF HotspotTypeOK
  <2>2. ASSUME ~crossed' PROVE OneAtATime' /\ \A b \in Actors : Progressing(b)'
    <3>0. OneAtATime /\ Restorable /\ \A b \in Actors : Progressing(b)
      BY <2>2 DEF OneAtATime
    <3>1. ~reconciling /\ \A b \in Actors : b # a => work[b] = NoWork
      BY <3>0, Alone
    <3>2. Restorable' /\ Progressing(a)'
      BY <2>a1, <3>0 DEF Progressing, RedirectAsShown, Clean, Back, Restorable
    <3> QED
      BY <2>a1, <3>1, <3>2, GoesOn
  <2>3. WorkNamed'
    BY <2>a1 DEF WorkNamed, NoWork
  <2> QED
    BY <2>1, <2>2, <2>3 DEF HotspotInv
<1>8. ASSUME NEW a \in Actors, Keep(a) PROVE HotspotInv'
  <2> USE <1>0, <1>8 DEF Keep, WorkAt, shareVars, kernelVars, envVars
  <2>a1. /\ work' \in [Actors -> WorkStates] /\ work'[a].pc = "show" /\ work'[a].op = work[a].op
         /\ work'[a] # NoWork /\ \A b \in Actors : b # a => work'[b] = work[b]
    BY GoFacts
  <2>1. HotspotTypeOK'
    BY <2>a1 DEF HotspotTypeOK
  <2>2. ASSUME ~crossed' PROVE OneAtATime' /\ \A b \in Actors : Progressing(b)'
    <3>0. OneAtATime /\ Restorable /\ \A b \in Actors : Progressing(b)
      BY <2>2 DEF OneAtATime
    <3>1. ~reconciling /\ \A b \in Actors : b # a => work[b] = NoWork
      BY <3>0, Alone
    <3>2. Restorable' /\ Progressing(a)'
      BY <2>a1, <3>0 DEF Progressing, RedirectAsShown, Clean, Back, Restorable
    <3> QED
      BY <2>a1, <3>1, <3>2, GoesOn
  <2>3. WorkNamed'
    BY <2>a1 DEF WorkNamed, NoWork
  <2> QED
    BY <2>1, <2>2, <2>3 DEF HotspotInv
<1>9. ASSUME NEW a \in Actors, ShowShare(a) PROVE HotspotInv'
  <2> USE <1>0, <1>9 DEF ShowShare, WorkAt, shareVars, kernelVars, envVars
  <2>a1. /\ work' \in [Actors -> WorkStates] /\ work'[a] = NoWork
         /\ \A b \in Actors : b # a => work'[b] = work[b]
    BY FinishFacts
  <2>1. HotspotTypeOK'
    BY <2>a1 DEF HotspotTypeOK
  <2>2. ASSUME ~crossed' PROVE OneAtATime' /\ \A b \in Actors : Progressing(b)'
    <3>0. OneAtATime /\ Restorable /\ \A b \in Actors : Progressing(b)
      BY <2>2 DEF OneAtATime
    <3>1. ~reconciling /\ \A b \in Actors : b # a => work[b] = NoWork
      BY <3>0, Alone
    <3>2. Restorable' /\ RedirectAsShown'
      BY <2>a1, <3>0 DEF Progressing, RedirectAsShown, Clean, Back, Restorable
    <3> QED
      BY <2>a1, <3>1, <3>2, Rests
  <2>3. WorkNamed'
    BY <2>a1 DEF WorkNamed, NoWork
  <2> QED
    BY <2>1, <2>2, <2>3 DEF HotspotInv
<1>10. ASSUME NEW a \in Actors, Detect(a), redirect, Go(a, "show") PROVE HotspotInv'
  <2> USE <1>0, <1>10 DEF Detect, WorkAt, shareVars, kernelVars, envVars
  <2>a1. /\ work' \in [Actors -> WorkStates] /\ work'[a].pc = "show" /\ work'[a].op = work[a].op
         /\ work'[a] # NoWork /\ \A b \in Actors : b # a => work'[b] = work[b]
    BY GoFacts
  <2>1. HotspotTypeOK'
    BY <2>a1 DEF HotspotTypeOK
  <2>2. ASSUME ~crossed' PROVE OneAtATime' /\ \A b \in Actors : Progressing(b)'
    <3>0. OneAtATime /\ Restorable /\ \A b \in Actors : Progressing(b)
      BY <2>2 DEF OneAtATime
    <3>1. ~reconciling /\ \A b \in Actors : b # a => work[b] = NoWork
      BY <3>0, Alone
    <3>2. Restorable' /\ Progressing(a)'
      BY <2>a1, <3>0 DEF Progressing, RedirectAsShown, Clean, Back, Restorable
    <3> QED
      BY <2>a1, <3>1, <3>2, GoesOn
  <2>3. WorkNamed'
    BY <2>a1 DEF WorkNamed, NoWork
  <2> QED
    BY <2>1, <2>2, <2>3 DEF HotspotInv
<1>11. ASSUME NEW a \in Actors, Detect(a), ~redirect, Finish(a) PROVE HotspotInv'
  <2> USE <1>0, <1>11 DEF Detect, WorkAt, shareVars, kernelVars, envVars
  <2>a1. /\ work' \in [Actors -> WorkStates] /\ work'[a] = NoWork
         /\ \A b \in Actors : b # a => work'[b] = work[b]
    BY FinishFacts
  <2>1. HotspotTypeOK'
    BY <2>a1 DEF HotspotTypeOK
  <2>2. ASSUME ~crossed' PROVE OneAtATime' /\ \A b \in Actors : Progressing(b)'
    <3>0. OneAtATime /\ Restorable /\ \A b \in Actors : Progressing(b)
      BY <2>2 DEF OneAtATime
    <3>1. ~reconciling /\ \A b \in Actors : b # a => work[b] = NoWork
      BY <3>0, Alone
    <3>2. Restorable' /\ RedirectAsShown'
      BY <2>a1, <3>0 DEF Progressing, RedirectAsShown, Clean, Back, Restorable
    <3> QED
      BY <2>a1, <3>1, <3>2, Rests
  <2>3. WorkNamed'
    BY <2>a1 DEF WorkNamed, NoWork
  <2> QED
    BY <2>1, <2>2, <2>3 DEF HotspotInv
<1>12. ASSUME NEW a \in Actors, Detect(a), ~redirect, Go(a, "script") PROVE HotspotInv'
  <2> USE <1>0, <1>12 DEF Detect, WorkAt, shareVars, kernelVars, envVars
  <2>a1. /\ work' \in [Actors -> WorkStates] /\ work'[a].pc = "script" /\ work'[a].op = work[a].op
         /\ work'[a] # NoWork /\ \A b \in Actors : b # a => work'[b] = work[b]
    BY GoFacts
  <2>1. HotspotTypeOK'
    BY <2>a1 DEF HotspotTypeOK
  <2>2. ASSUME ~crossed' PROVE OneAtATime' /\ \A b \in Actors : Progressing(b)'
    <3>0. OneAtATime /\ Restorable /\ \A b \in Actors : Progressing(b)
      BY <2>2 DEF OneAtATime
    <3>1. ~reconciling /\ \A b \in Actors : b # a => work[b] = NoWork
      BY <3>0, Alone
    <3>2. Restorable' /\ Progressing(a)'
      BY <2>a1, <3>0 DEF Progressing, RedirectAsShown, Clean, Back, Restorable
    <3> QED
      BY <2>a1, <3>1, <3>2, GoesOn
  <2>3. WorkNamed'
    BY <2>a1 DEF WorkNamed, NoWork
  <2> QED
    BY <2>1, <2>2, <2>3 DEF HotspotInv
<1>13. ASSUME NEW a \in Actors, Script(a), rules', Go(a, "active") PROVE HotspotInv'
  <2> USE <1>0, <1>13 DEF Script, WorkAt, shareVars, kernelVars, envVars
  <2>a1. /\ work' \in [Actors -> WorkStates] /\ work'[a].pc = "active" /\ work'[a].op = work[a].op
         /\ work'[a] # NoWork /\ \A b \in Actors : b # a => work'[b] = work[b]
    BY GoFacts
  <2>a2. /\ rules' \in BOOLEAN /\ forward' \in {"0", "1"} /\ stash' \in {"none", "0", "1"}
         /\ unsaved' \in BOOLEAN
         /\ Clean => Restorable'
    BY ScriptFacts
  <2>1. HotspotTypeOK'
    BY <2>a1, <2>a2 DEF HotspotTypeOK
  <2>2. ASSUME ~crossed' PROVE OneAtATime' /\ \A b \in Actors : Progressing(b)'
    <3>0. OneAtATime /\ Restorable /\ \A b \in Actors : Progressing(b)
      BY <2>2 DEF OneAtATime
    <3>1. ~reconciling /\ \A b \in Actors : b # a => work[b] = NoWork
      BY <3>0, Alone
    <3>2. Restorable' /\ Progressing(a)'
      BY <2>a1, <2>a2, <3>0 DEF Progressing, RedirectAsShown
    <3> QED
      BY <2>a1, <3>1, <3>2, GoesOn
  <2>3. WorkNamed'
    BY <2>a1 DEF WorkNamed, NoWork
  <2> QED
    BY <2>1, <2>2, <2>3 DEF HotspotInv
<1>14. ASSUME NEW a \in Actors, Script(a), Go(a, "undo") PROVE HotspotInv'
  <2> USE <1>0, <1>14 DEF Script, WorkAt, shareVars, kernelVars, envVars
  <2>a1. /\ work' \in [Actors -> WorkStates] /\ work'[a].pc = "undo" /\ work'[a].op = work[a].op
         /\ work'[a] # NoWork /\ \A b \in Actors : b # a => work'[b] = work[b]
    BY GoFacts
  <2>a2. /\ rules' \in BOOLEAN /\ forward' \in {"0", "1"} /\ stash' \in {"none", "0", "1"}
         /\ unsaved' \in BOOLEAN
         /\ Clean => Restorable'
    BY ScriptFacts
  <2>1. HotspotTypeOK'
    BY <2>a1, <2>a2 DEF HotspotTypeOK
  <2>2. ASSUME ~crossed' PROVE OneAtATime' /\ \A b \in Actors : Progressing(b)'
    <3>0. OneAtATime /\ Restorable /\ \A b \in Actors : Progressing(b)
      BY <2>2 DEF OneAtATime
    <3>1. ~reconciling /\ \A b \in Actors : b # a => work[b] = NoWork
      BY <3>0, Alone
    <3>2. Restorable' /\ Progressing(a)'
      BY <2>a1, <2>a2, <3>0 DEF Progressing, RedirectAsShown
    <3> QED
      BY <2>a1, <3>1, <3>2, GoesOn
  <2>3. WorkNamed'
    BY <2>a1 DEF WorkNamed, NoWork
  <2> QED
    BY <2>1, <2>2, <2>3 DEF HotspotInv
<1>15. ASSUME NEW a \in Actors, Active(a) PROVE HotspotInv'
  <2> USE <1>0, <1>15 DEF Active, WorkAt, shareVars, kernelVars, envVars
  <2>a1. /\ work' \in [Actors -> WorkStates] /\ work'[a].pc = "show" /\ work'[a].op = work[a].op
         /\ work'[a] # NoWork /\ \A b \in Actors : b # a => work'[b] = work[b]
    BY GoFacts
  <2>1. HotspotTypeOK'
    BY <2>a1 DEF HotspotTypeOK
  <2>2. ASSUME ~crossed' PROVE OneAtATime' /\ \A b \in Actors : Progressing(b)'
    <3>0. OneAtATime /\ Restorable /\ \A b \in Actors : Progressing(b)
      BY <2>2 DEF OneAtATime
    <3>1. ~reconciling /\ \A b \in Actors : b # a => work[b] = NoWork
      BY <3>0, Alone
    <3>2. Restorable' /\ Progressing(a)'
      BY <2>a1, <3>0 DEF Progressing, RedirectAsShown, Clean, Back, Restorable
    <3> QED
      BY <2>a1, <3>1, <3>2, GoesOn
  <2>3. WorkNamed'
    BY <2>a1 DEF WorkNamed, NoWork
  <2> QED
    BY <2>1, <2>2, <2>3 DEF HotspotInv
<1>16. ASSUME NEW a \in Actors, Undo(a) PROVE HotspotInv'
  <2> USE <1>0, <1>16 DEF Undo, WorkAt, shareVars, kernelVars, envVars
  <2>a1. /\ work' \in [Actors -> WorkStates] /\ work'[a] = NoWork
         /\ \A b \in Actors : b # a => work'[b] = work[b]
    BY FinishFacts
  <2>a2. /\ rules' \in BOOLEAN /\ refused' \in BOOLEAN /\ forward' \in {"0", "1"}
         /\ stash' \in {"none", "0", "1"} /\ before' = before /\ unsaved' = unsaved
         /\ Restorable => Clean' /\ Restorable'
    BY RevertedFacts
  <2>1. HotspotTypeOK'
    BY <2>a1, <2>a2 DEF HotspotTypeOK
  <2>2. ASSUME ~crossed' PROVE OneAtATime' /\ \A b \in Actors : Progressing(b)'
    <3>0. OneAtATime /\ Restorable /\ \A b \in Actors : Progressing(b)
      BY <2>2 DEF OneAtATime
    <3>1. ~reconciling /\ \A b \in Actors : b # a => work[b] = NoWork
      BY <3>0, Alone
    <3>2. Restorable' /\ RedirectAsShown'
      BY <2>a1, <2>a2, <3>0 DEF Progressing, RedirectAsShown
    <3> QED
      BY <2>a1, <3>1, <3>2, Rests
  <2>3. WorkNamed'
    BY <2>a1 DEF WorkNamed, NoWork
  <2> QED
    BY <2>1, <2>2, <2>3 DEF HotspotInv
<1>17. ASSUME Collect, share = "Root" /\ ~StageUp PROVE HotspotInv'
  <2> USE <1>0, <1>17 DEF Collect, shareVars, kernelVars, envVars
  <2>a1. /\ work' \in [Actors -> WorkStates] /\ "collector" \in Actors /\ work'["collector"] # NoWork
         /\ work'["collector"].pc = "stop" /\ work'["collector"].op = "off"
         /\ \A b \in Actors : b # "collector" => work'[b] = work[b]
    <3> DEFINE begun == [op |-> "off", pc |-> "stop"]
    <3>1. begun \in WorkStates /\ begun # NoWork /\ "collector" \in Actors
      BY DEF WorkStates, NoWork, Actors
    <3>2. work' = [work EXCEPT !["collector"] = begun]
      OBVIOUS
    <3> HIDE DEF begun
    <3>3. /\ work' \in [Actors -> WorkStates] /\ work'["collector"] = begun
          /\ \A b \in Actors : b # "collector" => work'[b] = work[b]
      BY <3>1, <3>2 DEF HotspotTypeOK
    <3> QED
      BY <3>1, <3>3 DEF begun
  <2>a2. crossed' \in BOOLEAN
    BY DEF HotspotTypeOK, Begins
  <2>1. HotspotTypeOK'
    BY <2>a1, <2>a2 DEF HotspotTypeOK
  <2>2. ASSUME ~crossed' PROVE OneAtATime' /\ \A b \in Actors : Progressing(b)'
    <3>0. OneAtATime /\ Restorable /\ \A b \in Actors : Progressing(b)
      BY <2>2 DEF OneAtATime, Begins
    <3>1. ~reconciling' /\ RedirectAsShown /\ \A b \in Actors : work[b] = NoWork
      BY <2>2, <3>0 DEF OneAtATime, Resting, Begins
    <3>2. Restorable' /\ Progressing("collector")'
      BY <2>a1, <3>0, <3>1 DEF Progressing, RedirectAsShown, Clean, Back, Restorable
    <3> QED
      BY <2>a1, <3>1, <3>2, GoesOn
  <2>3. WorkNamed'
    BY <2>a1 DEF WorkNamed
  <2> QED
    BY <2>1, <2>2, <2>3 DEF HotspotInv
<1>18. ASSUME Collect, ~(share = "Root" /\ ~StageUp) PROVE HotspotInv'
  <2> USE <1>0, <1>18 DEF Collect, shareVars, kernelVars, envVars
  <2>1. HotspotTypeOK'
    <3>1. emitted' \in BOOLEAN /\ work' = work /\ crossed' = crossed
      OBVIOUS
    <3> QED
      BY <3>1 DEF HotspotTypeOK
  <2>2. ASSUME ~crossed' PROVE OneAtATime' /\ \A b \in Actors : Progressing(b)'
    <3>0. OneAtATime /\ Restorable /\ \A b \in Actors : Progressing(b)
      BY <2>2 DEF OneAtATime
    <3>1. OneAtATime'
      BY <3>0 DEF OneAtATime, Resting, RedirectAsShown, Clean, Back, Restorable
    <3>2. ASSUME NEW b \in Actors PROVE Progressing(b)'
      BY <3>0 DEF Progressing, RedirectAsShown, Clean, Back
    <3> QED
      BY <3>1, <3>2
  <2>3. WorkNamed'
    BY DEF WorkNamed
  <2> QED
    BY <2>1, <2>2, <2>3 DEF HotspotInv
<1>19. CASE Reconcile
  <2> USE <1>0, <1>19 DEF Reconcile, shareVars, kernelVars, envVars
  <2>a1. /\ rules' \in BOOLEAN /\ refused' \in BOOLEAN /\ forward' \in {"0", "1"}
         /\ stash' \in {"none", "0", "1"} /\ before' = before /\ unsaved' = unsaved
         /\ Restorable => Clean' /\ Restorable'
    BY RevertedFacts
  <2>1. HotspotTypeOK'
    BY <2>a1 DEF HotspotTypeOK
  <2>2. ASSUME ~crossed' PROVE OneAtATime' /\ \A b \in Actors : Progressing(b)'
    <3>0. OneAtATime /\ Restorable /\ \A b \in Actors : Progressing(b)
      BY <2>2 DEF OneAtATime
    <3>1. /\ \A b \in Actors : work'[b] = NoWork
          /\ Restorable'
          /\ reconciling' => share' = "Off" /\ ~redirect'
          /\ ~reconciling' => RedirectAsShown'
      BY <2>a1, <3>0 DEF OneAtATime, Resting, RedirectAsShown
    <3> QED
      BY <3>1, Rests
  <2>3. WorkNamed'
    BY DEF WorkNamed
  <2> QED
    BY <2>1, <2>2, <2>3 DEF HotspotInv
<1>20. ASSUME NEW op \in {"off", "lan", "root"}, ShareTap(op) PROVE HotspotInv'
  <2> USE <1>0, <1>20 DEF ShareTap, shareVars, kernelVars, envVars
  <2>a1. /\ work' \in [Actors -> WorkStates] /\ "main" \in Actors /\ work'["main"] # NoWork
         /\ work'["main"].pc = "stop" /\ work'["main"].op = op
         /\ \A b \in Actors : b # "main" => work'[b] = work[b]
    <3> DEFINE begun == [op |-> op, pc |-> "stop"]
    <3>1. begun \in WorkStates /\ begun # NoWork /\ "main" \in Actors
      BY DEF WorkStates, NoWork, Actors
    <3>2. work' = [work EXCEPT !["main"] = begun]
      OBVIOUS
    <3> HIDE DEF begun
    <3>3. /\ work' \in [Actors -> WorkStates] /\ work'["main"] = begun
          /\ \A b \in Actors : b # "main" => work'[b] = work[b]
      BY <3>1, <3>2 DEF HotspotTypeOK
    <3> QED
      BY <3>1, <3>3 DEF begun
  <2>a2. crossed' \in BOOLEAN
    BY DEF HotspotTypeOK, Begins
  <2>1. HotspotTypeOK'
    <3>1. hotspotEvents' \in 0 .. MaxHotspotEvents
      BY HotspotAssumption DEF HotspotTypeOK, HotspotEvent
    <3> QED
      BY <2>a1, <2>a2, <3>1 DEF HotspotTypeOK
  <2>2. ASSUME ~crossed' PROVE OneAtATime' /\ \A b \in Actors : Progressing(b)'
    <3>0. OneAtATime /\ Restorable /\ \A b \in Actors : Progressing(b)
      BY <2>2 DEF OneAtATime, Begins
    <3>1. ~reconciling' /\ RedirectAsShown /\ \A b \in Actors : work[b] = NoWork
      BY <2>2, <3>0 DEF OneAtATime, Resting, Begins
    <3>2. Restorable' /\ Progressing("main")'
      BY <2>a1, <3>0, <3>1 DEF Progressing, RedirectAsShown, Clean, Back, Restorable
    <3> QED
      BY <2>a1, <3>1, <3>2, GoesOn
  <2>3. WorkNamed'
    BY <2>a1 DEF WorkNamed
  <2> QED
    BY <2>1, <2>2, <2>3 DEF HotspotInv
<1>21. CASE TunChanges
  <2> USE <1>0, <1>21 DEF TunChanges, shareVars, kernelVars, envVars
  <2>1. HotspotTypeOK'
    <3>1. hotspotEvents' \in 0 .. MaxHotspotEvents
      BY HotspotAssumption DEF HotspotTypeOK, HotspotEvent
    <3>2. tun' \in {"off", "opening", "on", "closing"} /\ emitted' \in BOOLEAN
      BY DEF HotspotTypeOK
    <3> QED
      BY <3>1, <3>2 DEF HotspotTypeOK
  <2>2. ASSUME ~crossed' PROVE OneAtATime' /\ \A b \in Actors : Progressing(b)'
    <3>0. OneAtATime /\ Restorable /\ \A b \in Actors : Progressing(b)
      BY <2>2 DEF OneAtATime
    <3>1. OneAtATime'
      BY <3>0 DEF OneAtATime, Resting, RedirectAsShown, Clean, Back, Restorable
    <3>2. ASSUME NEW b \in Actors PROVE Progressing(b)'
      BY <3>0 DEF Progressing, RedirectAsShown, Clean, Back
    <3> QED
      BY <3>1, <3>2
  <2>3. WorkNamed'
    BY DEF WorkNamed
  <2> QED
    BY <2>1, <2>2, <2>3 DEF HotspotInv
<1>22. CASE Relaunch
  <2> USE <1>0, <1>22 DEF Relaunch, shareVars, kernelVars, envVars
  <2>1. HotspotTypeOK'
    <3>1. relaunches' \in 0 .. MaxRelaunches /\ 0 \in 0 .. MaxShares
      BY HotspotAssumption DEF HotspotTypeOK
    <3>2. work' \in [Actors -> WorkStates]
      BY DEF WorkStates, NoWork
    <3> QED
      BY <3>1, <3>2 DEF HotspotTypeOK
  <2>2. ASSUME ~crossed' PROVE OneAtATime' /\ \A b \in Actors : Progressing(b)'
    <3>0. OneAtATime /\ Restorable /\ \A b \in Actors : Progressing(b)
      BY <2>2 DEF OneAtATime
    <3>1. /\ \A b \in Actors : work'[b] = NoWork
          /\ Restorable'
          /\ reconciling' => share' = "Off" /\ ~redirect'
          /\ ~reconciling' => RedirectAsShown'
      BY <3>0 DEF OneAtATime, Restorable
    <3> QED
      BY <3>1, Rests
  <2>3. WorkNamed'
    BY DEF WorkNamed, NoWork
  <2> QED
    BY <2>1, <2>2, <2>3 DEF HotspotInv
<1>23. CASE UNCHANGED hotspotVars
  <2> USE <1>0, <1>23 DEF hotspotVars, shareVars, kernelVars, envVars
  <2>1. HotspotTypeOK'
    BY DEF HotspotTypeOK
  <2>2. ASSUME ~crossed' PROVE OneAtATime' /\ \A b \in Actors : Progressing(b)'
    <3>0. OneAtATime /\ Restorable /\ \A b \in Actors : Progressing(b)
      BY <2>2 DEF OneAtATime
    <3>1. OneAtATime'
      BY <3>0 DEF OneAtATime, Resting, RedirectAsShown, Clean, Back, Restorable
    <3>2. ASSUME NEW b \in Actors PROVE Progressing(b)'
      BY <3>0 DEF Progressing, RedirectAsShown, Clean, Back
    <3> QED
      BY <3>1, <3>2
  <2>3. WorkNamed'
    BY DEF WorkNamed
  <2> QED
    BY <2>1, <2>2, <2>3 DEF HotspotInv
<1>24. ASSUME NEW a \in Actors, Listen(a) PROVE HotspotInv'
  BY <1>24, <1>6, <1>7 DEF Listen
<1>25. ASSUME NEW a \in Actors, Detect(a) PROVE HotspotInv'
  BY <1>25, <1>10, <1>11, <1>12 DEF Detect
<1>26. ASSUME NEW a \in Actors, Script(a) PROVE HotspotInv'
  BY <1>26, <1>13, <1>14 DEF Script
<1>27. CASE Collect
  BY <1>27, <1>17, <1>18
<1>28. ASSUME NEW a \in Actors, ShareStep(a) PROVE HotspotInv'
  BY <1>28, <1>1, <1>2, <1>3, <1>4, <1>5, <1>8, <1>9, <1>15, <1>16, <1>24, <1>25, <1>26 DEF ShareStep
<1> QED
  BY <1>19, <1>20, <1>21, <1>22, <1>23, <1>27, <1>28
     DEF HotspotNext

\* The inductive invariant of the hotspot lane.
THEOREM HotspotInvariance == HotspotSpec => []HotspotInv
<1>1. HotspotInit => HotspotInv
  BY InitHotspotInv
<1>2. HotspotInv /\ [HotspotNext]_hotspotVars => HotspotInv'
  BY HotspotStep
<1> QED
  BY <1>1, <1>2, PTL DEF HotspotSpec

\* HotspotControllerImpl's, LanShareServer's and RootRedirector's variables
\* keep their types, also when operations cross each other.
THEOREM HotspotTypeCorrect == HotspotSpec => []HotspotTypeOK
<1>1. HotspotInv => HotspotTypeOK
  BY DEF HotspotInv
<1> QED
  BY <1>1, HotspotInvariance, PTL

\* Nobody at work, and no operation ever began over another: nothing is left.
LEMMA NothingLeft == ASSUME HotspotInv PROVE SharesLeaveNothing
<1>1. SUFFICES ASSUME HotspotIdle, ~crossed, share # "Root", ~refused
               PROVE  ~rules /\ (~unsaved => forward = before)
  BY DEF SharesLeaveNothing
<1>2. OneAtATime /\ Resting /\ ~reconciling
  BY <1>1 DEF HotspotInv, HotspotIdle
<1>3. RedirectAsShown
  BY <1>2 DEF OneAtATime
<1> QED
  BY <1>1, <1>3 DEF RedirectAsShown, Clean, Back

\* Shares that come one after another leave neither rules nor forwarding behind:
\* the value apply() stashed is the one from before the app touched it,
\* whichever script ran last, wherever a script stopped or the process died
\* (reconcileStaleRules), and whatever the tunnel did meanwhile.
THEOREM SharesLeaveNothingAlways == HotspotSpec => []SharesLeaveNothing
<1>1. HotspotInv => SharesLeaveNothing
  BY NothingLeft
<1> QED
  BY <1>1, HotspotInvariance, PTL
=============================================================================
