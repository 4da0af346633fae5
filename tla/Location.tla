------------------------------ MODULE Location ------------------------------
(***************************************************************************)
(* The location lane: LocationControllerImpl over MockLocationEngine.      *)
(*                                                                         *)
(* Every entry point is a task of its own (a coroutine of the service, of  *)
(* the lane's scope or of the settings panel, or the thread of a           *)
(* teardown); tasks interleave statement by statement and meet in jobLock. *)
(* beginPublishing starts a loop that publishes the fix again and again.   *)
(*                                                                         *)
(* External: the geo lookup through the proxy, the grant of the            *)
(* mock-location app in the developer options, and the test providers of   *)
(* the OS, which keep the last fix they took.  Without the grant they      *)
(* refuse to be registered and refuse a fix; some devices refuse always.   *)
(***************************************************************************)
EXTENDS Naturals

CONSTANTS
    MaxTasks,    \* bound on calls
    MaxLoops     \* bound on publishing loops

ASSUME LocationAssumption == MaxTasks \in Nat /\ MaxLoops \in Nat

Tasks == 1 .. MaxTasks
Loops == 1 .. MaxLoops
Fixes == {"exit", "manual"}

VARIABLES
    session,     \* DjVpnService has a session
    connected, manual, current,
    capability,  \* _capability is not UNAVAILABLE
    jobLock,     \* the task in jobLock, or 0
    republishJob,\* the loop of republishJob, or 0
    loop,        \* [Loops -> record]
    looped,      \* loops launched
    granted,     \* the OS lets this app mock the location
    provider,    \* the engine: "none" when stopped, "empty" when it is started and
                 \* no provider took it, otherwise the fix the providers show
    task,        \* [Tasks -> record]
    tasks        \* tasks launched

stateVars == <<connected, manual, current, capability>>
jobVars == <<republishJob, loop, looped>>
engineVars == <<granted, provider>>
locVars == <<stateVars, jobVars, session, jobLock, engineVars, task, tasks>>

NoLoop == [pc |-> "none", fix |-> "exit", cancelled |-> FALSE]
NoTask == [kind |-> "none", pc |-> "done", target |-> "none"]

LocInit ==
    /\ session = FALSE
    /\ connected = FALSE /\ manual = "none" /\ current = "none" /\ capability = FALSE
    /\ jobLock = 0 /\ republishJob = 0
    /\ loop = [l \in Loops |-> NoLoop] /\ looped = 0
    /\ granted \in BOOLEAN /\ provider = "none"
    /\ task = [t \in Tasks |-> NoTask] /\ tasks = 0

TaskAt(t, pc) == task[t].pc = pc
Step(t, pc) == task' = [task EXCEPT ![t].pc = pc]
Aim(t, pc, target) == task' = [task EXCEPT ![t].pc = pc, ![t].target = target]

Call(kind, pc, target) ==
    /\ tasks < MaxTasks /\ tasks' = tasks + 1
    /\ task' = [task EXCEPT ![tasks + 1] = [kind |-> kind, pc |-> pc, target |-> target]]

Pending(kind) == \E t \in Tasks : task[t].kind = kind /\ ~TaskAt(t, "done")

-----------------------------------------------------------------------------
(***************************************************************************)
(* The calls.                                                              *)
(***************************************************************************)

\* A bring-up succeeds and launches onProxyConnected.
SessionUp ==
    /\ ~session /\ ~Pending("down")
    /\ session' = TRUE /\ Call("up", "enter", "none")
    /\ UNCHANGED <<stateVars, jobVars, jobLock, engineVars>>

\* A teardown calls onProxyDisconnected.
SessionDown ==
    /\ session /\ session' = FALSE /\ Call("down", "drop", "none")
    /\ UNCHANGED <<stateVars, jobVars, jobLock, engineVars>>

\* setManualLocation.
SetManual ==
    /\ manual' = "manual"
    /\ IF connected /\ capability THEN Call("manual", "begin", "manual")
                                  ELSE UNCHANGED <<task, tasks>>
    /\ UNCHANGED <<connected, current, capability, jobVars, session, jobLock, engineVars>>

\* clearManual.
ClearManual ==
    /\ manual' = "none"
    /\ IF connected /\ capability THEN Call("clear", "resolve", "none")
                                  ELSE Call("clear", "cancel", "none")
    /\ UNCHANGED <<connected, current, capability, jobVars, session, jobLock, engineVars>>

\* runSelfTest, with the opt-in and the grant it asks for; the button waits
\* for the previous one.
SelfTest ==
    /\ ~Pending("test")
    /\ capability' = TRUE /\ granted' \in {granted, TRUE}
    /\ Call("test", "pause", current)
    /\ UNCHANGED <<connected, manual, current, jobVars, session, jobLock, provider>>

\* refreshCapability, or a self-test that is refused.
RefreshCapability ==
    /\ capability' = ~capability
    /\ UNCHANGED <<connected, manual, current, session, jobVars, jobLock, engineVars, task, tasks>>

\* The user chooses the mock-location app, or another one.
GrantChanges ==
    /\ granted' = ~granted
    /\ UNCHANGED <<stateVars, session, jobVars, jobLock, provider, task, tasks>>

-----------------------------------------------------------------------------
(***************************************************************************)
(* The statements of a task.                                               *)
(***************************************************************************)

\* onProxyConnected up to the target.
Enter(t) ==
    /\ TaskAt(t, "enter") /\ connected' = TRUE /\ Step(t, "gate")
    /\ UNCHANGED <<manual, current, capability, jobVars, session, jobLock, engineVars, tasks>>

\* The opt-in and the capability are what they are at this moment; ensureGrant
\* gets the grant with root, or does not.
Gate(t) ==
    /\ TaskAt(t, "gate")
    /\ \/ /\ current' = "none" /\ Step(t, "done") /\ capability' \in {FALSE, capability}
          /\ UNCHANGED granted
       \/ /\ capability' \in BOOLEAN /\ UNCHANGED current
          /\ granted' \in {granted, TRUE}
          /\ IF manual = "none" THEN Step(t, "resolve") ELSE Aim(t, "begin", manual)
    /\ UNCHANGED <<connected, manual, jobVars, session, jobLock, provider, tasks>>

\* resolveExit finds the exit's place, or nothing.
Resolve(t) ==
    /\ TaskAt(t, "resolve")
    /\ \/ Aim(t, "begin", "exit") /\ UNCHANGED current
       \/ task[t].kind = "up" /\ current' = "none" /\ Step(t, "done")
       \/ task[t].kind = "clear" /\ Step(t, "cancel") /\ UNCHANGED current
    /\ UNCHANGED <<connected, manual, capability, jobVars, session, jobLock, engineVars, tasks>>

CancelJob == loop' = [l \in Loops |-> IF l = republishJob THEN [loop[l] EXCEPT !.cancelled = TRUE]
                                                         ELSE loop[l]]

\* Mutant: the loop in place is replaced and not cancelled.
BeginOver(t) ==
    /\ TaskAt(t, "begin") /\ jobLock = 0 /\ jobLock' = t
    /\ current' = task[t].target /\ Step(t, "start")
    /\ UNCHANGED <<connected, manual, capability, jobVars, session, engineVars, tasks>>

\* beginPublishing, in jobLock: cancel the loop and show the target ...
Begin(t) ==
    /\ TaskAt(t, "begin") /\ jobLock = 0 /\ jobLock' = t
    /\ CancelJob
    /\ current' = task[t].target /\ Step(t, "start")
    /\ UNCHANGED <<connected, manual, capability, republishJob, looped, session, engineVars, tasks>>

\* A fix reaches the providers that are registered, while the grant is there.
Publish(fix) ==
    provider' = IF granted /\ provider \notin {"none", "empty"} THEN fix ELSE provider

\* start() registers them first, and may be refused.  Once it was, the machine does
\* not try again before a stop; the fused provider of Play services does.
EngineTakes(fix) ==
    \/ provider \notin {"none", "empty"} /\ Publish(fix)
    \/ provider \in {"none", "empty"} /\ provider' = "empty"
    \/ provider \in {"none", "empty"} /\ granted /\ provider' = fix

\* ... start the engine with it, whose answer nobody reads ...
EngineStart(t) ==
    /\ TaskAt(t, "start") /\ Step(t, "loop")
    /\ EngineTakes(task[t].target)
    /\ UNCHANGED <<stateVars, jobVars, session, jobLock, granted, tasks>>

\* ... and install the new loop.
Republish(t) ==
    /\ TaskAt(t, "loop") /\ looped < MaxLoops
    /\ looped' = looped + 1 /\ republishJob' = looped + 1
    /\ loop' = [loop EXCEPT ![looped + 1] = [NoLoop EXCEPT !.pc = "check", !.fix = task[t].target]]
    /\ jobLock' = 0 /\ Step(t, "done")
    /\ UNCHANGED <<stateVars, session, engineVars, tasks>>

\* onProxyDisconnected.
Drop(t) ==
    /\ TaskAt(t, "drop") /\ connected' = FALSE /\ Step(t, "cancel")
    /\ UNCHANGED <<manual, current, capability, jobVars, session, jobLock, engineVars, tasks>>

\* The synchronized block of onProxyDisconnected, stopPublishing, runSelfTest.
Cancel(t) ==
    /\ task[t].pc \in {"cancel", "pause"} /\ jobLock = 0
    /\ CancelJob /\ republishJob' = 0
    /\ Step(t, IF TaskAt(t, "pause") THEN "probe" ELSE "stop")
    /\ UNCHANGED <<stateVars, looped, session, jobLock, engineVars, tasks>>

\* engine.selfTest starts it too, and writes the test fix; then the fix read
\* before is restored.
Probe(t) ==
    /\ TaskAt(t, "probe") /\ Step(t, "restore")
    /\ EngineTakes("test")
    /\ UNCHANGED <<stateVars, jobVars, session, jobLock, granted, tasks>>

Restore(t) ==
    /\ TaskAt(t, "restore")
    /\ Step(t, IF connected /\ task[t].target # "none" THEN "begin" ELSE "stop")
    /\ UNCHANGED <<stateVars, jobVars, session, jobLock, engineVars, tasks>>

\* engine.stop() ...
EngineStop(t) ==
    /\ TaskAt(t, "stop") /\ provider' = "none" /\ Step(t, "clear")
    /\ UNCHANGED <<stateVars, jobVars, session, jobLock, granted, tasks>>

\* Mutant: the target stays on display while the proxy is connected.
ClearIfDown(t) ==
    /\ TaskAt(t, "clear") /\ Step(t, "done")
    /\ current' = IF connected THEN current ELSE "none"
    /\ UNCHANGED <<connected, manual, capability, jobVars, session, jobLock, engineVars, tasks>>

\* ... and nothing is shown any more.
Clear(t) ==
    /\ TaskAt(t, "clear") /\ current' = "none" /\ Step(t, "done")
    /\ UNCHANGED <<connected, manual, capability, jobVars, session, jobLock, engineVars, tasks>>

-----------------------------------------------------------------------------
(***************************************************************************)
(* A publishing loop.                                                      *)
(***************************************************************************)

LoopStep(l, pc) == loop' = [loop EXCEPT ![l].pc = pc]

\* Mutant: the loop runs until it is cancelled.
CheckActive(l) ==
    /\ loop[l].pc = "check"
    /\ LoopStep(l, IF loop[l].cancelled THEN "end" ELSE "push")
    /\ UNCHANGED <<stateVars, republishJob, looped, session, jobLock, engineVars, task, tasks>>

\* while (isActive && connected)
Check(l) ==
    /\ loop[l].pc = "check"
    /\ LoopStep(l, IF loop[l].cancelled \/ ~connected THEN "end" ELSE "push")
    /\ UNCHANGED <<stateVars, republishJob, looped, session, jobLock, engineVars, task, tasks>>

\* Mutant: one push is enough.
PushOnce(l) ==
    /\ loop[l].pc = "push" /\ LoopStep(l, "end")
    /\ Publish(loop[l].fix)
    /\ UNCHANGED <<stateVars, republishJob, looped, session, jobLock, granted, task, tasks>>

\* engine.publish, whose answer nobody reads either.
Push(l) ==
    /\ loop[l].pc = "push" /\ LoopStep(l, "check")
    /\ Publish(loop[l].fix)
    /\ UNCHANGED <<stateVars, republishJob, looped, session, jobLock, granted, task, tasks>>

-----------------------------------------------------------------------------
Calls == SessionUp \/ SessionDown \/ SetManual \/ ClearManual \/ SelfTest \/ RefreshCapability
         \/ GrantChanges

TaskStep(t) ==
    \/ Enter(t) \/ Gate(t) \/ Resolve(t)
    \/ Begin(t) \/ EngineStart(t) \/ Republish(t)
    \/ Drop(t) \/ Cancel(t) \/ EngineStop(t) \/ Clear(t)
    \/ Probe(t) \/ Restore(t)

Publishing(l) == Check(l) \/ Push(l)

LocNext ==
    \/ Calls
    \/ \E t \in Tasks : TaskStep(t)
    \/ \E l \in Loops : Publishing(l)

\* Threads go on; the geo lookup has a timeout.
LocFairness ==
    /\ \A t \in Tasks : WF_locVars(TaskStep(t))
    /\ \A l \in Loops : WF_locVars(Publishing(l))

LocSpec == LocInit /\ [][LocNext]_locVars /\ LocFairness

-----------------------------------------------------------------------------
LoopStates == [pc : {"none", "check", "push", "end"}, fix : Fixes, cancelled : BOOLEAN]
TaskStates ==
    [kind : {"none", "up", "down", "manual", "clear", "test"},
     pc : {"enter", "gate", "resolve", "begin", "start", "loop", "drop", "cancel", "pause", "probe",
           "restore", "stop", "clear", "done"},
     target : Fixes \cup {"none"}]

\* Every variable has its type.
LocTypeOK ==
    /\ session \in BOOLEAN /\ connected \in BOOLEAN /\ capability \in BOOLEAN
    /\ granted \in BOOLEAN
    /\ manual \in {"none", "manual"} /\ current \in Fixes \cup {"none"}
    /\ jobLock \in 0 .. MaxTasks /\ republishJob \in 0 .. MaxLoops /\ looped \in 0 .. MaxLoops
    /\ loop \in [Loops -> LoopStates] /\ task \in [Tasks -> TaskStates]
    /\ provider \in Fixes \cup {"none", "empty", "test"}
    /\ tasks \in 0 .. MaxTasks

Idle == \A t \in Tasks : TaskAt(t, "done")
Running(l) == loop[l].pc \in {"check", "push"}

\* No publishing loop is orphaned: one that nobody has cancelled is the one
\* republishJob refers to, so that the next call can stop it (the lock of
\* beginPublishing: "cannot orphan a running loop").
OneLoop == \A l \in Loops : Running(l) /\ ~loop[l].cancelled => l = republishJob

\* A place the settings show as spoofed has a started engine behind it, whose
\* loop goes on offering it: whatever calls race, the engine is not stopped
\* behind a target that stays on display.
ShownIsStarted == Idle /\ current # "none" => provider # "none"

\* "We never claim a fix went out when it did not" (MockProviderMachine): a place
\* that is shown as published is one the providers have taken.
ShownIsPublished == Idle /\ current # "none" => provider \in Fixes

\* Loops end when the proxy is gone, also one that a late lookup installed
\* after the disconnect.
LoopsEnd == []<>(connected \/ \A l \in Loops : ~Running(l))

\* The displayed fix wins over a last push of a cancelled loop, as long as there
\* are providers and they may be given one.
ShownWins ==
    \A x \in Fixes :
        Idle /\ connected /\ current = x
            ~> \/ provider \in {x, "empty"} \/ ~granted
               \/ ~Idle \/ ~connected \/ current # x

-----------------------------------------------------------------------------
(***************************************************************************)
(* The parts of the inductive invariant.                                   *)
(***************************************************************************)

\* Tasks and loops that have not been launched.
Unlaunched ==
    /\ \A t \in Tasks : t > tasks => TaskAt(t, "done")
    /\ \A l \in Loops : l > looped => ~Running(l)

\* jobLock is held from the cancellation of a loop to the next one's launch,
\* and no loop runs uncancelled in between.
JobLockHeld ==
    /\ \A t \in Tasks : jobLock = t <=> task[t].pc \in {"start", "loop"}
    /\ jobLock # 0 => \A l \in Loops : Running(l) => loop[l].cancelled

\* A task that publishes has something to publish.
Aimed == \A t \in Tasks : task[t].pc \in {"begin", "start", "loop"} => task[t].target # "none"

\* A target that is shown while the engine is stopped is about to be cleared,
\* or to start the engine.
ShownOrMoving ==
    current # "none" /\ provider = "none" => \E t \in Tasks : task[t].pc \in {"clear", "start"}

\* What every step preserves.
LocInv ==
    /\ LocTypeOK /\ Unlaunched /\ JobLockHeld /\ OneLoop /\ Aimed /\ ShownOrMoving
=============================================================================
