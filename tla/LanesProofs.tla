---------------------------- MODULE LanesProofs -----------------------------
(***************************************************************************)
(* Proofs about Tor, for any number of starts, taps and deaths: types; at  *)
(* most one tor_run_main() in a process (TorOnce); every start that may    *)
(* still route the device through Tor is the one the ring shows and a tap  *)
(* cancels (PrepareCancellable); bootstraps exclude each other (LockHeld), *)
(* which is what lets Launch check and set everStarted at once; and the    *)
(* ring and the lock belong to a start at work (RingOwned).                *)
(*                                                                         *)
(* Then about the lanes composed: the invariants of Tor, Location,         *)
(* Hotspot, Vault and Servers hold together of LanesSpec.                  *)
(***************************************************************************)
EXTENDS Lanes, DeviceProofs, StoreProofs

\* The initial states satisfy the invariant.
LEMMA InitTorInv == ASSUME TorInit PROVE TorInv
<1> USE TorAssumption DEF TorInit, NoStart
<1>1. start \in [Starts -> StartStates]
  BY DEF StartStates
<1>2. inbox \in Seq({"start", "stop"})
  OBVIOUS
<1>3. 0 \in 0 .. MaxStarts /\ 0 \in 0 .. MaxTaps /\ 0 \in 0 .. MaxDeaths
  OBVIOUS
<1>4. TorTypeOK
  BY <1>1, <1>2, <1>3 DEF TorTypeOK
<1>5. LaunchRecorded /\ TorOnce /\ LockHeld /\ PrepareCancellable
  BY DEF LaunchRecorded, TorOnce, LockHeld, PrepareCancellable
<1> QED
  BY <1>4, <1>5 DEF TorInv

\* The values of a variable that holds a start, or none.
LEMMA StartOrNone == 0 \in 0 .. MaxStarts /\ 0 \notin Starts /\ Starts \subseteq 0 .. MaxStarts
  BY TorAssumption DEF Starts

\* A command to TorService is queued, or refused by the system.
LEMMA ForegroundTyped ==
  ASSUME TorTypeOK, NEW what \in {"start", "stop"}, Foreground(what)
  PROVE  inbox' \in Seq({"start", "stop"})
  BY DEF TorTypeOK, Foreground

\* Cancelling torJob marks the start it names, and no other.
LEMMA CancelMarks ==
  ASSUME TorTypeOK
  PROVE  /\ Cancelled \in [Starts -> StartStates]
         /\ \A s \in Starts : /\ Cancelled[s].pc = start[s].pc
                               /\ Cancelled[s].cancelled = (start[s].cancelled \/ torJob = s)
<1>1. CASE torJob = 0
  BY <1>1, StartOrNone DEF TorTypeOK, StartStates, Cancelled
<1>2. CASE torJob # 0
  <2>1. torJob \in Starts
    BY <1>2, TorAssumption DEF TorTypeOK, Starts
  <2>2. [start[torJob] EXCEPT !.cancelled = TRUE] \in StartStates
    BY <2>1 DEF TorTypeOK, StartStates
  <2>3. Cancelled = [start EXCEPT ![torJob].cancelled = TRUE]
    BY <1>2 DEF Cancelled
  <2>4. Cancelled = [start EXCEPT ![torJob] = [start[torJob] EXCEPT !.cancelled = TRUE]]
    BY <2>3
  <2> QED
    BY <2>1, <2>2, <2>4 DEF TorTypeOK, StartStates
<1> QED
  BY <1>1, <1>2

\* start() behind the lock returns, or goes on to the bootstrap holding it.
LEMMA LockTaken ==
  ASSUME TorTypeOK, NEW s \in Starts, StartLocked(s)
  PROVE  start'[s].pc = "back" \/ (start'[s].pc = "launch" /\ startLock' = s)
<1>1. start[s] \in StartStates
  BY DEF TorTypeOK
<1>2. ASSUME start' = [start EXCEPT ![s].pc = "back"] PROVE start'[s].pc = "back"
  BY <1>1, <1>2 DEF TorTypeOK, StartStates
<1>3. ASSUME start' = [start EXCEPT ![s].pc = "back", ![s].ready = TRUE]
      PROVE  start'[s].pc = "back"
  BY <1>1, <1>3 DEF TorTypeOK, StartStates
<1>4. ASSUME start' = [start EXCEPT ![s].pc = "launch"] PROVE start'[s].pc = "launch"
  BY <1>1, <1>4 DEF TorTypeOK, StartStates
<1> QED
  BY <1>2, <1>3, <1>4 DEF StartLocked

\* A bootstrap that returns hands its start back to the main thread, and leaves
\* the ring, the lock, the launches on record and the commands as they are.
LEMMA ReturnKeeps ==
  ASSUME TorInv, NEW s \in Starts, NEW ready \in BOOLEAN, Return(s, ready),
         start[s].pc \in {"launch", "poll"}, warm' \in BOOLEAN,
         UNCHANGED <<uiVars, calls, controllerVars, everStarted, launches, daemon, inbox,
                     present, deaths>>
  PROVE  TorInv'
<1> DEFINE back == [start[s] EXCEPT !.pc = "back", !.ready = ready]
<1>0. start \in [Starts -> StartStates]
  BY DEF TorInv, TorTypeOK
<1>1. start[s] \in StartStates
  BY <1>0
<1>2. back \in StartStates /\ back.pc = "back" /\ back.cancelled = start[s].cancelled
  BY <1>1 DEF StartStates
<1>3. start' = [start EXCEPT ![s] = back]
  BY DEF Return
<1> HIDE DEF back
<1>4. start' \in [Starts -> StartStates]
  BY <1>0, <1>2, <1>3
<1>5. \A u \in Starts : start'[u] = IF u = s THEN back ELSE start[u]
  BY <1>0, <1>3
<1>6. UNCHANGED <<torMode, ring, torJob, taps, tunnel, calls, startLock, phase, active, wanted,
                  everStarted, launches, daemon, inbox, present, deaths>>
  BY DEF uiVars, controllerVars
<1>7. TorTypeOK'
  BY <1>4, <1>6 DEF TorInv, TorTypeOK
<1>8. LaunchRecorded' /\ TorOnce'
  BY <1>6 DEF TorInv, LaunchRecorded, TorOnce
<1>9. LockHeld'
  BY <1>2, <1>5, <1>6 DEF TorInv, LockHeld
<1>10. PrepareCancellable'
  BY <1>2, <1>5, <1>6 DEF TorInv, PrepareCancellable
<1> QED
  BY <1>7, <1>8, <1>9, <1>10 DEF TorInv

\* Every step preserves the invariant: one step of the proof per action.
LEMMA StepTorInv == ASSUME TorInv, [TorNext]_torVars PROVE TorInv'
<1> USE DEF uiVars, controllerVars, managerVars, idleVars, StartAt
<1>0. TorTypeOK /\ LaunchRecorded /\ TorOnce /\ LockHeld /\ PrepareCancellable
  BY DEF TorInv
<1>1. ASSUME NEW s \in Starts, StartLocked(s) PROVE TorInv'
  <2> USE <1>0, <1>1 DEF StartLocked
  <2>1. TorTypeOK'
    <3>1. start' \in [Starts -> StartStates]
      BY DEF TorTypeOK, StartStates
    <3>2. inbox' \in Seq({"start", "stop"})
      BY ForegroundTyped DEF TorTypeOK
    <3>3. /\ torJob' \in 0 .. MaxStarts /\ startLock' \in 0 .. MaxStarts
          /\ calls' \in 0 .. MaxStarts /\ taps' \in 0 .. MaxTaps /\ deaths' \in 0 .. MaxDeaths
      BY StartOrNone, TorAssumption DEF TorTypeOK
    <3> QED
      BY <3>1, <3>2, <3>3 DEF TorTypeOK
  <2>2. LaunchRecorded'
    BY DEF LaunchRecorded, TorTypeOK
  <2>3. TorOnce'
    BY DEF TorOnce, LaunchRecorded, TorTypeOK
  <2>4. LockHeld'
    <3>1. \A u \in Starts : start[u].pc \notin {"launch", "poll"}
      BY StartOrNone DEF LockHeld
    <3>2. \A u \in Starts \ {s} : start'[u].pc = start[u].pc
      BY DEF TorTypeOK, StartStates
    <3>3. start'[s].pc = "back" \/ (start'[s].pc = "launch" /\ startLock' = s)
      BY LockTaken
    <3> QED
      BY <3>1, <3>2, <3>3 DEF LockHeld
  <2>5. PrepareCancellable'
    BY DEF TorTypeOK, StartStates, PrepareCancellable
  <2> QED
    BY <2>1, <2>2, <2>3, <2>4, <2>5 DEF TorInv
<1>2. ASSUME NEW s \in Starts, Reuse(s) PROVE TorInv'
  <2>1. warm' \in BOOLEAN
    BY <1>0, <1>2 DEF Reuse, TorTypeOK
  <2> QED
    BY <1>2, <2>1, ReturnKeeps DEF Reuse
<1>3. ASSUME NEW s \in Starts, Refuse(s) PROVE TorInv'
  <2>1. warm' \in BOOLEAN
    BY <1>0, <1>3 DEF Refuse, TorTypeOK
  <2> QED
    BY <1>3, <2>1, ReturnKeeps DEF Refuse
<1>4. ASSUME NEW s \in Starts, Launch(s) PROVE TorInv'
  <2> USE <1>0, <1>4 DEF Launch
  <2>1. TorTypeOK'
    <3>1. start' \in [Starts -> StartStates]
      BY DEF TorTypeOK, StartStates
    <3>2. inbox' \in Seq({"start", "stop"})
      BY DEF TorTypeOK
    <3>3. /\ torJob' \in 0 .. MaxStarts /\ startLock' \in 0 .. MaxStarts
          /\ calls' \in 0 .. MaxStarts /\ taps' \in 0 .. MaxTaps /\ deaths' \in 0 .. MaxDeaths
      BY StartOrNone, TorAssumption DEF TorTypeOK
    <3> QED
      BY <3>1, <3>2, <3>3 DEF TorTypeOK
  <2>2. LaunchRecorded'
    BY DEF LaunchRecorded, TorTypeOK
  <2>3. TorOnce'
    BY DEF TorOnce, LaunchRecorded, TorTypeOK
  <2>4. LockHeld'
    BY DEF TorTypeOK, StartStates, LockHeld
  <2>5. PrepareCancellable'
    BY DEF TorTypeOK, StartStates, PrepareCancellable
  <2> QED
    BY <2>1, <2>2, <2>3, <2>4, <2>5 DEF TorInv
<1>5. ASSUME NEW s \in Starts, PollReady(s) PROVE TorInv'
  <2>1. warm' \in BOOLEAN
    BY <1>0, <1>5 DEF PollReady, TorTypeOK
  <2> QED
    BY <1>5, <2>1, ReturnKeeps DEF PollReady
<1>6. ASSUME NEW s \in Starts, PollFails(s) PROVE TorInv'
  <2>1. warm' \in BOOLEAN
    BY <1>0, <1>6 DEF PollFails, TorTypeOK
  <2> QED
    BY <1>6, <2>1, ReturnKeeps DEF PollFails
<1>7. ASSUME NEW s \in Starts, Cap(s) PROVE TorInv'
  <2> USE <1>0, <1>7 DEF Cap
  <2>1. TorTypeOK'
    <3>1. start' \in [Starts -> StartStates]
      BY DEF TorTypeOK, StartStates
    <3>2. inbox' \in Seq({"start", "stop"})
      BY DEF TorTypeOK
    <3>3. /\ torJob' \in 0 .. MaxStarts /\ startLock' \in 0 .. MaxStarts
          /\ calls' \in 0 .. MaxStarts /\ taps' \in 0 .. MaxTaps /\ deaths' \in 0 .. MaxDeaths
      BY StartOrNone, TorAssumption DEF TorTypeOK
    <3> QED
      BY <3>1, <3>2, <3>3 DEF TorTypeOK
  <2>2. LaunchRecorded'
    BY DEF LaunchRecorded, TorTypeOK
  <2>3. TorOnce'
    BY DEF TorOnce, LaunchRecorded, TorTypeOK
  <2>4. LockHeld'
    BY DEF TorTypeOK, StartStates, LockHeld
  <2>5. PrepareCancellable'
    BY DEF TorTypeOK, StartStates, PrepareCancellable
  <2> QED
    BY <2>1, <2>2, <2>3, <2>4, <2>5 DEF TorInv
<1>8. ASSUME NEW s \in Starts, ResumeCancelled(s) PROVE TorInv'
  <2> USE <1>0, <1>8 DEF ResumeCancelled, Unlock
  <2>1. TorTypeOK'
    <3>1. start' \in [Starts -> StartStates]
      BY DEF TorTypeOK, StartStates
    <3>2. inbox' \in Seq({"start", "stop"})
      BY DEF TorTypeOK
    <3>3. /\ torJob' \in 0 .. MaxStarts /\ startLock' \in 0 .. MaxStarts
          /\ calls' \in 0 .. MaxStarts /\ taps' \in 0 .. MaxTaps /\ deaths' \in 0 .. MaxDeaths
      BY StartOrNone, TorAssumption DEF TorTypeOK
    <3> QED
      BY <3>1, <3>2, <3>3 DEF TorTypeOK
  <2>2. LaunchRecorded'
    BY DEF LaunchRecorded, TorTypeOK
  <2>3. TorOnce'
    BY DEF TorOnce, LaunchRecorded, TorTypeOK
  <2>4. LockHeld'
    BY DEF TorTypeOK, StartStates, LockHeld
  <2>5. PrepareCancellable'
    BY DEF TorTypeOK, StartStates, PrepareCancellable
  <2> QED
    BY <2>1, <2>2, <2>3, <2>4, <2>5 DEF TorInv
<1>9. ASSUME NEW s \in Starts, ResumeReady(s) PROVE TorInv'
  <2> USE <1>0, <1>9 DEF ResumeReady, Unlock
  <2>1. TorTypeOK'
    <3>1. start' \in [Starts -> StartStates]
      BY DEF TorTypeOK, StartStates
    <3>2. inbox' \in Seq({"start", "stop"})
      BY DEF TorTypeOK
    <3>3. /\ torJob' \in 0 .. MaxStarts /\ startLock' \in 0 .. MaxStarts
          /\ calls' \in 0 .. MaxStarts /\ taps' \in 0 .. MaxTaps /\ deaths' \in 0 .. MaxDeaths
      BY StartOrNone, TorAssumption DEF TorTypeOK
    <3> QED
      BY <3>1, <3>2, <3>3 DEF TorTypeOK
  <2>2. LaunchRecorded'
    BY DEF LaunchRecorded, TorTypeOK
  <2>3. TorOnce'
    BY DEF TorOnce, LaunchRecorded, TorTypeOK
  <2>4. LockHeld'
    BY DEF TorTypeOK, StartStates, LockHeld
  <2>5. PrepareCancellable'
    BY DEF TorTypeOK, StartStates, PrepareCancellable
  <2> QED
    BY <2>1, <2>2, <2>3, <2>4, <2>5 DEF TorInv
<1>10. ASSUME NEW s \in Starts, ResumeFailed(s) PROVE TorInv'
  <2> USE <1>0, <1>10 DEF ResumeFailed, Unlock
  <2>1. TorTypeOK'
    <3>1. start' \in [Starts -> StartStates]
      BY DEF TorTypeOK, StartStates
    <3>2. inbox' \in Seq({"start", "stop"})
      BY ForegroundTyped DEF TorTypeOK
    <3>3. /\ torJob' \in 0 .. MaxStarts /\ startLock' \in 0 .. MaxStarts
          /\ calls' \in 0 .. MaxStarts /\ taps' \in 0 .. MaxTaps /\ deaths' \in 0 .. MaxDeaths
      BY StartOrNone, TorAssumption DEF TorTypeOK
    <3> QED
      BY <3>1, <3>2, <3>3 DEF TorTypeOK
  <2>2. LaunchRecorded'
    BY DEF LaunchRecorded, TorTypeOK
  <2>3. TorOnce'
    BY DEF TorOnce, LaunchRecorded, TorTypeOK
  <2>4. LockHeld'
    BY DEF TorTypeOK, StartStates, LockHeld
  <2>5. PrepareCancellable'
    BY DEF TorTypeOK, StartStates, PrepareCancellable
  <2> QED
    BY <2>1, <2>2, <2>3, <2>4, <2>5 DEF TorInv
<1>11. ASSUME NEW s \in Starts, Applied(s) PROVE TorInv'
  <2> USE <1>0, <1>11 DEF Applied, ControllerStop
  <2>1. TorTypeOK'
    <3>1. start' \in [Starts -> StartStates]
      BY DEF TorTypeOK, StartStates
    <3>2. inbox' \in Seq({"start", "stop"})
      BY ForegroundTyped DEF TorTypeOK
    <3>3. /\ torJob' \in 0 .. MaxStarts /\ startLock' \in 0 .. MaxStarts
          /\ calls' \in 0 .. MaxStarts /\ taps' \in 0 .. MaxTaps /\ deaths' \in 0 .. MaxDeaths
      BY StartOrNone, TorAssumption DEF TorTypeOK
    <3>4. /\ UNCHANGED <<ring, everStarted, warm, launches, daemon, present>>
          /\ torMode' \in BOOLEAN /\ active' \in BOOLEAN /\ wanted' \in BOOLEAN
          /\ phase' \in {phase, "IDLE"} /\ tunnel' \in {"tor", "down"}
      BY DEF TorTypeOK
    <3> HIDE <1>11 DEF Applied, ControllerStop
    <3> QED
      BY <3>1, <3>2, <3>3, <3>4 DEF TorTypeOK
  <2>2. LaunchRecorded'
    BY DEF LaunchRecorded, TorTypeOK
  <2>3. TorOnce'
    BY DEF TorOnce, LaunchRecorded, TorTypeOK
  <2>4. LockHeld'
    BY DEF TorTypeOK, StartStates, LockHeld
  <2>5. PrepareCancellable'
    BY DEF TorTypeOK, StartStates, PrepareCancellable
  <2> QED
    BY <2>1, <2>2, <2>3, <2>4, <2>5 DEF TorInv
<1>12. ASSUME ServiceStart PROVE TorInv'
  <2> USE <1>0, <1>12 DEF ServiceStart
  <2>1. TorTypeOK'
    <3>1. start' \in [Starts -> StartStates]
      BY DEF TorTypeOK, StartStates
    <3>2. inbox' \in Seq({"start", "stop"})
      BY DEF TorTypeOK
    <3>3. /\ torJob' \in 0 .. MaxStarts /\ startLock' \in 0 .. MaxStarts
          /\ calls' \in 0 .. MaxStarts /\ taps' \in 0 .. MaxTaps /\ deaths' \in 0 .. MaxDeaths
      BY StartOrNone, TorAssumption DEF TorTypeOK
    <3> QED
      BY <3>1, <3>2, <3>3 DEF TorTypeOK
  <2>2. LaunchRecorded'
    BY DEF LaunchRecorded, TorTypeOK
  <2>3. TorOnce'
    BY DEF TorOnce, LaunchRecorded, TorTypeOK
  <2>4. LockHeld'
    BY DEF TorTypeOK, StartStates, LockHeld
  <2>5. PrepareCancellable'
    BY DEF TorTypeOK, StartStates, PrepareCancellable
  <2> QED
    BY <2>1, <2>2, <2>3, <2>4, <2>5 DEF TorInv
<1>13. ASSUME ServiceStop PROVE TorInv'
  <2> USE <1>0, <1>13 DEF ServiceStop
  <2>1. TorTypeOK'
    <3>1. start' \in [Starts -> StartStates]
      BY DEF TorTypeOK, StartStates
    <3>2. inbox' \in Seq({"start", "stop"})
      BY DEF TorTypeOK
    <3>3. /\ torJob' \in 0 .. MaxStarts /\ startLock' \in 0 .. MaxStarts
          /\ calls' \in 0 .. MaxStarts /\ taps' \in 0 .. MaxTaps /\ deaths' \in 0 .. MaxDeaths
      BY StartOrNone, TorAssumption DEF TorTypeOK
    <3> QED
      BY <3>1, <3>2, <3>3 DEF TorTypeOK
  <2>2. LaunchRecorded'
    BY DEF LaunchRecorded, TorTypeOK
  <2>3. TorOnce'
    BY DEF TorOnce, LaunchRecorded, TorTypeOK
  <2>4. LockHeld'
    BY DEF TorTypeOK, StartStates, LockHeld
  <2>5. PrepareCancellable'
    BY DEF TorTypeOK, StartStates, PrepareCancellable
  <2> QED
    BY <2>1, <2>2, <2>3, <2>4, <2>5 DEF TorInv
<1>14. ASSUME ServiceEnds PROVE TorInv'
  <2> USE <1>0, <1>14 DEF ServiceEnds
  <2>1. TorTypeOK'
    <3>1. start' \in [Starts -> StartStates]
      BY DEF TorTypeOK, StartStates
    <3>2. inbox' \in Seq({"start", "stop"})
      BY DEF TorTypeOK
    <3>3. /\ torJob' \in 0 .. MaxStarts /\ startLock' \in 0 .. MaxStarts
          /\ calls' \in 0 .. MaxStarts /\ taps' \in 0 .. MaxTaps /\ deaths' \in 0 .. MaxDeaths
      BY StartOrNone, TorAssumption DEF TorTypeOK
    <3>4. /\ UNCHANGED <<torMode, ring, phase, active, everStarted, warm, launches, daemon, tunnel,
                        wanted>>
          /\ present' \in BOOLEAN
      OBVIOUS
    <3> HIDE <1>14 DEF ServiceEnds
    <3> QED
      BY <3>1, <3>2, <3>3, <3>4 DEF TorTypeOK
  <2>2. LaunchRecorded'
    BY DEF LaunchRecorded, TorTypeOK
  <2>3. TorOnce'
    BY DEF TorOnce, LaunchRecorded, TorTypeOK
  <2>4. LockHeld'
    BY DEF TorTypeOK, StartStates, LockHeld
  <2>5. PrepareCancellable'
    BY DEF TorTypeOK, StartStates, PrepareCancellable
  <2> QED
    BY <2>1, <2>2, <2>3, <2>4, <2>5 DEF TorInv
<1>15. ASSUME TorOn PROVE TorInv'
  <2> USE <1>0, <1>15 DEF TorOn, Tap
  <2>1. TorTypeOK'
    <3>1. start' \in [Starts -> StartStates]
      BY DEF TorTypeOK, StartStates
    <3>2. inbox' \in Seq({"start", "stop"})
      BY DEF TorTypeOK
    <3>3. /\ torJob' \in 0 .. MaxStarts /\ startLock' \in 0 .. MaxStarts
          /\ calls' \in 0 .. MaxStarts /\ taps' \in 0 .. MaxTaps /\ deaths' \in 0 .. MaxDeaths
      BY StartOrNone, TorAssumption DEF TorTypeOK
    <3> QED
      BY <3>1, <3>2, <3>3 DEF TorTypeOK
  <2>2. LaunchRecorded'
    BY DEF LaunchRecorded, TorTypeOK
  <2>3. TorOnce'
    BY DEF TorOnce, LaunchRecorded, TorTypeOK
  <2>4. LockHeld'
    BY DEF TorTypeOK, StartStates, LockHeld
  <2>5. PrepareCancellable'
    BY DEF TorTypeOK, StartStates, PrepareCancellable
  <2> QED
    BY <2>1, <2>2, <2>3, <2>4, <2>5 DEF TorInv
<1>16. ASSUME ConnectViaTor PROVE TorInv'
  <2> USE <1>0, <1>16 DEF ConnectViaTor, Tap
  <2>1. TorTypeOK'
    <3>1. start' \in [Starts -> StartStates]
      BY DEF TorTypeOK, StartStates
    <3>2. inbox' \in Seq({"start", "stop"})
      BY DEF TorTypeOK
    <3>3. /\ torJob' \in 0 .. MaxStarts /\ startLock' \in 0 .. MaxStarts
          /\ calls' \in 0 .. MaxStarts /\ taps' \in 0 .. MaxTaps /\ deaths' \in 0 .. MaxDeaths
      BY StartOrNone, TorAssumption DEF TorTypeOK
    <3> QED
      BY <3>1, <3>2, <3>3 DEF TorTypeOK
  <2>2. LaunchRecorded'
    BY DEF LaunchRecorded, TorTypeOK
  <2>3. TorOnce'
    BY DEF TorOnce, LaunchRecorded, TorTypeOK
  <2>4. LockHeld'
    BY DEF TorTypeOK, StartStates, LockHeld
  <2>5. PrepareCancellable'
    BY DEF TorTypeOK, StartStates, PrepareCancellable
  <2> QED
    BY <2>1, <2>2, <2>3, <2>4, <2>5 DEF TorInv
<1>17. ASSUME CancelTorPrepare PROVE TorInv'
  <2> USE <1>0, <1>17 DEF CancelTorPrepare, Tap, ControllerStop
  <2>1. TorTypeOK'
    <3>1. start' \in [Starts -> StartStates]
      BY CancelMarks
    <3>2. inbox' \in Seq({"start", "stop"})
      BY ForegroundTyped DEF TorTypeOK
    <3>3. /\ torJob' \in 0 .. MaxStarts /\ startLock' \in 0 .. MaxStarts
          /\ calls' \in 0 .. MaxStarts /\ taps' \in 0 .. MaxTaps /\ deaths' \in 0 .. MaxDeaths
      BY StartOrNone, TorAssumption DEF TorTypeOK
    <3> QED
      BY <3>1, <3>2, <3>3 DEF TorTypeOK
  <2>2. LaunchRecorded'
    BY DEF LaunchRecorded, TorTypeOK
  <2>3. TorOnce'
    BY DEF TorOnce, LaunchRecorded, TorTypeOK
  <2>4. LockHeld'
    BY CancelMarks DEF LockHeld
  <2>5. PrepareCancellable'
    BY CancelMarks DEF PrepareCancellable
  <2> QED
    BY <2>1, <2>2, <2>3, <2>4, <2>5 DEF TorInv
<1>18. ASSUME TorOff PROVE TorInv'
  <2> USE <1>0, <1>18 DEF TorOff, Tap, ControllerStop
  <2>1. TorTypeOK'
    <3>1. start' \in [Starts -> StartStates]
      BY CancelMarks
    <3>2. inbox' \in Seq({"start", "stop"})
      BY ForegroundTyped DEF TorTypeOK
    <3>3. /\ torJob' \in 0 .. MaxStarts /\ startLock' \in 0 .. MaxStarts
          /\ calls' \in 0 .. MaxStarts /\ taps' \in 0 .. MaxTaps /\ deaths' \in 0 .. MaxDeaths
      BY StartOrNone, TorAssumption DEF TorTypeOK
    <3> QED
      BY <3>1, <3>2, <3>3 DEF TorTypeOK
  <2>2. LaunchRecorded'
    BY DEF LaunchRecorded, TorTypeOK
  <2>3. TorOnce'
    BY DEF TorOnce, LaunchRecorded, TorTypeOK
  <2>4. LockHeld'
    BY CancelMarks DEF LockHeld
  <2>5. PrepareCancellable'
    BY CancelMarks DEF PrepareCancellable
  <2> QED
    BY <2>1, <2>2, <2>3, <2>4, <2>5 DEF TorInv
<1>19. ASSUME LeaveTor PROVE TorInv'
  <2> USE <1>0, <1>19 DEF LeaveTor, Tap, ControllerStop
  <2>1. TorTypeOK'
    <3>1. start' \in [Starts -> StartStates]
      BY CancelMarks
    <3>2. inbox' \in Seq({"start", "stop"})
      BY ForegroundTyped DEF TorTypeOK
    <3>3. /\ torJob' \in 0 .. MaxStarts /\ startLock' \in 0 .. MaxStarts
          /\ calls' \in 0 .. MaxStarts /\ taps' \in 0 .. MaxTaps /\ deaths' \in 0 .. MaxDeaths
      BY StartOrNone, TorAssumption DEF TorTypeOK
    <3> QED
      BY <3>1, <3>2, <3>3 DEF TorTypeOK
  <2>2. LaunchRecorded'
    BY DEF LaunchRecorded, TorTypeOK
  <2>3. TorOnce'
    BY DEF TorOnce, LaunchRecorded, TorTypeOK
  <2>4. LockHeld'
    BY CancelMarks DEF LockHeld
  <2>5. PrepareCancellable'
    BY CancelMarks DEF PrepareCancellable
  <2> QED
    BY <2>1, <2>2, <2>3, <2>4, <2>5 DEF TorInv
<1>20. ASSUME RingStop PROVE TorInv'
  <2> USE <1>0, <1>20 DEF RingStop, Tap, ControllerStop
  <2>1. TorTypeOK'
    <3>1. start' \in [Starts -> StartStates]
      BY DEF TorTypeOK, StartStates
    <3>2. inbox' \in Seq({"start", "stop"})
      BY ForegroundTyped DEF TorTypeOK
    <3>3. /\ torJob' \in 0 .. MaxStarts /\ startLock' \in 0 .. MaxStarts
          /\ calls' \in 0 .. MaxStarts /\ taps' \in 0 .. MaxTaps /\ deaths' \in 0 .. MaxDeaths
      BY StartOrNone, TorAssumption DEF TorTypeOK
    <3> QED
      BY <3>1, <3>2, <3>3 DEF TorTypeOK
  <2>2. LaunchRecorded'
    BY DEF LaunchRecorded, TorTypeOK
  <2>3. TorOnce'
    BY DEF TorOnce, LaunchRecorded, TorTypeOK
  <2>4. LockHeld'
    BY DEF TorTypeOK, StartStates, LockHeld
  <2>5. PrepareCancellable'
    BY DEF TorTypeOK, StartStates, PrepareCancellable
  <2> QED
    BY <2>1, <2>2, <2>3, <2>4, <2>5 DEF TorInv
<1>21. ASSUME TileOff PROVE TorInv'
  <2> USE <1>0, <1>21 DEF TileOff, Tap, ControllerStop
  <2>1. TorTypeOK'
    <3>1. start' \in [Starts -> StartStates]
      BY DEF TorTypeOK, StartStates
    <3>2. inbox' \in Seq({"start", "stop"})
      BY ForegroundTyped DEF TorTypeOK
    <3>3. /\ torJob' \in 0 .. MaxStarts /\ startLock' \in 0 .. MaxStarts
          /\ calls' \in 0 .. MaxStarts /\ taps' \in 0 .. MaxTaps /\ deaths' \in 0 .. MaxDeaths
      BY StartOrNone, TorAssumption DEF TorTypeOK
    <3> QED
      BY <3>1, <3>2, <3>3 DEF TorTypeOK
  <2>2. LaunchRecorded'
    BY DEF LaunchRecorded, TorTypeOK
  <2>3. TorOnce'
    BY DEF TorOnce, LaunchRecorded, TorTypeOK
  <2>4. LockHeld'
    BY DEF TorTypeOK, StartStates, LockHeld
  <2>5. PrepareCancellable'
    BY DEF TorTypeOK, StartStates, PrepareCancellable
  <2> QED
    BY <2>1, <2>2, <2>3, <2>4, <2>5 DEF TorInv
<1>22. ASSUME TunnelAlone PROVE TorInv'
  <2> USE <1>0, <1>22 DEF TunnelAlone, Tap
  <2>1. TorTypeOK'
    <3>1. start' \in [Starts -> StartStates]
      BY DEF TorTypeOK, StartStates
    <3>2. inbox' \in Seq({"start", "stop"})
      BY DEF TorTypeOK
    <3>3. /\ torJob' \in 0 .. MaxStarts /\ startLock' \in 0 .. MaxStarts
          /\ calls' \in 0 .. MaxStarts /\ taps' \in 0 .. MaxTaps /\ deaths' \in 0 .. MaxDeaths
      BY StartOrNone, TorAssumption DEF TorTypeOK
    <3> QED
      BY <3>1, <3>2, <3>3 DEF TorTypeOK
  <2>2. LaunchRecorded'
    BY DEF LaunchRecorded, TorTypeOK
  <2>3. TorOnce'
    BY DEF TorOnce, LaunchRecorded, TorTypeOK
  <2>4. LockHeld'
    BY DEF TorTypeOK, StartStates, LockHeld
  <2>5. PrepareCancellable'
    BY DEF TorTypeOK, StartStates, PrepareCancellable
  <2> QED
    BY <2>1, <2>2, <2>3, <2>4, <2>5 DEF TorInv
<1>23. ASSUME DaemonUp PROVE TorInv'
  <2> USE <1>0, <1>23 DEF DaemonUp
  <2>1. TorTypeOK'
    <3>1. start' \in [Starts -> StartStates]
      BY DEF TorTypeOK, StartStates
    <3>2. inbox' \in Seq({"start", "stop"})
      BY DEF TorTypeOK
    <3>3. /\ torJob' \in 0 .. MaxStarts /\ startLock' \in 0 .. MaxStarts
          /\ calls' \in 0 .. MaxStarts /\ taps' \in 0 .. MaxTaps /\ deaths' \in 0 .. MaxDeaths
      BY StartOrNone, TorAssumption DEF TorTypeOK
    <3> QED
      BY <3>1, <3>2, <3>3 DEF TorTypeOK
  <2>2. LaunchRecorded'
    BY DEF LaunchRecorded, TorTypeOK
  <2>3. TorOnce'
    BY DEF TorOnce, LaunchRecorded, TorTypeOK
  <2>4. LockHeld'
    BY DEF TorTypeOK, StartStates, LockHeld
  <2>5. PrepareCancellable'
    BY DEF TorTypeOK, StartStates, PrepareCancellable
  <2> QED
    BY <2>1, <2>2, <2>3, <2>4, <2>5 DEF TorInv
<1>24. ASSUME DaemonDies PROVE TorInv'
  <2> USE <1>0, <1>24 DEF DaemonDies
  <2>1. TorTypeOK'
    <3>1. start' \in [Starts -> StartStates]
      BY DEF TorTypeOK, StartStates
    <3>2. inbox' \in Seq({"start", "stop"})
      BY DEF TorTypeOK
    <3>3. /\ torJob' \in 0 .. MaxStarts /\ startLock' \in 0 .. MaxStarts
          /\ calls' \in 0 .. MaxStarts /\ taps' \in 0 .. MaxTaps /\ deaths' \in 0 .. MaxDeaths
      BY StartOrNone, TorAssumption DEF TorTypeOK
    <3> QED
      BY <3>1, <3>2, <3>3 DEF TorTypeOK
  <2>2. LaunchRecorded'
    BY DEF LaunchRecorded, TorTypeOK
  <2>3. TorOnce'
    BY DEF TorOnce, LaunchRecorded, TorTypeOK
  <2>4. LockHeld'
    BY DEF TorTypeOK, StartStates, LockHeld
  <2>5. PrepareCancellable'
    BY DEF TorTypeOK, StartStates, PrepareCancellable
  <2> QED
    BY <2>1, <2>2, <2>3, <2>4, <2>5 DEF TorInv
<1>25. ASSUME ProcessDies PROVE TorInv'
  <2> USE <1>0, <1>25 DEF ProcessDies, NoStart
  <2>1. TorTypeOK'
    <3>1. start' \in [Starts -> StartStates]
      BY DEF TorTypeOK, StartStates
    <3>2. inbox' \in Seq({"start", "stop"})
      BY DEF TorTypeOK
    <3>3. /\ torJob' \in 0 .. MaxStarts /\ startLock' \in 0 .. MaxStarts
          /\ calls' \in 0 .. MaxStarts /\ taps' \in 0 .. MaxTaps /\ deaths' \in 0 .. MaxDeaths
      BY StartOrNone, TorAssumption DEF TorTypeOK
    <3> QED
      BY <3>1, <3>2, <3>3 DEF TorTypeOK
  <2>2. LaunchRecorded'
    BY DEF LaunchRecorded, TorTypeOK
  <2>3. TorOnce'
    BY DEF TorOnce, LaunchRecorded, TorTypeOK
  <2>4. LockHeld'
    BY DEF TorTypeOK, StartStates, LockHeld
  <2>5. PrepareCancellable'
    BY DEF TorTypeOK, StartStates, PrepareCancellable
  <2> QED
    BY <2>1, <2>2, <2>3, <2>4, <2>5 DEF TorInv
<1>26. CASE UNCHANGED torVars
  <2> USE <1>0, <1>26 DEF torVars
  <2>1. TorTypeOK'
    <3>1. start' \in [Starts -> StartStates]
      BY DEF TorTypeOK, StartStates
    <3>2. inbox' \in Seq({"start", "stop"})
      BY DEF TorTypeOK
    <3>3. /\ torJob' \in 0 .. MaxStarts /\ startLock' \in 0 .. MaxStarts
          /\ calls' \in 0 .. MaxStarts /\ taps' \in 0 .. MaxTaps /\ deaths' \in 0 .. MaxDeaths
      BY StartOrNone, TorAssumption DEF TorTypeOK
    <3> QED
      BY <3>1, <3>2, <3>3 DEF TorTypeOK
  <2>2. LaunchRecorded'
    BY DEF LaunchRecorded, TorTypeOK
  <2>3. TorOnce'
    BY DEF TorOnce, LaunchRecorded, TorTypeOK
  <2>4. LockHeld'
    BY DEF TorTypeOK, StartStates, LockHeld
  <2>5. PrepareCancellable'
    BY DEF TorTypeOK, StartStates, PrepareCancellable
  <2> QED
    BY <2>1, <2>2, <2>3, <2>4, <2>5 DEF TorInv
<1> QED
  BY <1>1, <1>2, <1>3, <1>4, <1>5, <1>6, <1>7, <1>8, <1>9, <1>10, <1>11,
     <1>12, <1>13, <1>14, <1>15, <1>16, <1>17, <1>18, <1>19, <1>20, <1>21,
     <1>22, <1>23, <1>24, <1>25, <1>26
     DEF TorNext, Coroutine, Bootstrap, Resume

\* Every reachable state satisfies the invariant.
THEOREM Invariance == TorSpec => []TorInv
<1>1. TorInit => TorInv
  BY InitTorInv
<1>2. TorInv /\ [TorNext]_torVars => TorInv'
  BY StepTorInv
<1> QED
  BY <1>1, <1>2, PTL DEF TorSpec

\* Types are kept by every coroutine, command and death of the Tor lane.
THEOREM TypeCorrect == TorSpec => []TorTypeOK
<1>1. TorInv => TorTypeOK
  BY DEF TorInv
<1> QED
  BY <1>1, Invariance, PTL

\* GuardianOnionProxyManager launches tor at most once in a process, whatever
\* was cancelled, capped or reaped before and however often start() is called.
THEOREM TorOnceAlways == TorSpec => []TorOnce
<1>1. TorInv => TorOnce
  BY DEF TorInv
<1> QED
  BY <1>1, Invariance, PTL

\* connectViaTor leaves no start behind that nobody can cancel: turning Tor
\* off, another tunnel, a tap on the ring or a new start always finds it.
THEOREM PrepareCancellableAlways == TorSpec => []PrepareCancellable
<1>1. TorInv => PrepareCancellable
  BY DEF TorInv
<1> QED
  BY <1>1, Invariance, PTL

\* startLock of TorControllerImpl is held by whichever bootstrap looks at the
\* daemon or launches it, so never by two.
THEOREM BootstrapsExclusive == TorSpec => []LockHeld
<1>1. TorInv => LockHeld
  BY DEF TorInv
<1> QED
  BY <1>1, Invariance, PTL

-----------------------------------------------------------------------------
(***************************************************************************)
(* Whatever shows work in progress has somebody at work on it.             *)
(***************************************************************************)

\* Before the first tap nothing is shown and nothing is locked.
LEMMA InitRingOwned == ASSUME TorInit PROVE RingOwned
  BY DEF TorInit, RingOwned, Starts

\* A step of one start leaves the others alone and stays at work, or lets go
\* of the ring and the lock.
LEMMA StartMoves ==
  ASSUME TorTypeOK, RingOwned, NEW s \in Starts, start[s].pc # "none",
         start' \in [Starts -> StartStates], \A u \in Starts \ {s} : start'[u] = start[u],
         calls' = calls,
         ring' => ring /\ torJob' = torJob,
         torJob' \in {torJob, 0},
         ring' /\ torJob' = s => /\ start'[s].pc \in {"enter", "launch", "poll", "back"}
                                 /\ ~start'[s].cancelled,
         startLock' \in {startLock, s, 0},
         startLock' = s => start'[s].pc \in {"launch", "poll", "back"}
  PROVE  RingOwned'
<1>1. ring' => /\ torJob' # 0 /\ start'[torJob'].pc \in {"enter", "launch", "poll", "back"}
               /\ ~start'[torJob'].cancelled
  <2>0. ring' => torJob # 0
    BY DEF RingOwned
  <2>1. SUFFICES ASSUME ring', torJob' # s
                 PROVE  /\ start'[torJob'].pc \in {"enter", "launch", "poll", "back"}
                        /\ ~start'[torJob'].cancelled
    BY <2>0
  <2>2. torJob' = torJob /\ torJob \in Starts \ {s}
    BY <2>0, <2>1, TorAssumption DEF TorTypeOK, Starts
  <2> QED
    BY <2>1, <2>2 DEF RingOwned
<1>2. startLock' # 0 => start'[startLock'].pc \in {"launch", "poll", "back"}
  <2>1. SUFFICES ASSUME startLock' # 0, startLock' # s
                 PROVE  start'[startLock'].pc \in {"launch", "poll", "back"}
    OBVIOUS
  <2>2. startLock' = startLock /\ startLock \in Starts \ {s}
    BY <2>1, TorAssumption DEF TorTypeOK, Starts
  <2> QED
    BY <2>1, <2>2 DEF RingOwned
<1>3. \A u \in Starts : u > calls' => start'[u] = NoStart
  <2>1. ~(s > calls)
    BY DEF RingOwned, NoStart
  <2> QED
    BY <2>1 DEF RingOwned
<1>4. torJob' <= calls'
  BY DEF RingOwned, TorTypeOK
<1> QED
  BY <1>1, <1>2, <1>3, <1>4 DEF RingOwned

\* Every step preserves RingOwned: one step of the proof per action.
LEMMA StepRingOwned == ASSUME TorInv, RingOwned, [TorNext]_torVars PROVE RingOwned'
<1> USE DEF uiVars, controllerVars, managerVars, idleVars, StartAt
<1>0. TorTypeOK /\ PrepareCancellable /\ start \in [Starts -> StartStates] /\ TorTypeOK'
  BY StepTorInv DEF TorInv, TorTypeOK
<1>a. start' \in [Starts -> StartStates]
  BY <1>0 DEF TorTypeOK
<1>b. 0 \notin Starts
  BY StartOrNone
<1>1. ASSUME NEW s \in Starts, StartLocked(s) PROVE RingOwned'
  <2> USE <1>0, <1>1
  <2>1. start'[s].pc = "back" \/ (start'[s].pc = "launch" /\ startLock' = s)
    BY LockTaken
  <2>2. start'[s].cancelled = start[s].cancelled /\ \A u \in Starts \ {s} : start'[u] = start[u]
    BY DEF StartLocked, StartStates
  <2>3. UNCHANGED <<calls, ring, torJob>> /\ startLock' \in {startLock, s} /\ start[s].pc # "none"
    BY DEF StartLocked
  <2> QED
    BY <1>a, <1>b, <2>1, <2>2, <2>3, StartMoves DEF RingOwned
<1>2. ASSUME NEW s \in Starts, Bootstrap(s) PROVE RingOwned'
  <2> USE <1>0, <1>2 DEF Bootstrap, Reuse, Refuse, Launch, PollReady, PollFails, Return
  <2>1. start'[s].pc \in {"poll", "back"} /\ start'[s].cancelled = start[s].cancelled
    BY DEF StartStates
  <2>2. \A u \in Starts \ {s} : start'[u] = start[u]
    OBVIOUS
  <2>3. UNCHANGED <<calls, ring, torJob, startLock>> /\ start[s].pc # "none"
    OBVIOUS
  <2> QED
    BY <1>a, <1>b, <2>1, <2>2, <2>3, StartMoves DEF RingOwned
<1>3. ASSUME NEW s \in Starts, Cap(s) PROVE RingOwned'
  <2>1. /\ start' = [start EXCEPT ![s].capped = TRUE] /\ start[s].pc # "none"
        /\ UNCHANGED <<calls, ring, torJob, startLock>>
    BY <1>3 DEF Cap
  <2>2. start'[s].pc = start[s].pc /\ start'[s].cancelled = start[s].cancelled
    BY <1>0, <2>1 DEF StartStates
  <2>3. \A u \in Starts \ {s} : start'[u] = start[u]
    BY <1>0, <2>1
  <2>4. ring' /\ torJob' = s => /\ start'[s].pc \in {"enter", "launch", "poll", "back"}
                                /\ ~start'[s].cancelled
    BY <1>b, <2>1, <2>2 DEF RingOwned
  <2>5. startLock' = s => start'[s].pc \in {"launch", "poll", "back"}
    BY <1>b, <2>1, <2>2 DEF RingOwned
  <2>6. ring' => ring /\ torJob' = torJob
    BY <2>1
  <2> QED
    BY <1>0, <1>a, <2>1, <2>3, <2>4, <2>5, <2>6, StartMoves
<1>4. ASSUME NEW s \in Starts, Resume(s) PROVE RingOwned'
  <2> USE <1>0, <1>4 DEF Resume, ResumeCancelled, ResumeReady, ResumeFailed, Applied, Unlock
  <2>1. \A u \in Starts \ {s} : start'[u] = start[u]
    OBVIOUS
  <2>2. calls' = calls /\ start[s].pc # "none" /\ startLock' \in {startLock, 0}
    OBVIOUS
  <2>3. startLock' # s
    BY <1>b DEF RingOwned
  <2>4. (ring' = ring /\ torJob' = torJob /\ (ring => torJob # s)) \/ ~ring'
    BY <1>b DEF RingOwned
  <2>5. torJob' \in {torJob, 0}
    OBVIOUS
  <2> QED
    BY <1>a, <1>b, <2>1, <2>2, <2>3, <2>4, <2>5, StartMoves DEF RingOwned
<1>5. ASSUME ConnectViaTor PROVE RingOwned'
  <2> USE <1>0, <1>5, TorAssumption DEF ConnectViaTor
  <2>1. calls + 1 \in Starts /\ start[calls + 1] = NoStart
    BY DEF TorTypeOK, Starts, RingOwned
  <2>2. /\ start'[calls + 1].pc = "enter" /\ ~start'[calls + 1].cancelled
        /\ \A u \in Starts \ {calls + 1} : start'[u] = start[u]
    BY <2>1 DEF NoStart
  <2>3. startLock # calls + 1
    BY <1>b, <2>1 DEF RingOwned, NoStart
  <2>4. startLock # 0 => startLock \in Starts \ {calls + 1}
    BY <2>3 DEF TorTypeOK, Starts
  <2>5. startLock' # 0 => start'[startLock'].pc \in {"launch", "poll", "back"}
    BY <2>2, <2>4 DEF RingOwned
  <2>6. \A u \in Starts : u > calls' => start'[u] = NoStart
    BY <2>2 DEF RingOwned, TorTypeOK, Starts
  <2>7. torJob' = calls + 1 /\ torJob' # 0 /\ torJob' <= calls'
    BY <1>b, <2>1 DEF TorTypeOK
  <2> QED
    BY <2>2, <2>5, <2>6, <2>7 DEF RingOwned
<1>6. ASSUME CancelTorPrepare \/ TorOff \/ LeaveTor PROVE RingOwned'
  <2> USE <1>0, <1>6
  <2>1. start' = Cancelled /\ torJob' = 0 /\ ~ring' /\ UNCHANGED <<calls, startLock>>
    BY DEF CancelTorPrepare, TorOff, LeaveTor
  <2>2. startLock' # 0 => start'[startLock'].pc \in {"launch", "poll", "back"}
    <3>1. startLock # 0 => startLock \in Starts
      BY TorAssumption DEF TorTypeOK, Starts
    <3> QED
      BY <2>1, <3>1, CancelMarks DEF RingOwned
  <2>3. \A u \in Starts : u > calls' => start'[u] = NoStart
    <3>1. SUFFICES ASSUME NEW u \in Starts, u > calls PROVE Cancelled[u] = NoStart
      BY <2>1
    <3>2. start[u] = NoStart /\ start[u].pc = "none"
      BY <3>1 DEF RingOwned, NoStart
    <3>3. torJob # u
      BY <3>1 DEF RingOwned, TorTypeOK, Starts
    <3> QED
      BY <3>2, <3>3 DEF Cancelled
  <2>4. torJob' <= calls'
    BY <2>1 DEF TorTypeOK
  <2> QED
    BY <2>1, <2>2, <2>3, <2>4 DEF RingOwned
<1>7. ASSUME ProcessDies PROVE RingOwned'
  <2>1. \A u \in Starts : u > calls' => start'[u] = NoStart
    <3>1. SUFFICES ASSUME NEW u \in Starts, u > calls PROVE start'[u] = NoStart
      BY <1>7 DEF ProcessDies
    <3>2. start[u].pc = "none"
      BY <3>1 DEF RingOwned, NoStart
    <3> QED
      BY <1>7, <3>2 DEF ProcessDies
  <2>2. torJob' <= calls'
    BY <1>0, <1>7 DEF ProcessDies, TorTypeOK
  <2> QED
    BY <1>7, <2>1, <2>2 DEF ProcessDies, RingOwned
<1>8. ASSUME UNCHANGED <<ring, torJob, startLock, start, calls>> PROVE RingOwned'
  BY <1>8 DEF RingOwned
<1>9. CASE ServiceStart \/ ServiceStop \/ ServiceEnds
  BY <1>8, <1>9 DEF ServiceStart, ServiceStop, ServiceEnds
<1>10. CASE TorOn \/ RingStop \/ TileOff \/ TunnelAlone
  BY <1>8, <1>10 DEF TorOn, RingStop, TileOff, TunnelAlone
<1>11. CASE DaemonUp \/ DaemonDies \/ UNCHANGED torVars
  BY <1>8, <1>11 DEF DaemonUp, DaemonDies, torVars
<1> QED
  BY <1>1, <1>2, <1>3, <1>4, <1>5, <1>6, <1>7, <1>9, <1>10, <1>11 DEF TorNext, Coroutine

\* _torBootstrap never shows a preparation that no start of connectViaTor works
\* on, and startLock is never left locked behind a coroutine that has ended,
\* was cancelled or died: what makes the spinner able to end.
THEOREM RingOwnedAlways == TorSpec => []RingOwned
<1>1. TorInit => TorInv /\ RingOwned
  BY InitTorInv, InitRingOwned
<1>2. TorInv /\ RingOwned /\ [TorNext]_torVars => (TorInv /\ RingOwned)'
  BY StepTorInv, StepRingOwned
<1> QED
  BY <1>1, <1>2, PTL DEF TorSpec

-----------------------------------------------------------------------------
(***************************************************************************)
(* The lanes composed.  A step of the app is a step of one lane and leaves *)
(* the others at rest, so what each lane's steps preserve holds of every   *)
(* behaviour of LanesSpec.                                                 *)
(***************************************************************************)

\* A step of the app is, for each lane, a step of that lane or none.
LEMMA LaneSteps ==
  ASSUME [LanesNext]_lanesVars
  PROVE  /\ [TorNext]_torVars /\ [LocNext]_locVars /\ [HotspotNext]_hotspotVars
         /\ [VaultNext]_vaultVars
         /\ [StatusNext]_statusVars /\ [GateNext]_gateVars /\ [FreeNext]_freeVars
         /\ lane' = lane
  BY DEF LanesNext, lanesVars

\* The initial states satisfy every lane's invariant.
LEMMA InitLanesInv == ASSUME LanesInit PROVE LanesInv
<1>1. TorInv /\ RingOwned
  BY InitTorInv, InitRingOwned DEF LanesInit
<1>2. LocInv /\ HotspotInv /\ VaultInv /\ FreeInv
  BY InitLocInv, InitHotspotInv, InitVaultInv, InitFreeInv DEF LanesInit
<1>3. StatusTypeOK /\ GateTypeOK /\ ListsOwned
  BY InitListsOwned DEF LanesInit
<1> QED
  BY <1>1, <1>2, <1>3 DEF LanesInv, LanesInit, SpinnersOwned

\* Every step preserves it: one step of the proof per lane.
LEMMA StepLanesInv == ASSUME LanesInv, [LanesNext]_lanesVars PROVE LanesInv'
<1>0. /\ TorInv /\ RingOwned /\ LocInv /\ HotspotInv /\ VaultInv /\ FreeInv
      /\ StatusTypeOK /\ GateTypeOK /\ ChecksOwned /\ FetchOwned /\ SweepOwned
      /\ lane \in LaneNames
  BY DEF LanesInv, SpinnersOwned, ListsOwned
<1>1. TorInv' /\ RingOwned'
  BY <1>0, LaneSteps, StepTorInv, StepRingOwned
<1>2. LocInv'
  BY <1>0, LaneSteps, StepLocInv
<1>3. HotspotInv'
  BY <1>0, LaneSteps, HotspotStep
<1>4. VaultInv'
  BY <1>0, LaneSteps, StepVaultInv
<1>5. StatusTypeOK' /\ ChecksOwned'
  BY <1>0, LaneSteps, StepChecksOwned
<1>6. GateTypeOK' /\ FetchOwned'
  BY <1>0, LaneSteps, StepFetchOwned
<1>7. FreeInv' /\ SweepOwned'
  BY <1>0, LaneSteps, StepFreeInv, StepSweepOwned
<1>8. lane' \in LaneNames
  BY <1>0, LaneSteps DEF LaneNames
<1> QED
  BY <1>1, <1>2, <1>3, <1>4, <1>5, <1>6, <1>7, <1>8 DEF LanesInv, SpinnersOwned, ListsOwned

\* Every reachable state of the lanes satisfies every lane's invariant,
\* whichever of them moves: registered parts of the app disturb none of each
\* other's promises.
THEOREM LanesInvariance == LanesSpec => []LanesInv
<1>1. LanesInit => LanesInv
  BY InitLanesInv
<1>2. LanesInv /\ [LanesNext]_lanesVars => LanesInv'
  BY StepLanesInv
<1> QED
  BY <1>1, <1>2, PTL DEF LanesSpec

\* Types are kept in every lane, the status checks' and the VPN Gate
\* catalogue's included.
THEOREM LanesTypeCorrect == LanesSpec => []TypeOK
<1>1. LanesInv => TypeOK
  BY DEF LanesInv, TypeOK, TorInv, LocInv, HotspotInv, VaultInv, FreeInv, ServersTypeOK
<1> QED
  BY <1>1, LanesInvariance, PTL

\* No screen shows work nobody does: behind Tor's ring there is a start that is
\* not cancelled, behind a held startLock one that will release it, behind a
\* server that is being checked a check of StatusChecker, behind a loading
\* catalogue the holder of its lock, behind a busy list a refresh.  It is the
\* safety side of SpinnersEnd, whose liveness is model-checked.
THEOREM SpinnersOwnedAlways == LanesSpec => []SpinnersOwned
<1>1. LanesInv => SpinnersOwned
  BY DEF LanesInv
<1> QED
  BY <1>1, LanesInvariance, PTL

\* What the lanes promise, of the specification the model checker runs: one
\* tor_run_main() and no start past cancelling, one republishing loop, a
\* started engine behind the location shown, a store a restart reads back, rows of one sweep.
THEOREM LanesKeepPromises ==
  LanesSpec => [](/\ TorOnce /\ PrepareCancellable
                  /\ OneLoop /\ ShownIsStarted
                  /\ RestartShowsSame /\ DeletedForgotten /\ PasswordBelongs
                  /\ SweepHonest)
<1>1. LanesInv => TorOnce /\ PrepareCancellable
  BY DEF LanesInv, TorInv
<1>2. LanesInv => OneLoop /\ ShownIsStarted
  BY ShownFollows DEF LanesInv, LocInv
<1>3. LanesInv => RestartShowsSame /\ DeletedForgotten /\ PasswordBelongs
  BY NoneLeftBehind, PasswordInPlace DEF LanesInv, VaultInv
<1>4. LanesInv => SweepHonest
  BY DEF LanesInv, FreeInv
<1> QED
  BY <1>1, <1>2, <1>3, <1>4, LanesInvariance, PTL

\* The hotspot's promise holds of it as well: shares that come one after another
\* leave neither rules nor forwarding behind.
THEOREM LanesLeaveNothing == LanesSpec => []SharesLeaveNothing
<1>1. LanesInv => SharesLeaveNothing
  BY NothingLeft DEF LanesInv
<1> QED
  BY <1>1, LanesInvariance, PTL
=============================================================================
