-------------------------------- MODULE Tor ---------------------------------
(***************************************************************************)
(* The Tor lane: TorControllerImpl and the daemon it launches through      *)
(* GuardianOnionProxyManager, the foreground TorService, the Tor paths of  *)
(* ProxyViewModel and the quick-settings tile.                             *)
(*                                                                         *)
(* The view model, stop(), the tile and TorService run on the main thread, *)
(* where a coroutine keeps the thread until it suspends; the bootstrap     *)
(* runs on an I/O thread.  The tunnel is what the lane sees of it: the     *)
(* stage, and whether Tor carries it.                                      *)
(*                                                                         *)
(* External: the tor daemon, which comes up, or dies, by itself, and the   *)
(* delivery of startService commands.                                      *)
(***************************************************************************)
EXTENDS Naturals, Sequences

CONSTANTS
    MaxStarts,   \* bound on start() calls
    MaxTaps,     \* bound on what people do
    MaxDeaths    \* bound on deaths of the daemon and of the process

ASSUME TorAssumption == MaxStarts \in Nat /\ MaxTaps \in Nat /\ MaxDeaths \in Nat

Starts == 1 .. MaxStarts

VARIABLES
    torMode,    \* _torMode
    ring,       \* _torBootstrap is not null: the ring shows the preparation
    torJob,     \* the start of torJob, 0 when null
    start,      \* [Starts -> record]: the coroutine of each connectViaTor
    calls,      \* start() calls made
    startLock,  \* the start that holds startLock, or 0
    phase, active,
    everStarted, warm,
    daemon,     \* the tor thread of this process
    launches,   \* tor_run_main() calls in this process
    tunnel,     \* "down", "applying", "tor" or "other"
    inbox,      \* startService commands on their way to TorService
    present,    \* TorService is in the foreground
    wanted,     \* history: start() said Started, and nobody has asked for a stop
    taps, deaths

uiVars == <<torMode, ring, torJob, tunnel, taps>>
controllerVars == <<phase, active, startLock, wanted>>
managerVars == <<everStarted, warm, launches>>
torVars == <<uiVars, start, calls, controllerVars, managerVars, daemon, inbox, present, deaths>>

NoStart == [pc |-> "none", cancelled |-> FALSE, capped |-> FALSE, ready |-> FALSE]

TorInit ==
    /\ torMode = FALSE /\ ring = FALSE /\ torJob = 0 /\ tunnel = "down" /\ taps = 0
    /\ start = [s \in Starts |-> NoStart] /\ calls = 0
    /\ phase = "IDLE" /\ active = FALSE /\ startLock = 0 /\ wanted = FALSE
    /\ everStarted = FALSE /\ warm = FALSE /\ launches = 0
    /\ daemon = "off" /\ inbox = <<>> /\ present = FALSE /\ deaths = 0

StartAt(s, pc) == start[s].pc = pc

\* No coroutine is running on the main thread: one that is past launch, and
\* not kept waiting by the lock, would be.
MainFree == ~\E s \in Starts : StartAt(s, "enter") /\ startLock = 0

\* foreground(on): startService, which the system refuses in the background.
Foreground(what) == inbox' \in {inbox, Append(inbox, what)}

\* stop(): the daemon stays warm, the branded service is told.
ControllerStop ==
    /\ active' = FALSE /\ phase' = "IDLE"
    /\ Foreground("stop")

-----------------------------------------------------------------------------
(***************************************************************************)
(* TorControllerImpl.start, called by connectViaTor.                       *)
(***************************************************************************)

\* The lock is free: a live Tor is handed back, else the bootstrap begins.
StartLocked(s) ==
    /\ StartAt(s, "enter") /\ startLock = 0
    /\ \/ /\ start[s].cancelled \/ start[s].capped
          /\ start' = [start EXCEPT ![s].pc = "back"]
          /\ UNCHANGED <<controllerVars, inbox>>
       \/ /\ ~start[s].cancelled /\ ~start[s].capped /\ active
          /\ start' = [start EXCEPT ![s].pc = "back", ![s].ready = TRUE]
          /\ UNCHANGED <<controllerVars, inbox>>
       \/ /\ ~start[s].cancelled /\ ~start[s].capped /\ ~active
          /\ start' = [start EXCEPT ![s].pc = "launch"]
          /\ startLock' = s /\ phase' = "BOOTSTRAPPING"
          /\ Foreground("start")
          /\ UNCHANGED <<active, wanted>>
    /\ UNCHANGED <<uiVars, calls, managerVars, daemon, present, deaths>>

Return(s, ready) == start' = [start EXCEPT ![s].pc = "back", ![s].ready = ready]

\* bootstrap() with a warm service: its port, if it answers; the last status
\* broadcast may still say so of a daemon that has just gone.
Reuse(s) ==
    /\ StartAt(s, "launch") /\ warm
    /\ \/ Return(s, TRUE) /\ UNCHANGED warm
       \/ daemon = "gone" /\ Return(s, FALSE) /\ warm' = FALSE
    /\ UNCHANGED <<uiVars, calls, controllerVars, everStarted, launches, daemon, inbox,
                   present, deaths>>

\* Tor ran before in this process and is not warm: no second launch.
Refuse(s) ==
    /\ StartAt(s, "launch") /\ ~warm /\ everStarted
    /\ Return(s, FALSE)
    /\ UNCHANGED <<uiVars, calls, controllerVars, managerVars, daemon, inbox, present, deaths>>

\* Mutant: the launch is recorded when the daemon is found ready.
LaunchUnmarked(s) ==
    /\ StartAt(s, "launch") /\ ~warm /\ ~everStarted
    /\ launches' = launches + 1
    /\ daemon' = "starting"
    /\ start' = [start EXCEPT ![s].pc = "poll"]
    /\ UNCHANGED <<uiVars, calls, controllerVars, everStarted, warm, inbox, present, deaths>>

\* The launch, which is recorded first.
Launch(s) ==
    /\ StartAt(s, "launch") /\ ~warm /\ ~everStarted
    /\ everStarted' = TRUE
    /\ launches' = launches + 1
    /\ daemon' = "starting"
    /\ start' = [start EXCEPT ![s].pc = "poll"]
    /\ UNCHANGED <<uiVars, calls, controllerVars, warm, inbox, present, deaths>>

\* The poll loop sees 100 %.
PollReady(s) ==
    /\ StartAt(s, "poll") /\ daemon = "on"
    /\ warm' = TRUE
    /\ Return(s, TRUE)
    /\ UNCHANGED <<uiVars, calls, controllerVars, everStarted, launches, daemon, inbox,
                   present, deaths>>

\* It is cancelled, sees the daemon gone, or passes its deadline; or the
\* service could not be bound.
PollFails(s) ==
    /\ StartAt(s, "poll")
    /\ Return(s, FALSE)
    /\ UNCHANGED <<uiVars, calls, controllerVars, managerVars, daemon, inbox, present, deaths>>

\* The cap of connectViaTor around start().
Cap(s) ==
    /\ start[s].pc \in {"enter", "launch", "poll"} /\ MainFree
    /\ ~start[s].capped /\ ~start[s].cancelled
    /\ start' = [start EXCEPT ![s].capped = TRUE]
    /\ UNCHANGED <<uiVars, calls, controllerVars, managerVars, daemon, inbox, present, deaths>>

Unlock(s) == startLock' = IF startLock = s THEN 0 ELSE startLock

\* Back on the main thread.  A cancelled coroutine only releases the lock ...
ResumeCancelled(s) ==
    /\ StartAt(s, "back") /\ MainFree /\ start[s].cancelled
    /\ start' = [start EXCEPT ![s].pc = "done"]
    /\ Unlock(s)
    /\ UNCHANGED <<uiVars, calls, phase, active, wanted, managerVars, daemon, inbox, present,
                   deaths>>

\* ... one whose bootstrap is ready goes on to apply the loopback config; if it
\* found Tor live, and has not waited, it gets here before launch returns, and
\* torJob is assigned afterwards ...
ResumeReady(s) ==
    /\ StartAt(s, "back") /\ MainFree
    /\ ~start[s].cancelled /\ ~start[s].capped /\ start[s].ready
    /\ start' = [start EXCEPT ![s].pc = "apply"]
    /\ Unlock(s)
    /\ active' = TRUE /\ phase' = "READY" /\ wanted' = TRUE
    /\ ring' = FALSE /\ tunnel' = "applying"
    /\ torJob' = 0 \/ (startLock # s /\ torJob' = torJob)
    /\ UNCHANGED <<torMode, taps, calls, managerVars, daemon, inbox, present, deaths>>

\* ... and one that failed, or hit the cap, reports it and stops Tor.
ResumeFailed(s) ==
    /\ StartAt(s, "back") /\ MainFree
    /\ ~start[s].cancelled /\ (start[s].capped \/ ~start[s].ready)
    /\ start' = [start EXCEPT ![s].pc = "done"]
    /\ Unlock(s)
    /\ active' = FALSE /\ phase' = IF start[s].capped THEN "IDLE" ELSE "FAILED"
    /\ Foreground("stop")
    /\ ring' = FALSE /\ torJob' = 0
    /\ UNCHANGED <<wanted, torMode, tunnel, taps, calls, managerVars, daemon, present, deaths>>

\* applyTorConfig: the tunnel comes up through Tor, or Tor is stopped again.
Applied(s) ==
    /\ StartAt(s, "apply") /\ MainFree
    /\ start' = [start EXCEPT ![s].pc = "done"]
    /\ \/ tunnel' = "tor" /\ UNCHANGED <<torMode, phase, active, wanted, inbox>>
       \/ tunnel' = "down" /\ torMode' = FALSE /\ wanted' = FALSE /\ ControllerStop
    /\ UNCHANGED <<ring, torJob, taps, calls, startLock, managerVars, daemon, present, deaths>>

-----------------------------------------------------------------------------
(***************************************************************************)
(* TorService.                                                             *)
(***************************************************************************)

Over == phase = "FAILED" \/ (phase = "IDLE" /\ ~active)

\* ACTION_START: the observer drops the service at once if Tor is over.
ServiceStart ==
    /\ inbox # <<>> /\ Head(inbox) = "start" /\ MainFree
    /\ inbox' = Tail(inbox)
    /\ present' = ~Over
    /\ UNCHANGED <<uiVars, start, calls, controllerVars, managerVars, daemon, deaths>>

\* ACTION_STOP calls the controller's stop(), which sends ACTION_STOP.
ServiceStop ==
    /\ inbox # <<>> /\ Head(inbox) = "stop" /\ MainFree
    /\ active' = FALSE /\ phase' = "IDLE"
    /\ inbox' \in {Tail(inbox), Append(Tail(inbox), "stop")}
    /\ present' = FALSE
    /\ UNCHANGED <<uiVars, start, calls, startLock, wanted, managerVars, daemon, deaths>>

\* The observer sees that Tor is over.
ServiceEnds ==
    /\ present /\ Over /\ MainFree
    /\ present' = FALSE
    /\ UNCHANGED <<uiVars, start, calls, controllerVars, managerVars, daemon, inbox, deaths>>

-----------------------------------------------------------------------------
(***************************************************************************)
(* People.                                                                 *)
(***************************************************************************)

Tap == taps < MaxTaps /\ taps' = taps + 1 /\ MainFree
Busy == tunnel = "applying"
Cancelled == IF torJob = 0 THEN start ELSE [start EXCEPT ![torJob].cancelled = TRUE]
idleVars == <<calls, startLock, managerVars, daemon, present, deaths>>

TorOn ==
    /\ Tap /\ ~torMode /\ torMode' = TRUE
    /\ UNCHANGED <<ring, torJob, tunnel, start, phase, active, wanted, inbox, idleVars>>

\* onRingTap with Tor mode on: connectViaTor.
ConnectViaTor ==
    /\ Tap /\ torMode /\ ~ring /\ tunnel = "down" /\ calls < MaxStarts
    /\ calls' = calls + 1
    /\ start' = [start EXCEPT ![calls + 1].pc = "enter"]
    /\ torJob' = calls + 1 /\ ring' = TRUE
    /\ UNCHANGED <<torMode, tunnel, controllerVars, managerVars, daemon, inbox, present, deaths>>

\* A tap on the preparing ring: cancelTorPrepare.
CancelTorPrepare ==
    /\ Tap /\ ring /\ tunnel = "down"
    /\ start' = Cancelled /\ torJob' = 0 /\ ring' = FALSE
    /\ wanted' = FALSE /\ ControllerStop
    /\ UNCHANGED <<torMode, tunnel, idleVars>>

\* A tap on the connected ring: onStop, stopTorIfRunning.
RingStop ==
    /\ Tap /\ tunnel \in {"tor", "other"}
    /\ tunnel' = "down"
    /\ wanted' = FALSE /\ ControllerStop
    /\ UNCHANGED <<torMode, ring, torJob, start, idleVars>>

\* Mutant: turning Tor off forgets the start instead of cancelling it.
TorOffForgets ==
    /\ Tap /\ torMode
    /\ torMode' = FALSE /\ torJob' = 0 /\ ring' = FALSE
    /\ tunnel' = IF Busy THEN tunnel ELSE "down"
    /\ wanted' = FALSE /\ ControllerStop
    /\ UNCHANGED <<start, idleVars>>

\* setTorMode(false).
TorOff ==
    /\ Tap /\ torMode
    /\ torMode' = FALSE /\ start' = Cancelled /\ torJob' = 0 /\ ring' = FALSE
    /\ tunnel' = IF Busy THEN tunnel ELSE "down"
    /\ wanted' = FALSE /\ ControllerStop
    /\ UNCHANGED idleVars

\* reuseConfig, connectWarp: a tunnel of another kind leaves Tor first.
LeaveTor ==
    /\ Tap /\ torMode /\ ~Busy
    /\ torMode' = FALSE /\ start' = Cancelled /\ torJob' = 0 /\ ring' = FALSE
    /\ tunnel' = "other"
    /\ wanted' = FALSE /\ ControllerStop
    /\ UNCHANGED idleVars

\* The tile: off stops Tor and then the tunnel.
TileOff ==
    /\ Tap /\ active
    /\ tunnel' = IF Busy THEN tunnel ELSE "down"
    /\ wanted' = FALSE /\ ControllerStop
    /\ UNCHANGED <<torMode, ring, torJob, start, idleVars>>

\* The widget or the notification: the tunnel alone goes up or down.
TunnelAlone ==
    /\ Tap /\ ~Busy
    /\ tunnel' = IF tunnel = "down" THEN "other" ELSE "down"
    /\ UNCHANGED <<torMode, ring, torJob, start, phase, active, wanted, inbox, idleVars>>

-----------------------------------------------------------------------------
DaemonUp ==
    /\ daemon = "starting" /\ daemon' = "on"
    /\ UNCHANGED <<uiVars, start, calls, controllerVars, managerVars, inbox, present, deaths>>

DaemonDies ==
    /\ daemon \in {"starting", "on"} /\ deaths < MaxDeaths
    /\ daemon' = "gone" /\ deaths' = deaths + 1
    /\ UNCHANGED <<uiVars, start, calls, controllerVars, managerVars, inbox, present>>

\* The process dies: everything but the bounds starts afresh.
ProcessDies ==
    /\ deaths < MaxDeaths /\ deaths' = deaths + 1
    /\ torMode' = FALSE /\ ring' = FALSE /\ torJob' = 0 /\ tunnel' = "down"
    /\ start' = [s \in Starts |-> IF StartAt(s, "none") THEN NoStart
                                                       ELSE [NoStart EXCEPT !.pc = "done"]]
    /\ phase' = "IDLE" /\ active' = FALSE /\ startLock' = 0 /\ wanted' = FALSE
    /\ everStarted' = FALSE /\ warm' = FALSE /\ launches' = 0
    /\ daemon' = "off" /\ inbox' = <<>> /\ present' = FALSE
    /\ UNCHANGED <<calls, taps>>

Bootstrap(s) == Reuse(s) \/ Refuse(s) \/ Launch(s) \/ PollReady(s) \/ PollFails(s)
Resume(s) == ResumeCancelled(s) \/ ResumeReady(s) \/ ResumeFailed(s) \/ Applied(s)

Coroutine(s) == StartLocked(s) \/ Bootstrap(s) \/ Resume(s)

TorNext ==
    \/ \E s \in Starts : Coroutine(s) \/ Cap(s)
    \/ ServiceStart \/ ServiceStop \/ ServiceEnds
    \/ TorOn \/ ConnectViaTor \/ CancelTorPrepare \/ RingStop \/ TorOff \/ LeaveTor
    \/ TileOff \/ TunnelAlone
    \/ DaemonUp \/ DaemonDies \/ ProcessDies

\* The dispatcher resumes coroutines, and the poll loop has a deadline.
TorFairness ==
    \A s \in Starts : WF_torVars(Coroutine(s))

TorSpec == TorInit /\ [][TorNext]_torVars /\ TorFairness

-----------------------------------------------------------------------------
StartStates ==
    [pc : {"none", "enter", "launch", "poll", "back", "apply", "done"},
     cancelled : BOOLEAN, capped : BOOLEAN, ready : BOOLEAN]

\* Every variable has its type.
TorTypeOK ==
    /\ torMode \in BOOLEAN /\ ring \in BOOLEAN /\ torJob \in 0 .. MaxStarts
    /\ start \in [Starts -> StartStates]
    /\ calls \in 0 .. MaxStarts /\ startLock \in 0 .. MaxStarts
    /\ phase \in {"IDLE", "BOOTSTRAPPING", "READY", "FAILED"} /\ active \in BOOLEAN
    /\ everStarted \in BOOLEAN /\ warm \in BOOLEAN /\ launches \in Nat
    /\ daemon \in {"off", "starting", "on", "gone"}
    /\ tunnel \in {"down", "applying", "tor", "other"}
    /\ inbox \in Seq({"start", "stop"}) /\ present \in BOOLEAN /\ wanted \in BOOLEAN
    /\ taps \in 0 .. MaxTaps /\ deaths \in 0 .. MaxDeaths

\* tor_run_main() is called at most once in a process, whatever is cancelled,
\* capped, failed, stopped, reaped and tried again: a second call aborts the
\* process (OnionProxyManager 106-114).
TorOnce == launches <= 1

\* A start that is still going to route the device through Tor is the one the
\* ring shows and a tap cancels; no path that leaves Tor overlooks it
\* (ProxyViewModel 562: "never an uncancellable multi-minute hang").
PrepareCancellable ==
    \A s \in Starts :
        start[s].pc \in {"enter", "launch", "poll", "back"} /\ ~start[s].cancelled
            => ring /\ torJob = s

\* Bootstraps exclude each other: the one that may look at the daemon, or
\* launch it, holds startLock, and keeps it until it is back.
LockHeld == \A s \in Starts : start[s].pc \in {"launch", "poll"} => startLock = s

\* A launch is on record before it is made, for as long as the process lives.
LaunchRecorded == launches > 0 => everStarted

\* What every step preserves.
TorInv == TorTypeOK /\ LaunchRecorded /\ TorOnce /\ LockHeld /\ PrepareCancellable

\* The ring never shows a preparation that nobody works on, and a lock that is
\* held belongs to a start on its way to release it: the safety side of
\* PrepareEnds.
RingOwned ==
    /\ ring => /\ torJob # 0 /\ start[torJob].pc \in {"enter", "launch", "poll", "back"}
               /\ ~start[torJob].cancelled
    /\ torJob <= calls
    /\ startLock # 0 => start[startLock].pc \in {"launch", "poll", "back"}
    /\ \A s \in Starts : s > calls => start[s] = NoStart

\* The preparation shown on the ring ends, also behind a cancelled start that
\* still holds the lock.
PrepareEnds == ring ~> ~ring

\* start() leaves active true on success (TorController: "leave [active] true
\* with the loopback SOCKS5 up"), until somebody asks for a stop.
StartedStays == wanted => active
=============================================================================
