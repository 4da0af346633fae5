-------------------------------- MODULE DjVpn --------------------------------
(***************************************************************************)
(* The tunnel lifecycle of the app's main process: VpnControllerImpl.apply *)
(* (VpnController.kt), the VpnService that owns the tun (DjVpnService.kt), *)
(* the EngineWatchdog (Watchdog.kt), the in-process proxy of the :engine   *)
(* sidecar (RemoteEngine.kt) and the fault callbacks of the packet router  *)
(* (TunRouter, LeakPolicy.kt).                                             *)
(*                                                                         *)
(* The service launches every start command, stop command, revoke and      *)
(* tun-loss callback, and every watchdog recovery, as a coroutine of its   *)
(* own on a multi-threaded dispatcher, so the model has one process per    *)
(* coroutine, each with a program counter.  A step is one statement group  *)
(* that no other coroutine can split: the body of one synchronized         *)
(* (plumbLock) block, or one unlocked write to a shared field.             *)
(*                                                                         *)
(* An object created by bring-up j (its tun, loopback front, RemoteEngine, *)
(* EngineWatchdog) is named by j.  A socketpair is named by a number;      *)
(* NoPair stands for "none".  A running TunRouter is named by the tun and  *)
(* the socketpair it was constructed with and by who started it.           *)
(***************************************************************************)
EXTENDS Naturals, FiniteSets, Sequences

CONSTANTS
    Jobs,            \* bring-up coroutines, used once each
    StopJobs,        \* coroutines of ACTION_STOP, onRevoke and onTunLost, used once each
    Proxies,         \* proxies the user may apply
    Attempts,        \* BACKOFFS.size, the reconnect attempts of one recovery
    MaxCrashes,      \* bound on engine losses
    MaxRevokes,      \* bound on the OS taking the tun away
    MaxKills,        \* bound on deaths of the main process
    MaxPairs,        \* bound on socketpairs: with that many, routers report no more faults
    Guarded,         \* TRUE: only the ring, tile and widget, which check the stage, are used
    KeystoreFails,   \* TRUE: the Keystore may refuse to encrypt or decrypt the password
    None             \* a null reference

ASSUME JobsAssumption == None \notin Jobs /\ None \notin StopJobs
ASSUME ConfigAssumption == None \notin [proxy : Proxies, pass : BOOLEAN]
ASSUME AttemptsAssumption == Attempts \in Nat \ {0}
ASSUME BoundsAssumption == {MaxCrashes, MaxRevokes, MaxKills, MaxPairs} \subseteq Nat
ASSUME SwitchAssumption == Guarded \in BOOLEAN /\ KeystoreFails \in BOOLEAN

NoPair == 0

\* VpnStage.  STOPPING is declared by the code and published nowhere.
Stages == {"IDLE", "VALIDATING", "CONNECTING", "CONNECTED", "RECONNECTING", "ERROR"}
UpStages == {"CONNECTED", "RECONNECTING"}

\* A ProxyConfig: which proxy, and whether its password is still there.
Cfg == [proxy : Proxies, pass : BOOLEAN]

\* A TunRouter: its tun, its socketpair, and the coroutine that started it.
Starters == {"bringUp", "reconnectEngine"} \X Jobs
Routers == [tun : Jobs, pair : Nat, by : Starters]

EngineStates == {"Stopped", "Running", "Crashed"}

\* The service's references, an EngineWatchdog and a RemoteEngine.
SvcRec == [tun : Jobs \cup {None}, routerEnd : Nat, loopback : Jobs \cup {None},
           engine : Jobs \cup {None}, router : Routers \cup {None}, watchdog : Jobs \cup {None}]
WatchdogRec == [engine : Jobs \cup {None}, observing : BOOLEAN, seen : EngineStates,
                reconnecting : BOOLEAN, cancelled : BOOLEAN]
EngineRec == [state : EngineStates, pair : Nat, loop : Nat]

BringUpPcs == {"none", "enter", "begin", "establish", "plumb", "watch", "route", "assign",
               "check", "probe", "up", "publish", "drop", "lock", "error", "finish", "done"}
StopPcs == {"none", "drop", "lock", "idle", "done"}
RecoveryPcs == {"none", "try", "delay", "plumb", "route", "assign", "result", "publish",
                "drop", "lock", "error", "end"}

VARIABLES
    stage,          \* VpnRuntime.state.stage, what the UI shows
    currentConfig,  \* VpnRuntime.currentConfig
    persisted,      \* the config in SharedPreferences
    validated,      \* history: the configs that passed the pre-flight
    apply,          \* the apply() call in progress: its program counter and config
    inbox,          \* start commands not yet dispatched by the service's main thread
    dropped,        \* history: the last connect came to nothing, with nobody at work
    upJob,          \* DjVpnService.upJob
    connected,      \* DjVpnService.connected
    svc,            \* the service's object references
    bpc, bcfg,      \* bring-up coroutines: program counter and config
    spc,            \* stop, revoke and tun-loss coroutines
    wd,             \* EngineWatchdog instances
    rpc, tries,     \* their recovery coroutines: program counter and failed attempts
    eng,            \* RemoteEngine instances
    pending,        \* watchdogs a router thread has read from the field and is about to call
    pumps,          \* routers whose uplink thread runs
    made,           \* routers started by a startRouter that has yet to assign the field
    openTuns,       \* tun descriptors not yet closed
    osTun,          \* the tun the OS routes the device through
    pairs,          \* number of socketpairs created
    budget          \* what is left of the bounds

vars == <<stage, currentConfig, persisted, validated, apply, inbox, dropped, upJob, connected,
          svc, bpc, bcfg, spc, wd, rpc, tries, eng, pending, pumps, made, openTuns, osTun,
          pairs, budget>>

recVars == <<rpc, tries>>
uiVars == <<currentConfig, persisted, validated, apply, inbox, dropped>>
osVars == <<openTuns, osTun>>

NoSvc == [tun |-> None, routerEnd |-> NoPair, loopback |-> None, engine |-> None,
          router |-> None, watchdog |-> None]
NoWd  == [engine |-> None, observing |-> FALSE, seen |-> "Stopped",
          reconnecting |-> FALSE, cancelled |-> FALSE]
NoEng == [state |-> "Stopped", pair |-> NoPair, loop |-> NoPair]

Init ==
    /\ stage = "IDLE"
    /\ currentConfig = None
    /\ persisted = None
    /\ validated = {}
    /\ apply = [pc |-> "idle", cfg |-> None]
    /\ inbox = <<>>
    /\ dropped = FALSE
    /\ upJob = FALSE
    /\ connected = FALSE
    /\ svc = NoSvc
    /\ bpc = [j \in Jobs |-> "none"]
    /\ bcfg = [j \in Jobs |-> None]
    /\ spc = [s \in StopJobs |-> "none"]
    /\ wd = [j \in Jobs |-> NoWd]
    /\ rpc = [j \in Jobs |-> "none"]
    /\ tries = [j \in Jobs |-> 0]
    /\ eng = [j \in Jobs |-> NoEng]
    /\ pending = {}
    /\ pumps = {}
    /\ made = [who \in Starters |-> None]
    /\ openTuns = {}
    /\ osTun = None
    /\ pairs = NoPair
    /\ budget = [crashes |-> MaxCrashes, revokes |-> MaxRevokes, kills |-> MaxKills]

-----------------------------------------------------------------------------
(***************************************************************************)
(* VpnControllerImpl: validate before up.                                  *)
(***************************************************************************)

\* The ring, the tile and the widget start a connect only from a resting
\* stage and a stop only from an up stage; the saved-proxy list, the Apply
\* button and the notification's Stop do not look at the stage.
MayConnect == Guarded => stage \in {"IDLE", "ERROR"}
MayStop    == Guarded => stage \in UpStages

\* The bounds on commands: one coroutine, of those still unused, for each.
Queued(cmd) == Cardinality({i \in DOMAIN inbox : inbox[i] = cmd})
MoreConnects == Cardinality({j \in Jobs : bpc[j] = "none"}) > Queued("CONNECT")
MoreStops    == Cardinality({s \in StopJobs : spc[s] = "none"}) > Queued("STOP")

\* apply(): the field check passed; VALIDATING is published.
ApplyStart(p) ==
    /\ apply.pc = "idle"
    /\ MayConnect /\ MoreConnects
    /\ apply' = [pc |-> "validate", cfg |-> [proxy |-> p, pass |-> TRUE]]
    /\ stage' = "VALIDATING"
    /\ UNCHANGED <<recVars, currentConfig, persisted, validated, inbox, upJob, connected, svc, bpc, bcfg,
                   spc, wd, eng, pending, pumps, osVars, pairs, budget, made, dropped>>

\* Mutant: a failed pre-flight falls through to the hand-over.
ApplyFailFallsThrough ==
    /\ apply.pc = "validate"
    /\ currentConfig' = apply.cfg
    /\ stage' = "CONNECTING"
    /\ inbox' = Append(inbox, "CONNECT")
    /\ apply' = [apply EXCEPT !.pc = "wait"]
    /\ UNCHANGED <<recVars, persisted, validated, upJob, connected, svc, bpc, bcfg, spc, wd, eng, pending,
                   pumps, osVars, pairs, budget, made, dropped>>

\* The pre-flight fails: the stage goes to IDLE whatever was up before.
ApplyFail ==
    /\ apply.pc = "validate"
    /\ apply' = [pc |-> "idle", cfg |-> None]
    /\ stage' = "IDLE"
    /\ UNCHANGED <<recVars, currentConfig, persisted, validated, inbox, upJob, connected, svc, bpc, bcfg,
                   spc, wd, eng, pending, pumps, osVars, pairs, budget, made, dropped>>

\* The pre-flight passes: the config is handed over and the service is started.
ApplyPass ==
    /\ apply.pc = "validate"
    /\ validated' = validated \cup {apply.cfg}
    /\ currentConfig' = apply.cfg
    /\ stage' = "CONNECTING"
    /\ inbox' = Append(inbox, "CONNECT")
    /\ dropped' = FALSE
    /\ apply' = [apply EXCEPT !.pc = "wait"]
    /\ UNCHANGED <<recVars, persisted, upJob, connected, svc, bpc, bcfg, spc, wd, eng, pending, pumps,
                   osVars, pairs, budget, made>>

\* apply() returns on the first CONNECTED or ERROR it sees, or after 45 s, and
\* leaves the stage as it is.
ApplyReturn ==
    /\ apply.pc = "wait"
    /\ apply' = [pc |-> "idle", cfg |-> None]
    /\ UNCHANGED <<recVars, stage, currentConfig, persisted, validated, inbox, upJob, connected, svc, bpc,
                   bcfg, spc, wd, eng, pending, pumps, osVars, pairs, budget, made, dropped>>

\* stop(): ACTION_STOP is sent to the service.
StopTap ==
    /\ MayStop /\ MoreStops
    /\ inbox' = Append(inbox, "STOP")
    /\ UNCHANGED <<recVars, stage, currentConfig, persisted, validated, apply, upJob, connected, svc, bpc,
                   bcfg, spc, wd, eng, pending, pumps, osVars, pairs, budget, made, dropped>>

-----------------------------------------------------------------------------
(***************************************************************************)
(* DjVpnService.dispatch, on the main thread, in the order of the commands.*)
(***************************************************************************)

Launch(j, c) ==
    /\ bpc[j] = "none"
    /\ bpc' = [bpc EXCEPT ![j] = "enter"]
    /\ bcfg' = [bcfg EXCEPT ![j] = c]

DispatchConnect(j) ==
    /\ inbox # <<>> /\ Head(inbox) = "CONNECT"
    /\ inbox' = Tail(inbox)
    /\ currentConfig # None \/ persisted # None
    /\ Launch(j, IF currentConfig # None THEN currentConfig ELSE persisted)
    /\ UNCHANGED <<recVars, stage, currentConfig, persisted, validated, apply, upJob, connected, svc, spc,
                   wd, eng, pending, pumps, osVars, pairs, budget, made, dropped>>

\* The start command comes to nothing: entering the foreground throws, which
\* onStartCommand catches and reports, or there is no config.  The stage stays
\* as it is.  (stopSelf does not end a service the UI is bound to.)
DispatchDrops ==
    /\ inbox # <<>> /\ Head(inbox) = "CONNECT"
    /\ inbox' = Tail(inbox)
    /\ dropped' = TRUE
    /\ UNCHANGED <<recVars, stage, currentConfig, persisted, validated, apply, upJob, connected, svc, bpc,
                   bcfg, spc, wd, eng, pending, pumps, osVars, pairs, budget, made>>

DispatchStop(s) ==
    /\ inbox # <<>> /\ Head(inbox) = "STOP"
    /\ inbox' = Tail(inbox)
    /\ spc[s] = "none"
    /\ spc' = [spc EXCEPT ![s] = "drop"]
    /\ UNCHANGED <<recVars, stage, currentConfig, persisted, validated, apply, upJob, connected, svc, bpc,
                   bcfg, wd, eng, pending, pumps, osVars, pairs, budget, made, dropped>>

\* What the Keystore leaves of a password: all of it, or nothing when it fails.
Kept(c) == {c} \cup (IF KeystoreFails THEN {[c EXCEPT !.pass = FALSE]} ELSE {})

\* The main process dies while it holds the tun.  The kernel closes its
\* descriptors, the sidecar goes with its only client, and START_STICKY has
\* the system deliver a null intent to a fresh process, which brings the
\* persisted config up again without a pre-flight, unless the dispatch fails.
ProcessRestart(j) ==
    /\ budget.kills > 0
    /\ svc.tun # None
    /\ bpc[j] = "none"
    /\ budget' = [budget EXCEPT !.kills = @ - 1]
    /\ \E c \in Kept(persisted), first \in {"enter", "done"} :
         /\ bpc' = [k \in Jobs |-> IF k = j THEN first ELSE IF bpc[k] = "none" THEN "none" ELSE "done"]
         /\ bcfg' = [bcfg EXCEPT ![j] = c]
    /\ stage' = "IDLE"
    /\ currentConfig' = None
    /\ apply' = [pc |-> "idle", cfg |-> None]
    /\ inbox' = <<>>
    /\ dropped' = FALSE
    /\ upJob' = FALSE
    /\ connected' = FALSE
    /\ svc' = NoSvc
    /\ spc' = [s \in StopJobs |-> IF spc[s] = "none" THEN "none" ELSE "done"]
    /\ wd' = [k \in Jobs |-> NoWd]
    /\ rpc' = [k \in Jobs |-> "none"]
    /\ tries' = [k \in Jobs |-> 0]
    /\ eng' = [k \in Jobs |-> NoEng]
    /\ pending' = {}
    /\ pumps' = {}
    /\ made' = [who \in Starters |-> None]
    /\ openTuns' = {}
    /\ osTun' = None
    /\ UNCHANGED <<persisted, validated, pairs>>

-----------------------------------------------------------------------------
(***************************************************************************)
(* teardown().  `connected` is cleared first, without the lock; everything *)
(* else happens inside plumbLock, in one step.                             *)
(***************************************************************************)

DropConnected == connected' = FALSE


TeardownLocked ==
    /\ svc' = NoSvc
    /\ wd' = IF svc.watchdog = None THEN wd
             ELSE [wd EXCEPT ![svc.watchdog].observing = FALSE, ![svc.watchdog].cancelled = TRUE]
    /\ eng' = IF svc.engine = None THEN eng ELSE [eng EXCEPT ![svc.engine] = NoEng]
    /\ pumps' = pumps \ {svc.router}
    /\ openTuns' = openTuns \ {svc.tun}
    /\ osTun' = IF osTun = svc.tun THEN None ELSE osTun

\* The coroutines of ACTION_STOP, onRevoke and onTunLost: teardown, then IDLE.
StopDrop(s) ==
    /\ spc[s] = "drop"
    /\ DropConnected
    /\ spc' = [spc EXCEPT ![s] = "lock"]
    /\ UNCHANGED <<recVars, stage, uiVars, upJob, svc, bpc, bcfg, wd, eng, pending, pumps, osVars,
                   pairs, budget, made>>

StopTeardown(s) ==
    /\ spc[s] = "lock"
    /\ TeardownLocked
    /\ spc' = [spc EXCEPT ![s] = "idle"]
    /\ UNCHANGED <<recVars, stage, uiVars, upJob, connected, bpc, bcfg, pending, pairs, budget, made>>

\* Mutant: the stop ends in the stage STOPPING, which no surface knows.
StopPublishStopping(s) ==
    /\ spc[s] = "idle"
    /\ stage' = "STOPPING"
    /\ spc' = [spc EXCEPT ![s] = "done"]
    /\ UNCHANGED <<recVars, uiVars, upJob, connected, svc, bpc, bcfg, wd, eng, pending, pumps, osVars,
                   pairs, budget, made>>

StopPublish(s) ==
    /\ spc[s] = "idle"
    /\ stage' = "IDLE"
    /\ spc' = [spc EXCEPT ![s] = "done"]
    /\ UNCHANGED <<recVars, uiVars, upJob, connected, svc, bpc, bcfg, wd, eng, pending, pumps, osVars,
                   pairs, budget, made>>

-----------------------------------------------------------------------------
(***************************************************************************)
(* bringUp(config).                                                        *)
(***************************************************************************)

To(j, pc) == bpc' = [bpc EXCEPT ![j] = pc]

\* `if (upJob) return`, then, as a separate write, `upJob = true`.  A bring-up
\* may be dropped for one that has published and not yet cleared upJob.
Enter(j) ==
    /\ bpc[j] = "enter"
    /\ To(j, IF upJob THEN "done" ELSE "begin")
    /\ dropped' = (dropped \/ (upJob /\ \E k \in Jobs : bpc[k] = "finish"))
    /\ UNCHANGED <<recVars, stage, currentConfig, persisted, validated, apply, inbox, upJob, connected, svc, bcfg, spc, wd, eng, pending, pumps,
                   osVars, pairs, budget, made>>

\* Mutant: the config is persisted but not kept in VpnRuntime.
BeginForgetsConfig(j) ==
    /\ bpc[j] = "begin"
    /\ upJob' = TRUE
    /\ persisted' \in Kept(bcfg[j])
    /\ stage' = "CONNECTING"
    /\ To(j, "establish")
    /\ UNCHANGED <<recVars, currentConfig, validated, apply, inbox, connected, svc, bcfg, spc, wd, eng,
                   pending, pumps, osVars, pairs, budget, made, dropped>>

Begin(j) ==
    /\ bpc[j] = "begin"
    /\ upJob' = TRUE
    /\ currentConfig' = bcfg[j]
    /\ persisted' \in Kept(bcfg[j])
    /\ stage' = "CONNECTING"
    /\ To(j, "establish")
    /\ UNCHANGED <<recVars, validated, apply, inbox, connected, svc, bcfg, spc, wd, eng, pending, pumps,
                   osVars, pairs, budget, made, dropped>>

\* Builder.establish(): null without the user's consent, and the catch block
\* is taken; otherwise the new tun replaces whatever the OS routed through.
\* An earlier tun still in the field is overwritten, not closed.
Establish(j) ==
    /\ bpc[j] = "establish"
    /\ \/ /\ svc' = [svc EXCEPT !.tun = j]
          /\ openTuns' = openTuns \cup {j}
          /\ osTun' = j
          /\ To(j, "plumb")
       \/ /\ To(j, "drop")
          /\ UNCHANGED <<svc, osVars>>
    /\ UNCHANGED <<recVars, stage, uiVars, upJob, connected, bcfg, spc, wd, eng, pending, pumps,
                   pairs, budget, made>>

\* RemoteEngine.startRemote over socketpair p on instance e: Running, or
\* Crashed when the bind times out or the RPC fails.  A sidecar that is alive
\* replaces the descriptor it owns, but a loop that runs stays on the one it
\* was started on, which is closed now.
StartRemote(e, p, ok) ==
    eng' = [eng EXCEPT ![e] =
              IF ok THEN [state |-> "Running", pair |-> p,
                          loop |-> IF eng[e].pair = NoPair THEN p ELSE eng[e].loop]
              ELSE [NoEng EXCEPT !.state = "Crashed"]]

\* plumbEngine, one plumbLock block: socketpair, loopback front, engine.
PlumbEngine(j) ==
    /\ bpc[j] = "plumb"
    /\ pairs' = pairs + 1
    /\ LET e == IF svc.engine = None THEN j ELSE svc.engine IN
         \/ \E ok \in BOOLEAN :
              /\ svc' = [svc EXCEPT !.routerEnd = pairs + 1, !.loopback = j, !.engine = e]
              /\ StartRemote(e, pairs + 1, ok)
              /\ To(j, IF ok THEN "watch" ELSE "drop")
         \/ \* the loopback front cannot bind
            /\ svc' = [svc EXCEPT !.routerEnd = pairs + 1]
            /\ To(j, "drop")
            /\ UNCHANGED eng
    /\ UNCHANGED <<recVars, stage, uiVars, upJob, connected, bcfg, spc, wd, pending, pumps, osVars,
                   budget, made>>

\* The watchdog is constructed on `engine!!`, which throws after a teardown.
MakeWatchdog(j) ==
    /\ bpc[j] = "watch"
    /\ IF svc.engine = None
         THEN To(j, "drop") /\ UNCHANGED <<svc, wd>>
         ELSE /\ svc' = [svc EXCEPT !.watchdog = j]
              /\ wd' = [wd EXCEPT ![j] = [NoWd EXCEPT !.engine = svc.engine]]
              /\ To(j, "route")
    /\ UNCHANGED <<recVars, stage, uiVars, upJob, connected, bcfg, spc, eng, pending, pumps, osVars,
                   pairs, budget, made>>

\* startRouter: `tunPfd!!` and `routerEnd!!` throw after a teardown; the router
\* is started on them, and only then assigned to the field.
CanRoute == svc.tun # None /\ svc.routerEnd # NoPair
StartRouter(who) ==
    LET r == [tun |-> svc.tun, pair |-> svc.routerEnd, by |-> who] IN
      /\ made' = [made EXCEPT ![who] = r]
      /\ pumps' = pumps \cup {r}
AssignRouter(who) ==
    /\ svc' = [svc EXCEPT !.router = made[who]]
    /\ made' = [made EXCEPT ![who] = None]

RouteUp(j) ==
    /\ bpc[j] = "route"
    /\ IF CanRoute THEN StartRouter(<<"bringUp", j>>) /\ To(j, "assign")
                   ELSE To(j, "drop") /\ UNCHANGED <<made, pumps>>
    /\ UNCHANGED <<recVars, stage, uiVars, upJob, connected, svc, bcfg, spc, wd, eng, pending, osVars,
                   pairs, budget>>

RouterUp(j) ==
    /\ bpc[j] = "assign"
    /\ AssignRouter(<<"bringUp", j>>)
    /\ To(j, "check")
    /\ UNCHANGED <<recVars, stage, uiVars, upJob, connected, bcfg, spc, wd, eng, pending, pumps, osVars,
                   pairs, budget>>

EngineRunning == svc.engine # None /\ eng[svc.engine].state = "Running"

CheckEngine(j) ==
    /\ bpc[j] = "check"
    /\ To(j, IF EngineRunning THEN "probe" ELSE "drop")
    /\ UNCHANGED <<recVars, stage, uiVars, upJob, connected, svc, bcfg, spc, wd, eng, pending, pumps,
                   osVars, pairs, budget, made>>

\* ConnectivityProbe.run(): suspends for seconds; a miss is advisory.
Probe(j) ==
    /\ bpc[j] = "probe"
    /\ To(j, "up")
    /\ UNCHANGED <<recVars, stage, uiVars, upJob, connected, svc, bcfg, spc, wd, eng, pending, pumps,
                   osVars, pairs, budget, made>>

\* `connected = true; watchdog?.start()`
GoUp(j) ==
    /\ bpc[j] = "up"
    /\ connected' = TRUE
    /\ wd' = IF svc.watchdog = None THEN wd
             ELSE [wd EXCEPT ![svc.watchdog].observing = TRUE, ![svc.watchdog].seen = "Stopped"]
    /\ To(j, "publish")
    /\ UNCHANGED <<recVars, stage, uiVars, upJob, svc, bcfg, spc, eng, pending, pumps, osVars,
                   pairs, budget, made>>

PublishConnected(j) ==
    /\ bpc[j] = "publish"
    /\ stage' = "CONNECTED"
    /\ To(j, "finish")
    /\ UNCHANGED <<recVars, uiVars, upJob, connected, svc, bcfg, spc, wd, eng, pending, pumps, osVars,
                   pairs, budget, made>>

\* The catch block: teardown, then ERROR; then the finally block.
FailDrop(j) ==
    /\ bpc[j] = "drop"
    /\ DropConnected
    /\ To(j, "lock")
    /\ UNCHANGED <<recVars, stage, uiVars, upJob, svc, bcfg, spc, wd, eng, pending, pumps, osVars,
                   pairs, budget, made>>

FailTeardown(j) ==
    /\ bpc[j] = "lock"
    /\ TeardownLocked
    /\ To(j, "error")
    /\ UNCHANGED <<recVars, stage, uiVars, upJob, connected, bcfg, spc, pending, pairs, budget, made>>

\* Mutant: a failed bring-up is torn down but not reported.
PublishErrorSilent(j) ==
    /\ bpc[j] = "error"
    /\ To(j, "finish")
    /\ UNCHANGED <<recVars, stage, uiVars, upJob, connected, svc, bcfg, spc, wd, eng, pending, pumps,
                   osVars, pairs, budget, made>>

PublishError(j) ==
    /\ bpc[j] = "error"
    /\ stage' = "ERROR"
    /\ To(j, "finish")
    /\ UNCHANGED <<recVars, uiVars, upJob, connected, svc, bcfg, spc, wd, eng, pending, pumps, osVars,
                   pairs, budget, made>>

Finish(j) ==
    /\ bpc[j] = "finish"
    /\ upJob' = FALSE
    /\ To(j, "done")
    /\ UNCHANGED <<recVars, stage, uiVars, connected, svc, bcfg, spc, wd, eng, pending, pumps, osVars,
                   pairs, budget, made>>

-----------------------------------------------------------------------------
(***************************************************************************)
(* EngineWatchdog: fault reports and the recovery coroutine.               *)
(***************************************************************************)

\* reportFault(): a compare-and-set coalesces reports; the winner launches a
\* recovery, which no earlier stop() has cancelled.
ReportFault(w, d) ==
    IF d[w].reconnecting
      THEN wd' = d /\ UNCHANGED recVars
      ELSE /\ wd' = [d EXCEPT ![w].reconnecting = TRUE, ![w].cancelled = FALSE]
           /\ rpc' = [rpc EXCEPT ![w] = "try"]
           /\ tries' = [tries EXCEPT ![w] = 0]

\* The observer coroutine collects the engine's StateFlow: it is woken when
\* the value differs from the last one it handled, and a Crashed is a fault.
Observe(w) ==
    /\ wd[w].observing
    /\ eng[wd[w].engine].state # wd[w].seen
    /\ LET st == eng[wd[w].engine].state
           d  == [wd EXCEPT ![w].seen = st]
       IN IF st = "Crashed" THEN ReportFault(w, d) ELSE wd' = d /\ UNCHANGED recVars
    /\ UNCHANGED <<stage, uiVars, upJob, connected, svc, bpc, bcfg, spc, eng, pending, pumps,
                   osVars, pairs, budget, made>>

\* Nobody holds the engine end of socketpair p any more.
Severed(p) == \A e \in Jobs : eng[e].pair # p

\* The uplink thread of router r fails to write a packet: if `connected`, it
\* reads the watchdog field; before that the fault is bring-up's business.
\* MaxPairs ends the faults of a router that no teardown and no recovery stops.
PumpFault(r) ==
    /\ pairs < MaxPairs
    /\ Severed(r.pair)
    /\ connected /\ svc.watchdog # None
    /\ svc.watchdog \notin pending
    /\ pending' = pending \cup {svc.watchdog}
    /\ UNCHANGED <<recVars, stage, uiVars, upJob, connected, svc, bpc, bcfg, spc, wd, eng, pumps,
                   osVars, pairs, budget, made>>

\* The thread then calls reportFault() on the watchdog it has read.
PumpReport(w) ==
    /\ w \in pending
    /\ pending' = pending \ {w}
    /\ ReportFault(w, wd)
    /\ UNCHANGED <<stage, uiVars, upJob, connected, svc, bpc, bcfg, spc, eng, pumps, osVars,
                   pairs, budget, made>>

RecoveryTo(w, pc) == rpc' = [rpc EXCEPT ![w] = pc] /\ UNCHANGED tries
Failed(w) == rpc' = [rpc EXCEPT ![w] = "try"] /\ tries' = [tries EXCEPT ![w] = @ + 1]

\* Mutant: giving up publishes ERROR without tearing down.
RecoveryTryNoTeardown(w) ==
    /\ rpc[w] = "try"
    /\ \/ tries[w] >= Attempts /\ RecoveryTo(w, "error") /\ UNCHANGED stage
       \/ tries[w] < Attempts /\ wd[w].cancelled /\ RecoveryTo(w, "end") /\ UNCHANGED stage
       \/ /\ tries[w] < Attempts /\ ~wd[w].cancelled
          /\ RecoveryTo(w, "delay")
          /\ stage' = IF stage \in UpStages THEN "RECONNECTING" ELSE stage
    /\ UNCHANGED <<uiVars, upJob, connected, svc, bpc, bcfg, spc, wd, eng, pending, pumps, osVars,
                   pairs, budget, made>>

\* Mutant: the last backoff is never used.
RecoveryTryEarly(w) ==
    /\ rpc[w] = "try"
    /\ \/ tries[w] + 1 >= Attempts /\ RecoveryTo(w, "drop") /\ UNCHANGED stage
       \/ tries[w] + 1 < Attempts /\ wd[w].cancelled /\ RecoveryTo(w, "end") /\ UNCHANGED stage
       \/ /\ tries[w] + 1 < Attempts /\ ~wd[w].cancelled
          /\ RecoveryTo(w, "delay")
          /\ stage' = IF stage \in UpStages THEN "RECONNECTING" ELSE stage
    /\ UNCHANGED <<uiVars, upJob, connected, svc, bpc, bcfg, spc, wd, eng, pending, pumps, osVars,
                   pairs, budget, made>>

\* The head of the loop: give up when the backoffs are used up, stop when
\* cancelled, else show RECONNECTING over an up stage and wait.
RecoveryTry(w) ==
    /\ rpc[w] = "try"
    /\ \/ /\ tries[w] >= Attempts
          /\ RecoveryTo(w, "drop")
          /\ UNCHANGED stage
       \/ /\ tries[w] < Attempts /\ wd[w].cancelled
          /\ RecoveryTo(w, "end")
          /\ UNCHANGED stage
       \/ /\ tries[w] < Attempts /\ ~wd[w].cancelled
          /\ RecoveryTo(w, "delay")
          /\ stage' = IF stage \in UpStages THEN "RECONNECTING" ELSE stage
    /\ UNCHANGED <<uiVars, upJob, connected, svc, bpc, bcfg, spc, wd, eng, pending, pumps, osVars,
                   pairs, budget, made>>

\* delay(backoff): the only point at which a cancelled recovery is stopped.
RecoveryDelay(w) ==
    /\ rpc[w] = "delay"
    /\ RecoveryTo(w, IF wd[w].cancelled THEN "end" ELSE "plumb")
    /\ UNCHANGED <<stage, uiVars, upJob, connected, svc, bpc, bcfg, spc, wd, eng, pending, pumps,
                   osVars, pairs, budget, made>>

\* reconnectEngine, the plumbLock block: stop the router, a new socketpair,
\* restart the engine.  Without a loopback front it returns false.  (The
\* null check on currentConfig before it never fails: see ConfigKnown.)
ReconnectEngine(w) ==
    /\ rpc[w] = "plumb"
    /\ currentConfig # None
    /\ pairs' = pairs + 1
    /\ pumps' = pumps \ {svc.router}
    /\ LET svc1 == [svc EXCEPT !.router = None, !.routerEnd = pairs + 1]
           e    == IF svc.engine = None THEN w ELSE svc.engine
       IN \/ /\ svc.loopback = None
             /\ svc' = svc1
             /\ Failed(w)
             /\ UNCHANGED eng
          \/ /\ svc.loopback # None
             /\ \E ok \in BOOLEAN :
                  /\ svc' = [svc1 EXCEPT !.engine = e]
                  /\ StartRemote(e, pairs + 1, ok)
                  /\ IF ok THEN RecoveryTo(w, "route") ELSE Failed(w)
    /\ UNCHANGED <<stage, uiVars, upJob, connected, bpc, bcfg, spc, wd, pending, osVars,
                   budget, made>>

\* Mutant: the engine is restarted, the router is not.
ReconnectRouteSkipped(w) ==
    /\ rpc[w] = "route"
    /\ IF CanRoute THEN RecoveryTo(w, "result") ELSE Failed(w)
    /\ UNCHANGED <<stage, uiVars, upJob, connected, svc, bpc, bcfg, spc, wd, eng, pending, pumps, osVars,
                   pairs, budget, made>>

ReconnectRoute(w) ==
    /\ rpc[w] = "route"
    /\ IF CanRoute THEN StartRouter(<<"reconnectEngine", w>>) /\ RecoveryTo(w, "assign")
                   ELSE Failed(w) /\ UNCHANGED <<made, pumps>>
    /\ UNCHANGED <<stage, uiVars, upJob, connected, svc, bpc, bcfg, spc, wd, eng, pending, osVars,
                   pairs, budget>>

ReconnectRouter(w) ==
    /\ rpc[w] = "assign"
    /\ AssignRouter(<<"reconnectEngine", w>>)
    /\ RecoveryTo(w, "result")
    /\ UNCHANGED <<stage, uiVars, upJob, connected, bpc, bcfg, spc, wd, eng, pending, pumps, osVars,
                   pairs, budget>>

ReconnectResult(w) ==
    /\ rpc[w] = "result"
    /\ IF EngineRunning THEN RecoveryTo(w, "publish") ELSE Failed(w)
    /\ UNCHANGED <<stage, uiVars, upJob, connected, svc, bpc, bcfg, spc, wd, eng, pending, pumps,
                   osVars, pairs, budget, made>>

\* Recovered: CONNECTED is published, whatever happened since the last delay.
RecoveryPublish(w) ==
    /\ rpc[w] = "publish"
    /\ stage' = "CONNECTED"
    /\ RecoveryTo(w, "end")
    /\ UNCHANGED <<uiVars, upJob, connected, svc, bpc, bcfg, spc, wd, eng, pending, pumps, osVars,
                   pairs, budget, made>>

\* onGiveUp = failClosedNow: teardown, then ERROR.
GiveUpDrop(w) ==
    /\ rpc[w] = "drop"
    /\ DropConnected
    /\ RecoveryTo(w, "lock")
    /\ UNCHANGED <<stage, uiVars, upJob, svc, bpc, bcfg, spc, wd, eng, pending, pumps, osVars,
                   pairs, budget, made>>

GiveUpTeardown(w) ==
    /\ rpc[w] = "lock"
    /\ TeardownLocked
    /\ RecoveryTo(w, "error")
    /\ UNCHANGED <<stage, uiVars, upJob, connected, bpc, bcfg, spc, pending, pairs, budget, made>>

GiveUpPublish(w) ==
    /\ rpc[w] = "error"
    /\ stage' = "ERROR"
    /\ RecoveryTo(w, "end")
    /\ UNCHANGED <<uiVars, upJob, connected, svc, bpc, bcfg, spc, wd, eng, pending, pumps, osVars,
                   pairs, budget, made>>

\* Mutant: `reconnecting` stays set.
RecoveryEndKeepsFlag(w) ==
    /\ rpc[w] = "end"
    /\ RecoveryTo(w, "none")
    /\ UNCHANGED <<stage, uiVars, upJob, connected, svc, bpc, bcfg, spc, wd, eng, pending, pumps,
                   osVars, pairs, budget, made>>

\* The finally block: `reconnecting.set(false)`.
RecoveryEnd(w) ==
    /\ rpc[w] = "end"
    /\ RecoveryTo(w, "none")
    /\ wd' = [wd EXCEPT ![w].reconnecting = FALSE]
    /\ UNCHANGED <<stage, uiVars, upJob, connected, svc, bpc, bcfg, spc, eng, pending, pumps,
                   osVars, pairs, budget, made>>

-----------------------------------------------------------------------------
(***************************************************************************)
(* What the sidecar process and the OS do to the service.                  *)
(***************************************************************************)

\* The :engine process dies; its end of the socketpair closes.
EngineDies(e) ==
    /\ budget.crashes > 0
    /\ eng[e].pair # NoPair
    /\ budget' = [budget EXCEPT !.crashes = @ - 1]
    /\ eng' = [eng EXCEPT ![e].pair = NoPair, ![e].loop = NoPair]
    /\ UNCHANGED <<recVars, stage, uiVars, upJob, connected, svc, bpc, bcfg, spc, wd, pending,
                   pumps, osVars, pairs, made>>

\* The binder's death notice: onEngineLost.
EngineLost(e) ==
    /\ eng[e].state = "Running" /\ eng[e].pair = NoPair
    /\ eng' = [eng EXCEPT ![e].state = "Crashed"]
    /\ UNCHANGED <<recVars, stage, uiVars, upJob, connected, svc, bpc, bcfg, spc, wd, pending,
                   pumps, osVars, pairs, budget, made>>

\* The OS takes the tun away and calls onRevoke.
Revoke(s) ==
    /\ budget.revokes > 0
    /\ osTun # None
    /\ spc[s] = "none"
    /\ budget' = [budget EXCEPT !.revokes = @ - 1]
    /\ osTun' = None
    /\ spc' = [spc EXCEPT ![s] = "drop"]
    /\ UNCHANGED <<recVars, stage, uiVars, upJob, connected, svc, bpc, bcfg, wd, eng, pending,
                   pumps, openTuns, pairs, made>>

\* The uplink thread of router r reads from a tun the OS no longer routes
\* through: it launches onTunLost and ends.
PumpTunLost(r, s) ==
    /\ r.tun # osTun
    /\ spc[s] = "none"
    /\ spc' = [spc EXCEPT ![s] = "drop"]
    /\ pumps' = pumps \ {r}
    /\ UNCHANGED <<recVars, stage, uiVars, upJob, connected, svc, bpc, bcfg, wd, eng, pending,
                   osVars, pairs, budget, made>>

-----------------------------------------------------------------------------
ApplyStep == ApplyFail \/ ApplyPass \/ ApplyReturn

BringUpStep(j) ==
    \/ Enter(j) \/ Begin(j) \/ Establish(j) \/ PlumbEngine(j) \/ MakeWatchdog(j) \/ RouteUp(j)
    \/ RouterUp(j) \/ CheckEngine(j) \/ Probe(j) \/ GoUp(j) \/ PublishConnected(j)
    \/ FailDrop(j) \/ FailTeardown(j) \/ PublishError(j) \/ Finish(j)

StopStep(s) == StopDrop(s) \/ StopTeardown(s) \/ StopPublish(s)

RecoveryStep(w) ==
    \/ RecoveryTry(w) \/ RecoveryDelay(w) \/ ReconnectEngine(w) \/ ReconnectRoute(w)
    \/ ReconnectRouter(w) \/ ReconnectResult(w) \/ RecoveryPublish(w)
    \/ GiveUpDrop(w) \/ GiveUpTeardown(w) \/ GiveUpPublish(w) \/ RecoveryEnd(w)

WatchdogStep(w) == Observe(w) \/ PumpReport(w) \/ RecoveryStep(w)

Traffic == \E r \in pumps : PumpFault(r)

TunReadFails == \E r \in pumps, s \in StopJobs : PumpTunLost(r, s)

Next ==
    \/ \E p \in Proxies : ApplyStart(p)
    \/ ApplyStep
    \/ StopTap
    \/ DispatchDrops
    \/ \E j \in Jobs : DispatchConnect(j) \/ ProcessRestart(j) \/ BringUpStep(j) \/ WatchdogStep(j)
                       \/ EngineDies(j) \/ EngineLost(j)
    \/ \E s \in StopJobs : DispatchStop(s) \/ StopStep(s) \/ Revoke(s)
    \/ Traffic
    \/ TunReadFails

Spec == Init /\ [][Next]_vars

\* Every step of a coroutine or of the main thread is eventually taken:
\* the dispatcher is fair, delays and RPCs are bounded by timeouts, and apps
\* keep sending packets.  Nothing obliges the user, the engine to die or the
\* OS to revoke.
Fairness ==
    /\ WF_vars(ApplyStep)
    /\ \A j \in Jobs : /\ WF_vars(DispatchConnect(j)) /\ WF_vars(BringUpStep(j))
                       /\ WF_vars(Observe(j)) /\ WF_vars(PumpReport(j))
                       /\ WF_vars(RecoveryStep(j)) /\ WF_vars(EngineLost(j))
    /\ \A s \in StopJobs : WF_vars(DispatchStop(s)) /\ WF_vars(StopStep(s))
    /\ WF_vars(Traffic)
    /\ WF_vars(TunReadFails)

FairSpec == Spec /\ Fairness

-----------------------------------------------------------------------------
(***************************************************************************)
(* Properties.                                                             *)
(***************************************************************************)

TypeUi ==
    /\ stage \in Stages
    /\ currentConfig \in Cfg \cup {None}
    /\ persisted \in Cfg \cup {None}
    /\ validated \subseteq Cfg
    /\ apply \in [pc : {"idle", "validate", "wait"}, cfg : Cfg \cup {None}]
    /\ inbox \in Seq({"CONNECT", "STOP"}) /\ dropped \in BOOLEAN

TypeSvc ==
    /\ upJob \in BOOLEAN /\ connected \in BOOLEAN
    /\ svc \in SvcRec

TypeJobs ==
    /\ bpc \in [Jobs -> BringUpPcs]
    /\ bcfg \in [Jobs -> Cfg \cup {None}]
    /\ spc \in [StopJobs -> StopPcs]

TypeWatchdogs ==
    /\ wd \in [Jobs -> WatchdogRec]
    /\ rpc \in [Jobs -> RecoveryPcs]
    /\ tries \in [Jobs -> Nat]
    /\ pending \subseteq Jobs

TypeWorld ==
    /\ eng \in [Jobs -> EngineRec]
    /\ pumps \subseteq Routers /\ made \in [Starters -> Routers \cup {None}]
    /\ openTuns \subseteq Jobs
    /\ osTun \in Jobs \cup {None}
    /\ pairs \in Nat
    /\ budget \in [crashes : Nat, revokes : Nat, kills : Nat]

\* Every variable has its type.
TypeOK == TypeUi /\ TypeSvc /\ TypeJobs /\ TypeWatchdogs /\ TypeWorld

\* Nothing is in flight: no call, command, coroutine, callback or fault.
Quiet ==
    /\ apply.pc = "idle" /\ inbox = <<>> /\ pending = {}
    /\ \A j \in Jobs : bpc[j] \in {"none", "done"} /\ rpc[j] = "none"
    /\ \A s \in StopJobs : spc[s] \in {"none", "done"}
    /\ \A w \in Jobs : wd[w].observing => eng[wd[w].engine].state = wd[w].seen
    /\ \A e \in Jobs : eng[e].state = "Running" => eng[e].pair # NoPair
    /\ \A r \in pumps : r.tun = osTun /\ ~(connected /\ Severed(r.pair))

\* A router carries packets between the tun t and an engine whose loop serves
\* the router's socketpair.
Carrying(p) == \E e \in Jobs : eng[e].pair = p /\ eng[e].loop = p
Bridged(t) == \E r \in pumps : r.tun = t /\ Carrying(r.pair)

\* A live sidecar was handed a second descriptor: its loop is on the closed one.
Wedged == svc.engine # None /\ eng[svc.engine].pair # NoPair
          /\ eng[svc.engine].loop # eng[svc.engine].pair

\* The stages IDLE ("No tunnel; nothing routed") and ERROR ("Routes are
\* down") tell the truth once the service is at rest: the tun field is null,
\* no tun descriptor is left open and no router thread runs.
DownMeansUnrouted ==
    Quiet /\ stage \in {"IDLE", "ERROR"} => svc.tun = None /\ openTuns = {} /\ pumps = {}

\* The up stages ("Tun up, routes held", "routes are HELD") tell the truth
\* once the service is at rest: there is a tun.
UpMeansRouted == Quiet /\ stage \in UpStages => svc.tun # None

\* A CONNECTED service at rest with a tun has exactly one router running, the
\* one a teardown would stop, on that tun and on the socketpair whose other end
\* the sidecar of the running engine owns, however many re-plumbings, teardowns
\* and bring-ups led there.  (Whether the loop in the sidecar serves it is
\* ConnectedCarries.)
BridgeWhole ==
    Quiet /\ stage = "CONNECTED" /\ svc.tun # None =>
       /\ pumps = {svc.router} /\ svc.router.tun = svc.tun /\ svc.router.pair = svc.routerEnd
       /\ svc.engine # None
       /\ eng[svc.engine].state = "Running" /\ eng[svc.engine].pair = svc.routerEnd

\* CONNECTED says "Tun up, routes held, traffic flowing through the proxy": at
\* rest, with its tun, the service has a router and a loop that carry packets.
ConnectedCarries == Quiet /\ stage = "CONNECTED" /\ svc.tun # None => Bridged(svc.tun)


\* Until a bring-up has set `connected` it is "the sole owner of the engine
\* lifecycle": no recovery, of its own session or of an earlier one, restarts
\* the engine between the bring-up's own start of it and that moment.
SoleOwner ==
    [][\A w \in Jobs : rpc[w] = "plumb" /\ rpc'[w] = "route" =>
          \A j \in Jobs : bpc[j] \notin {"watch", "route", "assign", "check", "probe", "up"}]_vars

\* Validate before up: whatever a bring-up is given, on a start command or on
\* a restart of the process, passed a pre-flight.
ValidatedOnly == \A j \in Jobs : bpc[j] # "none" => bcfg[j] \in validated

\* reconnectEngine never returns at its null check on currentConfig, so a
\* recovery attempt always gets as far as re-plumbing.
ConfigKnown == \A w \in Jobs : rpc[w] = "plumb" => currentConfig # None

\* A connected tunnel that loses its engine is bridged again or released: it
\* does not stay up carrying nothing, unless a late fault report has had the
\* engine started a second time.
RecoversOrReleases ==
    (connected /\ svc.tun # None /\ ~Bridged(svc.tun)) ~>
        (Bridged(svc.tun) \/ svc.tun = None \/ Wedged)

\* The stages that say "wait" end, although the UI ignores taps in CONNECTING,
\* unless the start command behind one came to nothing: its dispatch failed, or
\* the bring-up was dropped for one that had published already.
Busy == stage \in {"CONNECTING", "RECONNECTING"}
BusyEnds == Busy ~> ~Busy \/ dropped

\* How the device's traffic is treated, read off the tun the OS routes
\* through and the routers and engines that really run, not off the
\* service's own fields.
Phase == IF osTun = None THEN "Direct" ELSE IF Bridged(osTun) THEN "Proxied" ELSE "Blocked"

\* A stop, a lost or revoked tun or a failed bring-up is tearing down.
Requested == (\E s \in StopJobs : spc[s] = "lock") \/ (\E j \in Jobs : bpc[j] = "lock")

FC == INSTANCE FailClosed WITH
        Watchdogs <- Jobs,
        phase     <- Phase,
        requested <- Requested,
        failures  <- tries,
        osEvents  <- budget.revokes + budget.kills

\* The lifecycle implements the fail-closed promise: the device's routes are
\* let go only on request, after the last attempt of a watchdog's recovery,
\* or when the OS takes the tun; an engine loss only ever blocks.
RefinesFailClosed == FC!Spec

-----------------------------------------------------------------------------
(***************************************************************************)
(* The inductive invariant behind the theorems of DjVpnProofs.             *)
(***************************************************************************)

\* A session has begun in this process: some coroutine or object of it exists.
Begun ==
    \/ \E j \in Jobs : \/ bpc[j] \notin {"none", "enter", "begin", "done"}
                       \/ rpc[j] # "none"
                       \/ wd[j].observing
    \/ pending # {}
    \/ svc.watchdog # None
    \/ svc.tun # None

\* Every config a later step will use is there when it is used.
ConfigsKept ==
    /\ apply.pc # "idle" => apply.cfg # None
    /\ \A i \in DOMAIN inbox : inbox[i] = "CONNECT" => currentConfig # None
    /\ \A j \in Jobs : bpc[j] # "none" => bcfg[j] # None
    /\ Begun => currentConfig # None /\ persisted # None

\* A watchdog in use was constructed on an engine.
WatchdogsBuilt ==
    \A w \in Jobs : wd[w].observing \/ svc.watchdog = w => wd[w].engine # None

\* No tun or router carries the name of a bring-up that has not established.
TunsFresh ==
    \A j \in Jobs : bpc[j] \in {"none", "enter", "begin", "establish"} =>
       svc.tun # j /\ osTun # j /\ \A r \in pumps : r.tun # j

\* A watchdog that is tearing the tunnel down has used all its attempts.
GiveUpsExhausted ==
    \A w \in Jobs : rpc[w] \in {"drop", "lock"} => tries[w] >= Attempts

IInv == TypeOK /\ ConfigsKept /\ WatchdogsBuilt /\ TunsFresh /\ GiveUpsExhausted

\* With a reliable Keystore: every config in circulation was validated.
ConfigsValidated ==
    /\ currentConfig \in validated \cup {None}
    /\ persisted \in validated \cup {None}
    /\ \A j \in Jobs : bpc[j] # "none" => bcfg[j] \in validated

-----------------------------------------------------------------------------
(***************************************************************************)
(* Sessions that do not overlap, and what they preserve.  Nothing in the   *)
(* code keeps sessions apart: upJob only keeps bring-ups apart, and only   *)
(* once its writer has got past the check.                                 *)
(***************************************************************************)

\* A connect is on its way from the tap to its tun.
Starting == {"enter", "begin", "establish"}
ConnectQueued == \E i \in DOMAIN inbox : inbox[i] = "CONNECT"
Asked == apply.pc = "validate" \/ ConnectQueued \/ \E j \in Jobs : bpc[j] \in Starting

\* What an earlier session may still have under way is over.
Rested ==
    /\ svc.tun = None /\ ~connected /\ pending = {} /\ pumps = {}
    /\ \A i \in DOMAIN inbox : inbox[i] # "STOP"
    /\ \A w \in Jobs : rpc[w] = "none"
    /\ \A s \in StopJobs : spc[s] \in {"none", "done"}

\* Sessions do not overlap: a connect is asked for and gets its tun with no
\* other connect, and nothing of an earlier session, under way.
Apart ==
    /\ Asked => Rested
    /\ \A i, j \in Jobs : bpc[i] \notin {"none", "done"} /\ bpc[j] \notin {"none", "done"} => i = j
    /\ apply.pc = "validate" =>
          ~ConnectQueued /\ \A j \in Jobs : bpc[j] \in {"none", "finish", "done"}

\* A bring-up that has its tun and has not set `connected`, or that fails, is
\* alone with it: no fault is reported, observed or repaired.
Opening == {"plumb", "watch", "route", "assign", "check", "probe", "up", "drop", "lock", "error"}
OpeningAlone ==
    \A j \in Jobs : bpc[j] \in Opening =>
       /\ ~connected /\ pending = {} /\ svc.tun \in {None, j}
       /\ \A w \in Jobs : rpc[w] = "none" /\ ~wd[w].observing

\* After a teardown, until its coroutine has published, there is no tun; nor is
\* there one for a recovery that was cancelled.
TornDown ==
    /\ \A j \in Jobs : bpc[j] = "error" => svc.tun = None
    /\ \A s \in StopJobs : spc[s] = "idle" => svc.tun = None
    /\ \A w \in Jobs : rpc[w] = "error" \/ (rpc[w] # "none" /\ wd[w].cancelled) => svc.tun = None

\* No resting stage is shown over a tun.
StageHonest ==
    /\ svc.tun # None => stage \notin {"IDLE", "ERROR"}
    /\ \A j \in Jobs : bpc[j] = "establish" => stage = "CONNECTING"

\* At most one watchdog acts or can be made to, the one in the field.
Watching(w) == rpc[w] # "none" \/ w \in pending \/ wd[w].observing \/ svc.watchdog = w
OneWatchdog ==
    /\ \A v, w \in Jobs : Watching(v) /\ Watching(w) => v = w
    /\ \A w \in Jobs : rpc[w] # "none" => wd[w].reconnecting
    /\ \A w \in Jobs : wd[w].observing => svc.watchdog = w /\ svc.tun # None
    /\ \A j \in Jobs : bpc[j] \in {"assign", "check", "probe", "up"} /\ svc.watchdog # None =>
          svc.tun # None

\* What is open or running is in the fields that teardown reads, but for a
\* router that is about to be assigned.
Assigning == (\E j \in Jobs : bpc[j] = "assign") \/ (\E w \in Jobs : rpc[w] = "assign")
Held ==
    /\ openTuns \subseteq {svc.tun} /\ osTun \in {None, svc.tun}
    /\ ~Assigning => pumps \subseteq {svc.router}
    /\ \A j \in Jobs : bpc[j] \in {"plumb", "watch", "route"} => pumps = {}
    /\ \A w \in Jobs : rpc[w] = "route" => pumps = {}
    /\ \A j \in Jobs : bpc[j] = "assign" => pumps \subseteq {made[<<"bringUp", j>>]}
    /\ \A w \in Jobs : rpc[w] = "assign" => pumps \subseteq {made[<<"reconnectEngine", w>>]}

\* Only the engine in the field has a socketpair, and it runs.
EngineHeld ==
    \A e \in Jobs : eng[e].pair # NoPair => svc.engine = e /\ eng[e].state = "Running"

\* A tun that bring-up or a recovery has put a router on still has it, on the
\* current socketpair, unless a stop is about to take both.
Settled == {"check", "probe", "up", "publish", "finish", "done"}
OnTun(r) ==
    /\ svc.engine # None /\ svc.routerEnd # NoPair
    /\ \/ r \in pumps /\ r.tun = svc.tun /\ r.pair = svc.routerEnd
       \/ \E s \in StopJobs : spc[s] \in {"drop", "lock"}
Carried ==
    /\ \A j \in Jobs : svc.tun = j /\ bpc[j] \in Settled
                       /\ (\A w \in Jobs : rpc[w] \in {"none", "end", "publish", "result"}) =>
          OnTun(svc.router)
    /\ \A j \in Jobs : bpc[j] = "assign" /\ svc.tun # None => OnTun(made[<<"bringUp", j>>])
    /\ \A w \in Jobs : rpc[w] = "assign" /\ svc.tun # None => OnTun(made[<<"reconnectEngine", w>>])
    /\ \A j \in Jobs : bpc[j] = "route" /\ svc.tun # None => svc.engine # None
    /\ \A w \in Jobs : rpc[w] = "route" /\ svc.tun # None => svc.engine # None

\* A tun that was brought up is connected, or a teardown is about to close it.
ConnectedKept ==
    \A j \in Jobs : svc.tun = j /\ bpc[j] \in {"publish", "finish", "done"} =>
       \/ connected
       \/ \E s \in StopJobs : spc[s] = "lock"
       \/ \E w \in Jobs : rpc[w] = "lock"

\* What every step preserves while sessions do not overlap.
SessionInv ==
    /\ OpeningAlone /\ TornDown /\ StageHonest /\ OneWatchdog
    /\ Held /\ EngineHeld /\ Carried /\ ConnectedKept

\* The one session of a guarded app is apart from any other: before it has its
\* tun nothing is under way, and it is asked for once.
LoneQuiet ==
    \A j \in Jobs : bpc[j] \in Starting \cup {"none"} =>
       Rested /\ stage \notin UpStages /\ \A w \in Jobs : ~wd[w].observing
LoneQueue ==
    /\ \A i, k \in DOMAIN inbox : inbox[i] = "CONNECT" /\ inbox[k] = "CONNECT" => i = k
    /\ apply.pc = "validate" => ~ConnectQueued
    /\ apply.pc = "validate" \/ ConnectQueued => \A j \in Jobs : bpc[j] = "none"
LoneSession == LoneQuiet /\ LoneQueue

-----------------------------------------------------------------------------
(***************************************************************************)
(* Who ends a busy stage: the safety side of BusyEnds.                     *)
(***************************************************************************)

\* On its way to publish CONNECTED or ERROR, if only it is not dropped.
Bringing(j) == bpc[j] \notin {"none", "finish", "done"}

\* A recovery that will publish CONNECTED or tear down: a cancelled one may end
\* in its delay without a word.
Mending(w) ==
    \/ rpc[w] \in {"publish", "drop", "lock", "error"}
    \/ rpc[w] \notin {"none", "end"} /\ ~wd[w].cancelled

\* The UI shows no busy stage that nobody will end: CONNECTING has a command or
\* a bring-up behind it, unless the last command came to nothing, RECONNECTING a
\* recovery or the teardown that has cancelled it and has yet to publish.
BusyOwned ==
    /\ stage = "CONNECTING" => ConnectQueued \/ dropped \/ \E j \in Jobs : Bringing(j)
    /\ stage = "RECONNECTING" => \/ \E w \in Jobs : Mending(w)
                                 \/ \E j \in Jobs : bpc[j] = "error"
                                 \/ \E s \in StopJobs : spc[s] = "idle"

\* CONNECTING says "Validation passed; establishing tun + starting the engine":
\* somebody is doing so or is about to.
ConnectingWorks == stage = "CONNECTING" => ConnectQueued \/ \E j \in Jobs : Bringing(j)

\* Who has set upJob has not cleared it, whoever else has got past the check.
UpJobOwned ==
    upJob => \E j \in Jobs : bpc[j] \in {"establish", "publish", "finish"} \cup Opening
=============================================================================
