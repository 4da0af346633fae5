------------------------------ MODULE EngineLink ------------------------------
(***************************************************************************)
(* The link between the main process and the :engine sidecar: RemoteEngine *)
(* (RemoteEngine.kt), which binds and calls it, EngineService, which owns  *)
(* the descriptor it is handed, and HevTunnel, which runs the native loop. *)
(*                                                                         *)
(* Calls of startRemote and stop are serialised by RemoteEngine.lock and   *)
(* are made inside DjVpnService's plumbLock; each is a sequence of steps,  *)
(* between which the sidecar may die, binder threads deliver death notices *)
(* and the main thread delivers the ServiceConnection callbacks.           *)
(* onDestroy runs teardown on that same main thread.                       *)
(*                                                                         *)
(* Socketpairs and EngineService instances are numbered from 1; None (0)   *)
(* is "no such thing".  The system destroys an unbound service before it   *)
(* creates it again, and hev's loop ends within stop's join once quit() is *)
(* called: both are assumptions about code outside this repository.        *)
(***************************************************************************)
EXTENDS Naturals, Sequences

CONSTANTS
    MaxStarts,    \* bound on calls of startRemote
    MaxDeaths,    \* bound on deaths of the sidecar process
    MaxExits      \* bound on loops that end by themselves, or fail to load

ASSUME BoundsAssumption == MaxStarts \in Nat /\ MaxDeaths \in Nat /\ MaxExits \in Nat

None == 0

VARIABLES
    mstate,     \* RemoteEngine._state
    iface,      \* RemoteEngine.iface: the EngineService instance it calls
    bound,      \* RemoteEngine.bound
    ready,      \* readyLatch has been counted down
    call,       \* the call in progress: operation, program counter, socketpair
    copies,     \* socketpairs whose engine end the main process still holds
    current,    \* the socketpair of the last start that returned true
    destroying, \* the main thread is in onDestroy
    callbacks,  \* ServiceConnection callbacks queued for the main thread
    linked,     \* EngineService instances whose death RemoteEngine is linked to
    deaths,     \* death notices on their way through binder threads
    srv,        \* the live EngineService instance
    owned,      \* EngineService.ownedTun
    loop,       \* the socketpair whose descriptor the native loop was started on
    hstate,     \* HevTunnel._state
    created,    \* number of EngineService instances created
    budget      \* what is left of the bounds

callVars == <<call, copies, current>>
bindVars == <<iface, bound, ready, linked>>
noticeVars == <<callbacks, deaths>>
engineVars == <<srv, owned, loop, hstate, created>>
vars == <<mstate, callVars, bindVars, noticeVars, destroying, engineVars, budget>>

NoCall == [op |-> "none", pc |-> "idle", pair |-> None]

Init ==
    /\ mstate = "Stopped"
    /\ iface = None /\ bound = FALSE /\ ready = FALSE /\ linked = {}
    /\ call = NoCall /\ copies = {} /\ current = None
    /\ callbacks = <<>> /\ deaths = {}
    /\ destroying = FALSE
    /\ srv = None /\ owned = None /\ loop = None /\ hstate = "Stopped" /\ created = 0
    /\ budget = [starts |-> MaxStarts, deaths |-> MaxDeaths, exits |-> MaxExits]

\* No descriptor of the engine end of socketpair p is open anywhere: the
\* router's next write on its own end fails.
Severed(p) == p \notin copies /\ owned # p

-----------------------------------------------------------------------------
(***************************************************************************)
(* RemoteEngine.startRemote.                                               *)
(***************************************************************************)

At(op, pc) == call.op = op /\ call.pc = pc
Goto(pc) == call' = [call EXCEPT !.pc = pc] /\ UNCHANGED <<copies, current>>

\* Mutant: the caller forgets to close its copy of the engine end.
ReturnKeepsCopy(ok) ==
    /\ call' = NoCall
    /\ copies' = copies
    /\ current' = IF ok THEN call.pair ELSE current

\* startRemote returns; the caller closes its copy of the engine end.
Return(ok) ==
    /\ call' = NoCall
    /\ copies' = copies \ {call.pair}
    /\ current' = IF ok THEN call.pair ELSE current

Fail == mstate' = "Crashed" /\ Return(FALSE)

\* A fresh socketpair, and `_state = Starting`.  Nobody looks whether the engine
\* runs: a recovery started by a late fault report and a connect over a live
\* service call it on a running one.
StartCall ==
    /\ call.pc = "idle"
    /\ budget.starts > 0
    /\ budget' = [budget EXCEPT !.starts = @ - 1]
    /\ LET p == MaxStarts - budget.starts + 1 IN
         /\ call' = [op |-> "start", pc |-> IF iface = None THEN "rebind" ELSE "rpc", pair |-> p]
         /\ copies' = copies \cup {p}
    /\ mstate' = "Starting"
    /\ UNCHANGED <<current, bindVars, noticeVars, destroying, engineVars>>

\* unbindService: the connection is forgotten with its queued callbacks, and
\* the system destroys the service, which stops its loop and closes its tun.
UnbindService ==
    /\ bound' = FALSE
    /\ callbacks' = <<>>
    /\ srv' = None /\ owned' = None /\ loop' = None /\ hstate' = "Stopped"
    /\ UNCHANGED created

\* With no interface: unbind a stale binding, make a new latch, bind.
Rebind ==
    /\ At("start", "rebind")
    /\ IF bound THEN UnbindService ELSE UNCHANGED <<bound, callbacks, engineVars>>
    /\ ready' = FALSE
    /\ Goto("bind")
    /\ UNCHANGED <<mstate, iface, linked, deaths, destroying, budget>>

Bind ==
    /\ At("start", "bind")
    /\ \/ bound' = TRUE /\ Goto("wait") /\ UNCHANGED mstate
       \/ bound' = FALSE /\ Fail
    /\ UNCHANGED <<iface, ready, linked, noticeVars, destroying, engineVars, budget>>

Connected ==
    /\ At("start", "wait") /\ ready
    /\ Goto("rpc")
    /\ UNCHANGED <<mstate, bindVars, noticeVars, destroying, engineVars, budget>>

\* Mutant: await() without a timeout.
BindTimeoutNever == FALSE /\ UNCHANGED vars

\* readyLatch.await(BIND_TIMEOUT_MS) gives up.
BindTimeout ==
    /\ At("start", "wait") /\ ~ready
    /\ Fail
    /\ UNCHANGED <<bindVars, noticeVars, destroying, engineVars, budget>>

\* EngineService.start, in the sidecar: the old descriptor is closed and the
\* new one owned; HevTunnel.start is then ignored while the loop is alive,
\* and else runs it on the new one, unless the library does not load.
Serve(p) ==
    /\ owned' = p
    /\ \/ loop # None /\ UNCHANGED <<loop, hstate>>
       \/ loop = None /\ loop' = p /\ hstate' = "Running"

LoadFails(p) ==
    /\ owned' = p
    /\ loop = None /\ UNCHANGED loop
    /\ hstate' = "Crashed"

\* control.start: the call fails if the instance it is made to is gone;
\* else it returns, whatever became of the loop.
StartRpc ==
    /\ At("start", "rpc")
    /\ \/ /\ iface = None \/ iface # srv
          /\ Fail
          /\ UNCHANGED <<engineVars, budget>>
       \/ /\ iface # None /\ iface = srv
          /\ Serve(call.pair)
          /\ Goto("set")
          /\ UNCHANGED <<mstate, srv, created, budget>>
       \/ /\ iface # None /\ iface = srv
          /\ budget.exits > 0
          /\ LoadFails(call.pair)
          /\ Goto("set")
          /\ budget' = [budget EXCEPT !.exits = @ - 1]
          /\ UNCHANGED <<mstate, srv, created>>
    /\ UNCHANGED <<bindVars, noticeVars, destroying>>

\* `_state = Running`, over whatever a death notice wrote in the meantime.
SetRunning ==
    /\ At("start", "set")
    /\ mstate' = "Running"
    /\ Return(TRUE)
    /\ UNCHANGED <<bindVars, noticeVars, destroying, engineVars, budget>>

-----------------------------------------------------------------------------
(***************************************************************************)
(* RemoteEngine.stop, from a teardown; the service then drops the instance.*)
(***************************************************************************)

StopCall ==
    /\ call.pc = "idle"
    /\ mstate' = "Stopped"
    /\ call' = [op |-> "stop", pc |-> "rpc", pair |-> None]
    /\ UNCHANGED <<copies, current, bindVars, noticeVars, destroying, engineVars, budget>>

\* iface.stop(): quit, join, close the descriptor.  A failure is swallowed.
StopRpc ==
    /\ At("stop", "rpc")
    /\ IF iface # None /\ iface = srv
         THEN /\ loop' = None /\ owned' = None
              /\ hstate' = IF loop = None /\ hstate = "Crashed" THEN "Crashed" ELSE "Stopped"
         ELSE UNCHANGED <<loop, owned, hstate>>
    /\ Goto("unbind")
    /\ UNCHANGED <<mstate, bindVars, noticeVars, destroying, srv, created, budget>>

\* Mutant: the binding is kept.
StopUnbindForgotten ==
    /\ At("stop", "unbind")
    /\ UNCHANGED <<bound, callbacks, engineVars>>
    /\ iface' = None /\ linked' = {} /\ deaths' = {} /\ current' = None
    /\ call' = NoCall /\ destroying' = FALSE
    /\ UNCHANGED <<mstate, ready, copies, budget>>

\* The rest of stop.  The next bring-up makes a new RemoteEngine, to which
\* no notice of the old one is delivered.  onDestroy, if it waited, is over.
StopUnbind ==
    /\ At("stop", "unbind")
    /\ IF bound THEN UnbindService ELSE UNCHANGED <<bound, callbacks, engineVars>>
    /\ iface' = None /\ linked' = {} /\ deaths' = {} /\ current' = None
    /\ call' = NoCall /\ destroying' = FALSE
    /\ UNCHANGED <<mstate, ready, copies, budget>>

\* onDestroy on the main thread while a call holds plumbLock: the thread
\* waits, and with it every ServiceConnection callback.
DestroyWaits ==
    /\ At("start", call.pc) /\ ~destroying
    /\ destroying' = TRUE
    /\ UNCHANGED <<mstate, callVars, bindVars, noticeVars, engineVars, budget>>

-----------------------------------------------------------------------------
(***************************************************************************)
(* Callbacks into RemoteEngine.                                            *)
(***************************************************************************)

\* onEngineLost: a loss is a fault only while the engine should be up.
EngineLost ==
    /\ iface' = None
    /\ mstate' = IF mstate \in {"Running", "Starting"} THEN "Crashed" ELSE mstate

\* The main thread takes its next callback.
Callback(kind) ==
    /\ ~destroying
    /\ callbacks # <<>> /\ Head(callbacks).kind = kind
    /\ callbacks' = Tail(callbacks)

\* onServiceConnected; linkToDeath throws if that instance is gone already.
ServiceConnected ==
    /\ Callback("connected")
    /\ iface' = Head(callbacks).srv
    /\ linked' = IF Head(callbacks).srv = srv THEN linked \cup {srv} ELSE linked
    /\ ready' = TRUE
    /\ UNCHANGED <<mstate, callVars, bound, deaths, destroying, engineVars, budget>>

ServiceDisconnected ==
    /\ Callback("disconnected")
    /\ EngineLost
    /\ UNCHANGED <<callVars, bound, ready, linked, deaths, destroying, engineVars, budget>>

BinderDied ==
    /\ \E d \in deaths : deaths' = deaths \ {d}
    /\ EngineLost
    /\ UNCHANGED <<callVars, bound, ready, linked, callbacks, destroying, engineVars, budget>>

-----------------------------------------------------------------------------
(***************************************************************************)
(* The sidecar and the system.                                             *)
(***************************************************************************)

\* A bound service that is not there is created, the first time and after
\* every death (BIND_AUTO_CREATE), and the connection is told.
ServiceUp ==
    /\ bound /\ srv = None
    /\ created' = created + 1
    /\ srv' = created + 1
    /\ callbacks' = Append(callbacks, [kind |-> "connected", srv |-> created + 1])
    /\ hstate' = "Stopped"
    /\ UNCHANGED <<mstate, callVars, bindVars, deaths, destroying, owned, loop, budget>>

\* The sidecar process dies; the kernel closes its descriptors.
ProcessDies ==
    /\ srv # None /\ budget.deaths > 0
    /\ budget' = [budget EXCEPT !.deaths = @ - 1]
    /\ srv' = None /\ owned' = None /\ loop' = None /\ hstate' = "Stopped"
    /\ deaths' = IF srv \in linked THEN deaths \cup {srv} ELSE deaths
    /\ callbacks' = Append(callbacks, [kind |-> "disconnected", srv |-> srv])
    /\ UNCHANGED <<mstate, callVars, bindVars, destroying, created>>

\* The native loop ends by itself.  Its state says so; nothing is closed.
LoopExits ==
    /\ loop # None /\ budget.exits > 0
    /\ budget' = [budget EXCEPT !.exits = @ - 1]
    /\ loop' = None
    /\ \E ret \in {"Stopped", "Crashed"} : hstate' = ret
    /\ UNCHANGED <<mstate, callVars, bindVars, noticeVars, destroying, srv, owned, created>>

CallStep == Rebind \/ Bind \/ Connected \/ BindTimeout \/ StartRpc \/ SetRunning
            \/ StopRpc \/ StopUnbind

Deliver == ServiceConnected \/ ServiceDisconnected \/ BinderDied

Next ==
    \/ StartCall \/ StopCall \/ CallStep \/ DestroyWaits
    \/ Deliver
    \/ ServiceUp \/ ProcessDies \/ LoopExits

Spec == Init /\ [][Next]_vars

\* A call takes its next step, onDestroy's teardown follows it and callbacks
\* are delivered.  Nothing obliges the system to bring the service up.
Fairness == WF_vars(CallStep) /\ WF_vars(destroying /\ StopCall) /\ WF_vars(Deliver)

FairSpec == Spec /\ Fairness

-----------------------------------------------------------------------------
(***************************************************************************)
(* Properties.                                                             *)
(***************************************************************************)

States == {"Stopped", "Starting", "Running", "Crashed"}
CallStates ==
    [op : {"none", "start", "stop"},
     pc : {"idle", "rebind", "bind", "wait", "rpc", "set", "unbind"}, pair : Nat]
Callbacks == [kind : {"connected", "disconnected"}, srv : Nat]
Budgets == [starts : Nat, deaths : Nat, exits : Nat]

\* Every variable has its type.
TypeOK ==
    /\ mstate \in States
    /\ iface \in Nat /\ bound \in BOOLEAN /\ ready \in BOOLEAN /\ linked \subseteq Nat
    /\ call \in CallStates
    /\ copies \subseteq Nat /\ current \in Nat /\ destroying \in BOOLEAN
    /\ callbacks \in Seq(Callbacks)
    /\ deaths \subseteq Nat
    /\ srv \in Nat /\ owned \in Nat /\ loop \in Nat /\ hstate \in States /\ created \in Nat
    /\ budget \in Budgets

Quiet == call = NoCall /\ callbacks = <<>> /\ deaths = {} /\ ~destroying

\* An engine that RemoteEngine calls Running serves the current socketpair,
\* or the main process will find out: the engine end is closed everywhere, so
\* the router's next write fails and the watchdog hears of it.
LossDetectable ==
    Quiet /\ mstate = "Running" => (loop = current /\ owned = current) \/ Severed(current)

\* A start on a running engine has replaced the descriptor under its loop.
Replaced == loop # None /\ owned # loop

\* That much holds as long as no loop ends by itself in a living sidecar and
\* none has lost its descriptor to a second start: the death of the process,
\* at any step of a call, is always noticed.
DeathDetectable == budget.exits = MaxExits /\ ~Replaced => LossDetectable

\* "Idempotent: calling start while running is a no-op that keeps the current
\* loop": the loop never runs on a descriptor that has been closed under it.
LoopKeepsItsTun == loop # None => owned = loop

\* A stopped engine has let go, after whatever partial start, death or
\* rebinding: no loop runs and the sidecar holds no engine end.
StopReleases == Quiet /\ mstate = "Stopped" => loop = None /\ owned = None

\* onDestroy waits for plumbLock on the main thread, while the holder of
\* plumbLock waits for a callback on the main thread: the bind timeout is what
\* ends it, and it always does.
DestroyEnds == destroying ~> ~destroying

-----------------------------------------------------------------------------
(***************************************************************************)
(* The parts of the inductive invariant.                                   *)
(***************************************************************************)

\* The statements of each call, and the engine end it holds.
CallSteps ==
    /\ call.op = "none" <=> call.pc = "idle"
    /\ call.op = "start" => call.pc \in {"rebind", "bind", "wait", "rpc", "set"} /\ call.pair # None
    /\ call.op = "stop" => call.pc \in {"rpc", "unbind"}
    /\ copies = IF call.op = "start" THEN {call.pair} ELSE {}

Budgeted == budget.starts <= MaxStarts /\ budget.exits <= MaxExits

\* Nothing outlives its service, and no service its binding.
ServiceBound ==
    /\ ~bound => srv = None
    /\ srv = None => owned = None /\ loop = None
    /\ At("start", "bind") => ~bound

\* An instance is announced once, and is called only after that.
Announced(n) == callbacks[n].kind = "connected"
AnnouncedOnce ==
    /\ srv <= created /\ iface <= created
    /\ \A n \in DOMAIN callbacks : callbacks[n].srv \in 1 .. created
    /\ \A m, n \in DOMAIN callbacks :
          Announced(m) /\ Announced(n) /\ callbacks[m].srv = callbacks[n].srv => m = n
    /\ iface = srv \/ owned # None =>
          \A n \in DOMAIN callbacks : Announced(n) => callbacks[n].srv # srv

\* A descriptor the sidecar owns, and can still be asked about, is that of the
\* start that is returning or of the engine that runs, or is about to go.
OwnedIsCurrent ==
    owned # None /\ iface = srv =>
        \/ At("start", "rpc")
        \/ At("start", "set") /\ call.pair = owned
        \/ call.op = "none" /\ mstate = "Running" /\ current = owned
        \/ call.op = "stop"

\* As long as no loop has ended by itself, a sidecar with a descriptor has one.
LoopServes == budget.exits = MaxExits /\ owned # None => loop # None

\* A stop has unbound the service.
StoppedUnbound == mstate = "Stopped" => call.op = "stop" \/ (call.op = "none" /\ ~bound)

\* Whatever starts and deaths came before, the descriptor in the sidecar is the
\* newest one and there is a loop beside it.
DescriptorKept == OwnedIsCurrent /\ LoopServes

\* What every step preserves.
IInv ==
    /\ TypeOK /\ CallSteps /\ Budgeted /\ ServiceBound /\ AnnouncedOnce /\ StoppedUnbound
    /\ DescriptorKept
=============================================================================
