------------------------------- MODULE Direct --------------------------------
(***************************************************************************)
(* The direct-tun modes: WgDirectVpnService over the Go device of          *)
(* ovpnengine-src/wgtun.go, and Ovpn3VpnService over the OpenVPN3 core,    *)
(* with their controllers, the commands of the user interface, the one VPN *)
(* slot of the OS and the stage all of them publish in VpnRuntime.         *)
(* DjVpnService appears as what the others see of it: it takes the slot,   *)
(* and a stop makes it give up its tun and publish IDLE in a coroutine.    *)
(* Its detail is in DjVpn.                                                 *)
(*                                                                         *)
(* Start commands and onDestroy are messages of the main thread, in order, *)
(* each for one instance of a service; the instances of a service are      *)
(* numbered from 1 and have fields of their own.  Each service runs a      *)
(* bring-up on a thread of its own, numbered from 1 over both services; a  *)
(* tun descriptor has the number of the thread that established it.        *)
(*                                                                         *)
(* External: the OS, and the OpenVPN3 core.  The OS creates an instance    *)
(* for a start command, or to bind to the service of a new tun, when there *)
(* is none; it destroys one that has called stopSelf() since its last      *)
(* start command was sent and that it is not bound to.  establish() takes  *)
(* the slot from another service of the app without a word; onRevoke comes *)
(* when another app takes it, on a thread of the OS.  The core ignores a   *)
(* stop() before connect(), closes the descriptor when connect() returns   *)
(* and, without tunPersist, when it reconnects.                            *)
(***************************************************************************)
EXTENDS Naturals, Sequences

CONSTANTS
    MaxThreads,   \* bound on bring-ups
    MaxGens,      \* bound on instances of a service
    MaxCommands   \* bound on commands and revocations

ASSUME DirectAssumption == MaxThreads \in Nat /\ MaxGens \in Nat /\ MaxCommands \in Nat

Threads == 1 .. MaxThreads
Gens == 1 .. MaxGens
Services == {"wg", "ovpn3"}
None == 0
Dj == MaxThreads + 1        \* DjVpnService, as a holder of the slot

VARIABLES
    slot,       \* whose tun the OS routes through: a thread, Dj or None
    open,       \* tun descriptors that are open
    status,     \* VpnRuntime's stage
    phase,      \* [Services -> phase]: WgDirectRuntime.phase, Ovpn3Runtime.phase
    inbox,      \* messages of the main thread
    djStops,    \* stop coroutines of DjVpnService on their way
    revoked,    \* onRevoke calls on their way: <<service, instance>>
    gen,        \* [Services -> number of the last instance]
    up,         \* [Services -> whether the OS keeps that instance]
    wanted,     \* [Services -> whether it was started and not stopped]
    bound,      \* [Services -> whether the OS is bound to it for its tun]
    holder,     \* [Services -> [Gens -> thread or None]]: connectThread
    stopping,   \* [Gens -> BOOLEAN]: WgDirectVpnService.stopping
    client,     \* [Gens -> thread or None]: Ovpn3VpnService.client
    device,     \* wgTunDev: the thread whose descriptor it drives
    thread,     \* [Threads -> record]
    started,    \* number of threads started
    calls,      \* [Services -> controller calls in progress]
    staged,     \* [Services -> whether a profile is staged]
    budget,     \* commands left
    stopped     \* history: the last command was the ring's stop

osVars == <<slot, open>>
published == <<status, phase>>
amsVars == <<gen, up, wanted, bound>>
svcVars == <<holder, stopping, client>>
threadVars == <<thread, started>>
uiVars == <<calls, staged, budget, stopped>>
vars == <<osVars, published, inbox, djStops, revoked, amsVars, svcVars, device, threadVars, uiVars>>

NoThread == [svc |-> "wg", gen |-> 0, pc |-> "none", told |-> FALSE, halted |-> FALSE]

Init ==
    /\ slot = None /\ open = {}
    /\ status = "IDLE" /\ phase = [s \in Services |-> "IDLE"]
    /\ inbox = <<>> /\ djStops = 0 /\ revoked = {}
    /\ gen = [s \in Services |-> 0]
    /\ up = [s \in Services |-> FALSE]
    /\ wanted = [s \in Services |-> FALSE]
    /\ bound = [s \in Services |-> FALSE]
    /\ holder = [s \in Services |-> [g \in Gens |-> None]]
    /\ stopping = [g \in Gens |-> FALSE] /\ client = [g \in Gens |-> None]
    /\ device = None
    /\ thread = [t \in Threads |-> NoThread] /\ started = 0
    /\ calls = [s \in Services |-> 0] /\ staged = [s \in Services |-> FALSE]
    /\ budget = MaxCommands /\ stopped = FALSE

At(t, pc) == thread[t].pc = pc
Goto(t, pc) == thread' = [thread EXCEPT ![t].pc = pc]

-----------------------------------------------------------------------------
(***************************************************************************)
(* The OS: services, the slot and the descriptors.                         *)
(***************************************************************************)

\* The instance a command sent now, or a bind, is for.
Reached(s) == IF up[s] THEN gen[s] ELSE gen[s] + 1

\* startService: the commands go to instances that are kept, or to new ones.
Send(s, what) == [to |-> s, gen |-> IF s = "dj" THEN 0 ELSE Reached(s), what |-> what]
StartServices(S) ==
    /\ \A s \in S : Reached(s) \in Gens
    /\ gen' = [s \in Services |-> IF s \in S THEN Reached(s) ELSE gen[s]]
    /\ up' = [s \in Services |-> up[s] \/ s \in S]
    /\ wanted' = [s \in Services |-> wanted[s] \/ s \in S]
    /\ UNCHANGED bound

\* The instance of s is let go: onDestroy comes after what is in the queue.
Release(s, queue) ==
    /\ up' = [up EXCEPT ![s] = FALSE]
    /\ inbox' = Append(queue, [to |-> s, gen |-> gen[s], what |-> "destroy"])

\* stopSelf() of an instance the OS still keeps, whatever commands for it are
\* queued; a service that has a tun stays until that is gone.
StopSelf(s, g, queue) ==
    /\ IF up[s] /\ gen[s] = g
       THEN /\ wanted' = [wanted EXCEPT ![s] = FALSE]
            /\ IF bound[s] THEN up' = up /\ inbox' = queue ELSE Release(s, queue)
       ELSE UNCHANGED <<up, wanted>> /\ inbox' = queue
    /\ UNCHANGED <<gen, bound>>

\* Builder.establish() by thread t: the slot changes hands, and the OS binds to
\* the service.
TakeSlot(t) ==
    LET s == thread[t].svc IN
    /\ Reached(s) \in Gens
    /\ slot' = t /\ open' = open \cup {t}
    /\ gen' = [gen EXCEPT ![s] = Reached(s)]
    /\ up' = [up EXCEPT ![s] = TRUE]
    /\ bound' = [bound EXCEPT ![s] = TRUE]
    /\ UNCHANGED wanted

Owns(s, x) == x \in Threads /\ thread[x].svc = s

\* The OS notices that the tun of s is gone or replaced.
Unbind(s) ==
    /\ bound[s] /\ ~Owns(s, slot)
    /\ bound' = [bound EXCEPT ![s] = FALSE]
    /\ IF wanted[s] THEN UNCHANGED <<up, inbox>> ELSE Release(s, inbox)
    /\ UNCHANGED <<osVars, published, djStops, revoked, gen, wanted, svcVars, device, threadVars, uiVars>>

\* The last descriptor of a tun is closed: the OS takes the routes away.
CloseTun(f) ==
    /\ open' = open \ {f}
    /\ slot' = IF f # None /\ slot = f THEN None ELSE slot

-----------------------------------------------------------------------------
(***************************************************************************)
(* stopTunnel of instance g, after which the threads are at pcs.           *)
(***************************************************************************)

\* A service publishes its phase, and mirrors it into VpnRuntime.
Publish(s, p) == phase' = [phase EXCEPT ![s] = p] /\ status' = p

\* stopTunnel does not clobber a just-published ERROR.
PublishIdle(s) == IF phase[s] = "ERROR" THEN UNCHANGED published ELSE Publish(s, "IDLE")

\* Mutant: the device is forgotten and not closed.
WgForget(g, pcs) ==
    /\ stopping' = [stopping EXCEPT ![g] = TRUE]
    /\ thread' = [t \in Threads |-> [thread[t] EXCEPT !.pc = pcs[t]]]
    /\ holder' = [holder EXCEPT !["wg"][g] = None]
    /\ device' = None
    /\ PublishIdle("wg")
    /\ UNCHANGED <<osVars, client>>

\* StopWireguardTun closes the device's descriptor, whichever instance started
\* it; the connect thread of this one is interrupted and forgotten.
WgStopTunnel(g, pcs) ==
    /\ stopping' = [stopping EXCEPT ![g] = TRUE]
    /\ thread' = [t \in Threads |-> [thread[t] EXCEPT !.halted = @ \/ holder["wg"][g] = t,
                                                      !.pc = pcs[t]]]
    /\ holder' = [holder EXCEPT !["wg"][g] = None]
    /\ CloseTun(device)
    /\ device' = None
    /\ PublishIdle("wg")
    /\ UNCHANGED client

\* client?.stop(), which the core hears only inside connect().
Ovpn3StopTunnel(g, pcs) ==
    /\ thread' = [t \in Threads |->
                    [thread[t] EXCEPT !.halted = @ \/ (client[g] = t /\ pcs[t] \in {"session", "fatal"}),
                                      !.pc = pcs[t]]]
    /\ client' = [client EXCEPT ![g] = None]
    /\ PublishIdle("ovpn3")
    /\ UNCHANGED <<osVars, holder, stopping, device>>

StopTunnel(s, g, pcs, queue) ==
    /\ \/ s = "wg" /\ WgStopTunnel(g, pcs)
       \/ s = "ovpn3" /\ Ovpn3StopTunnel(g, pcs)
    /\ StopSelf(s, g, queue)

Pcs == [t \in Threads |-> thread[t].pc]

-----------------------------------------------------------------------------
(***************************************************************************)
(* The main thread, and onRevoke.                                          *)
(***************************************************************************)

Message(s, g, what) == inbox # <<>> /\ Head(inbox) = [to |-> s, gen |-> g, what |-> what]

Spawn(s, g, first) ==
    /\ started' = started + 1
    /\ thread' = [thread EXCEPT ![started + 1] = [NoThread EXCEPT !.svc = s, !.gen = g, !.pc = first]]
    /\ holder' = [holder EXCEPT ![s][g] = started + 1]

\* onStartCommand with a profile staged: startTunnel, startClient.
StartTunnel(s, g) ==
    /\ Message(s, g, "connect")
    /\ staged[s] /\ holder[s][g] = None /\ started < MaxThreads
    /\ Spawn(s, g, IF s = "wg" THEN "establish" ELSE "load")
    /\ stopping' = IF s = "wg" THEN [stopping EXCEPT ![g] = FALSE] ELSE stopping
    /\ Publish(s, "CONNECTING")
    /\ inbox' = Tail(inbox)
    /\ UNCHANGED <<osVars, djStops, revoked, amsVars, client, device, uiVars>>

\* It returns at once if a thread is still there ...
StartBusy(s, g) ==
    /\ Message(s, g, "connect")
    /\ staged[s] /\ holder[s][g] # None
    /\ inbox' = Tail(inbox)
    /\ UNCHANGED <<osVars, published, djStops, revoked, amsVars, svcVars, device, threadVars, uiVars>>

\* ... and stops the service if the call has given up and taken the profile back.
StartUnstaged(s, g) ==
    /\ Message(s, g, "connect")
    /\ ~staged[s]
    /\ StopSelf(s, g, Tail(inbox))
    /\ UNCHANGED <<osVars, published, djStops, revoked, svcVars, device, threadVars, uiVars>>

\* ACTION_STOP, and onDestroy.
StopCommand(s, g) ==
    /\ Message(s, g, "stop") \/ Message(s, g, "destroy")
    /\ StopTunnel(s, g, Pcs, Tail(inbox))
    /\ UNCHANGED <<djStops, revoked, started, uiVars>>

OnRevoke(s, g) ==
    /\ <<s, g>> \in revoked
    /\ revoked' = revoked \ {<<s, g>>}
    /\ StopTunnel(s, g, Pcs, inbox)
    /\ UNCHANGED <<djStops, started, uiVars>>

\* DjVpnService launches a coroutine ...
DjStop ==
    /\ Message("dj", 0, "stop")
    /\ inbox' = Tail(inbox)
    /\ djStops' = djStops + 1
    /\ UNCHANGED <<osVars, published, revoked, amsVars, svcVars, device, threadVars, uiVars>>

\* ... which closes its tun, if it has one, and publishes IDLE in any case.
DjStopped ==
    /\ djStops > 0
    /\ djStops' = djStops - 1
    /\ slot' = IF slot = Dj THEN None ELSE slot
    /\ status' = "IDLE"
    /\ UNCHANGED <<open, phase, inbox, revoked, amsVars, svcVars, device, threadVars, uiVars>>

-----------------------------------------------------------------------------
(***************************************************************************)
(* WgDirectVpnService.runTunnel.                                           *)
(***************************************************************************)

\* A thread that has nothing to show fails, unless its service is stopping.
FailStep(t) == IF stopping[thread[t].gen] THEN "finally" ELSE "fail"

\* Without consent, establish() returns null.
WgEstablish(t) ==
    /\ At(t, "establish")
    /\ \/ TakeSlot(t) /\ Goto(t, "native")
       \/ Goto(t, "fail") /\ UNCHANGED <<osVars, amsVars>>
    /\ UNCHANGED <<published, inbox, djStops, revoked, svcVars, device, started, uiVars>>

\* Mutant: a device that is already running leaves the descriptor alone.
StartWireguardTunKeeps(t) ==
    /\ At(t, "native")
    /\ IF device = None THEN device' = t /\ Goto(t, "await")
                        ELSE UNCHANGED device /\ Goto(t, FailStep(t))
    /\ UNCHANGED <<osVars, published, inbox, djStops, revoked, amsVars, svcVars, started, uiVars>>

\* StartWireguardTun takes the descriptor over, or closes it and fails.
StartWireguardTun(t) ==
    /\ At(t, "native")
    /\ \/ device = None /\ device' = t /\ Goto(t, "await") /\ UNCHANGED osVars
       \/ CloseTun(t) /\ Goto(t, FailStep(t)) /\ UNCHANGED device
    /\ UNCHANGED <<published, inbox, djStops, revoked, amsVars, svcVars, started, uiVars>>

\* awaitHandshake returns true: the device, whosever it is, has had one.  (At the
\* deadline it does not look at `stopping`.)
Handshake(t) ==
    /\ At(t, "await") /\ device # None
    /\ Goto(t, "up")
    /\ UNCHANGED <<osVars, published, inbox, djStops, revoked, amsVars, svcVars, device, started, uiVars>>

\* ... or false: interrupted, stopped or out of time.
NoHandshake(t) ==
    /\ At(t, "await")
    /\ Goto(t, FailStep(t))
    /\ UNCHANGED <<osVars, published, inbox, djStops, revoked, amsVars, svcVars, device, started, uiVars>>

\* fail() publishes ERROR ...
Fail(t) ==
    /\ At(t, "fail")
    /\ Publish(thread[t].svc, "ERROR")
    /\ Goto(t, "stop")
    /\ UNCHANGED <<osVars, inbox, djStops, revoked, amsVars, svcVars, device, started, uiVars>>

\* ... and calls stopTunnel, on the thread itself.
FailStop(t) ==
    /\ At(t, "stop")
    /\ StopTunnel(thread[t].svc, thread[t].gen, [Pcs EXCEPT ![t] = "finally"], inbox)
    /\ UNCHANGED <<djStops, revoked, started, uiVars>>

\* onConnected.
WgUp(t) ==
    /\ At(t, "up")
    /\ Publish("wg", "CONNECTED")
    /\ Goto(t, "finally")
    /\ UNCHANGED <<osVars, inbox, djStops, revoked, amsVars, svcVars, device, started, uiVars>>

\* finally { connectThread = null }, whoever that is by now.
Finally(t) ==
    /\ At(t, "finally")
    /\ holder' = [holder EXCEPT ![thread[t].svc][thread[t].gen] = None]
    /\ Goto(t, "done")
    /\ UNCHANGED <<osVars, published, inbox, djStops, revoked, amsVars, stopping, client, device, started,
                   uiVars>>

-----------------------------------------------------------------------------
(***************************************************************************)
(* Ovpn3VpnService.runClient and the callbacks of the core.                *)
(***************************************************************************)

\* The library loads and the client exists, or neither.
Ovpn3Load(t) ==
    /\ At(t, "load")
    /\ \/ client' = [client EXCEPT ![thread[t].gen] = t] /\ Goto(t, "eval")
       \/ Goto(t, "fail") /\ UNCHANGED client
    /\ UNCHANGED <<osVars, published, inbox, djStops, revoked, amsVars, holder, stopping, device, started,
                   uiVars>>

\* eval_config accepts the profile and connect() is called, or it does not.
Ovpn3Connect(t) ==
    /\ At(t, "eval")
    /\ Goto(t, "session") \/ Goto(t, "fail")
    /\ UNCHANGED <<osVars, published, inbox, djStops, revoked, amsVars, svcVars, device, started, uiVars>>

InSession(t) == At(t, "session") /\ ~thread[t].halted

\* tunEstablish, when the server has pushed a configuration.
Ovpn3Establish(t) ==
    /\ InSession(t) /\ t \notin open
    /\ TakeSlot(t)
    /\ UNCHANGED <<published, inbox, djStops, revoked, svcVars, device, threadVars, uiVars>>

\* Event CONNECTED.
Ovpn3Up(t) ==
    /\ InSession(t) /\ t \in open /\ ~thread[t].told
    /\ thread' = [thread EXCEPT ![t].told = TRUE]
    /\ Publish("ovpn3", "CONNECTED")
    /\ UNCHANGED <<osVars, inbox, djStops, revoked, amsVars, svcVars, device, started, uiVars>>

\* Event RECONNECTING is logged; the core takes its tun down and will have
\* another established.
Ovpn3Reconnects(t) ==
    /\ InSession(t) /\ t \in open
    /\ CloseTun(t)
    /\ thread' = [thread EXCEPT ![t].told = FALSE]
    /\ UNCHANGED <<published, inbox, djStops, revoked, amsVars, svcVars, device, started, uiVars>>

\* A fatal event: fail(), inside the core's callback, in two steps.
Ovpn3Fatal(t) ==
    /\ InSession(t)
    /\ Publish("ovpn3", "ERROR")
    /\ Goto(t, "fatal")
    /\ UNCHANGED <<osVars, inbox, djStops, revoked, amsVars, svcVars, device, started, uiVars>>

Ovpn3Halt(t) ==
    /\ At(t, "fatal")
    /\ StopTunnel("ovpn3", thread[t].gen, [Pcs EXCEPT ![t] = "session"], inbox)
    /\ UNCHANGED <<djStops, revoked, started, uiVars>>

\* connect() returns after a stop: no error, and nothing to publish.
Ovpn3Stopped(t) ==
    /\ At(t, "session") /\ thread[t].halted
    /\ CloseTun(t)
    /\ Goto(t, "finally")
    /\ UNCHANGED <<published, inbox, djStops, revoked, amsVars, svcVars, device, started, uiVars>>

\* connect() returns with an error, surfaced unless the phase is CONNECTED.
Ovpn3Errs(t) ==
    /\ InSession(t)
    /\ CloseTun(t)
    /\ Goto(t, IF phase["ovpn3"] = "CONNECTED" THEN "finally" ELSE "fail")
    /\ UNCHANGED <<published, inbox, djStops, revoked, amsVars, svcVars, device, started, uiVars>>

-----------------------------------------------------------------------------
(***************************************************************************)
(* The user interface and the controllers.                                 *)
(***************************************************************************)

Command(stops) == budget > 0 /\ budget' = budget - 1 /\ stopped' = stops

\* A controller's start(): the phase is reset, the profile staged, and the call
\* waits.  Nothing keeps a second call from overlapping the first.
Call(s) ==
    /\ calls' = [calls EXCEPT ![s] = @ + 1]
    /\ staged' = [staged EXCEPT ![s] = TRUE]
    /\ phase' = [phase EXCEPT ![s] = "IDLE"]

\* connectWarp, whose button is off while connected or connecting, and
\* connectWireguardConfig, which an import reaches in any stage.
ConnectWg ==
    /\ Command(FALSE) /\ Call("wg")
    /\ StartServices({"wg"})
    /\ inbox' = inbox \o <<Send("dj", "stop"), Send("wg", "connect")>>
    /\ UNCHANGED <<osVars, status, djStops, revoked, svcVars, device, threadVars>>

\* connectVpnGateOvpn3, from a row of the list in any stage.
ConnectOvpn3 ==
    /\ Command(FALSE) /\ Call("ovpn3")
    /\ StartServices(Services)
    /\ inbox' = inbox \o <<Send("wg", "stop"), Send("dj", "stop"),
                           Send("ovpn3", "stop"), Send("ovpn3", "connect")>>
    /\ UNCHANGED <<osVars, status, djStops, revoked, svcVars, device, threadVars>>

\* A proxy is applied, from the ring or as the fallback of a failed direct call:
\* DjVpnService takes the slot and reports CONNECTED.
ConnectProxy ==
    /\ Command(FALSE) /\ slot # Dj
    /\ slot' = Dj
    /\ status' = "CONNECTED"
    /\ UNCHANGED <<open, phase, inbox, djStops, revoked, amsVars, svcVars, device, threadVars, calls, staged>>

\* onStop, from the ring.
StopTap ==
    /\ Command(TRUE) /\ status = "CONNECTED"
    /\ StartServices({"wg"})
    /\ inbox' = inbox \o <<Send("dj", "stop"), Send("wg", "stop")>>
    /\ UNCHANGED <<osVars, published, djStops, revoked, svcVars, device, threadVars, calls, staged>>

\* The stop of the tile and the widget, which know one kind of tunnel.
WidgetStop ==
    /\ Command(FALSE) /\ status = "CONNECTED"
    /\ inbox' = Append(inbox, Send("dj", "stop"))
    /\ UNCHANGED <<osVars, published, djStops, revoked, amsVars, svcVars, device, threadVars, calls, staged>>

\* The Disconnect action of a service's own notification.
Disconnect(s) ==
    /\ Command(FALSE) /\ phase[s] \in {"CONNECTING", "CONNECTED"}
    /\ StartServices({s})
    /\ inbox' = Append(inbox, Send(s, "stop"))
    /\ UNCHANGED <<osVars, published, djStops, revoked, svcVars, device, threadVars, calls, staged>>

\* Another app takes the VPN: onRevoke of whoever has the slot.
OsRevokes ==
    /\ Command(FALSE) /\ slot # None
    /\ slot' = None
    /\ revoked' = revoked \cup {<<s, gen[s]>> : s \in {s \in Services : Owns(s, slot)}}
    /\ djStops' = IF slot = Dj THEN djStops + 1 ELSE djStops
    /\ UNCHANGED <<open, published, inbox, amsVars, svcVars, device, threadVars, calls, staged>>

\* A call ends and takes the profile back, its own or a later call's.
CallEnds(s) ==
    /\ calls[s] > 0
    /\ calls' = [calls EXCEPT ![s] = @ - 1]
    /\ staged' = [staged EXCEPT ![s] = FALSE]
    /\ UNCHANGED <<osVars, published, djStops, revoked, svcVars, device, threadVars, budget, stopped>>

\* start() sees CONNECTED and returns true.
CallSucceeds(s) ==
    /\ CallEnds(s) /\ phase[s] = "CONNECTED"
    /\ UNCHANGED <<inbox, amsVars>>

\* It sees ERROR, or waits too long: it stops what it has started.
CallFails(s) ==
    /\ CallEnds(s)
    /\ StartServices({s})
    /\ inbox' = Append(inbox, Send(s, "stop"))

-----------------------------------------------------------------------------
MainThread ==
    \/ \E s \in Services, g \in Gens :
          StartTunnel(s, g) \/ StartBusy(s, g) \/ StartUnstaged(s, g) \/ StopCommand(s, g)
    \/ DjStop

Thread(t) ==
    \/ WgEstablish(t) \/ StartWireguardTun(t) \/ Handshake(t) \/ NoHandshake(t) \/ WgUp(t)
    \/ Fail(t) \/ FailStop(t) \/ Finally(t)
    \/ Ovpn3Load(t) \/ Ovpn3Connect(t) \/ Ovpn3Establish(t) \/ Ovpn3Up(t) \/ Ovpn3Reconnects(t)
    \/ Ovpn3Fatal(t) \/ Ovpn3Halt(t) \/ Ovpn3Stopped(t) \/ Ovpn3Errs(t)

User ==
    \/ ConnectWg \/ ConnectOvpn3 \/ ConnectProxy \/ StopTap \/ WidgetStop \/ OsRevokes
    \/ \E s \in Services : Disconnect(s)

Next ==
    \/ MainThread \/ DjStopped
    \/ \E s \in Services, g \in Gens : OnRevoke(s, g)
    \/ \E s \in Services : Unbind(s) \/ CallSucceeds(s) \/ CallFails(s)
    \/ \E t \in Threads : Thread(t)
    \/ User

Spec == Init /\ [][Next]_vars

-----------------------------------------------------------------------------
(***************************************************************************)
(* Properties.                                                             *)
(***************************************************************************)

Stages == {"IDLE", "CONNECTING", "CONNECTED", "ERROR"}
Messages == [to : Services \cup {"dj"}, gen : Nat, what : {"connect", "stop", "destroy"}]
WgSteps == {"establish", "native", "await", "up"}
Ovpn3Steps == {"load", "eval", "session", "fatal"}
Steps == WgSteps \cup Ovpn3Steps \cup {"none", "fail", "stop", "finally", "done"}
ThreadStates == [svc : Services, gen : Nat, told : BOOLEAN, halted : BOOLEAN, pc : Steps]

\* Every variable has its type.
TypeOK ==
    /\ slot \in 0 .. Dj /\ open \subseteq Threads
    /\ status \in Stages /\ phase \in [Services -> Stages]
    /\ inbox \in Seq(Messages)
    /\ djStops \in Nat /\ revoked \subseteq Services \X Nat
    /\ gen \in [Services -> Nat] /\ up \in [Services -> BOOLEAN]
    /\ wanted \in [Services -> BOOLEAN] /\ bound \in [Services -> BOOLEAN]
    /\ holder \in [Services -> [Gens -> 0 .. MaxThreads]]
    /\ stopping \in [Gens -> BOOLEAN] /\ client \in [Gens -> 0 .. MaxThreads]
    /\ device \in 0 .. MaxThreads
    /\ thread \in [Threads -> ThreadStates]
    /\ started \in 0 .. MaxThreads
    /\ calls \in [Services -> Nat] /\ staged \in [Services -> BOOLEAN]
    /\ budget \in Nat /\ stopped \in BOOLEAN

\* A detached WireGuard descriptor always has one owner: the thread that is
\* about to hand it over, or the Go device.  Nobody else may close it, and a
\* start that fails, or finds the device taken, must (WgDirectVpnService 153).
DescriptorsOwned ==
    \A t \in open : thread[t].svc = "wg" => device = t \/ At(t, "native")

\* The OS never routes the device into a tun nobody reads: the tun in the slot is
\* driven by the Go device or about to be, or by a client inside connect(),
\* whatever instance stops, fails, reconnects or is destroyed meanwhile.
RoutesDriven ==
    slot \in Threads =>
       IF thread[slot].svc = "wg" THEN device = slot \/ At(slot, "native")
                                  ELSE slot \in open /\ (At(slot, "session") \/ At(slot, "fatal"))

\* A thread runs the code of its own service.
OwnSteps ==
    \A t \in Threads : /\ thread[t].pc \in WgSteps => thread[t].svc = "wg"
                       /\ thread[t].pc \in Ovpn3Steps => thread[t].svc = "ovpn3"

\* A thread that has not been started has done nothing.
Unstarted == \A t \in Threads : t > started => At(t, "none") /\ t \notin open /\ t # slot

\* What every step preserves.
IInv == TypeOK /\ OwnSteps /\ Unstarted /\ DescriptorsOwned /\ RoutesDriven

\* Nothing is going on and nothing is waited for.
Quiet ==
    /\ inbox = <<>> /\ djStops = 0 /\ revoked = {}
    /\ \A s \in Services : calls[s] = 0 /\ (bound[s] => Owns(s, slot))
    /\ \A t \in Threads : \/ At(t, "none") \/ At(t, "done")
                          \/ InSession(t) /\ thread[t].told

\* The ring's tap "while connected stops" (ProxyViewModel): once it has been
\* answered with IDLE, "No tunnel; nothing routed", nothing is.
IdleMeansDown == Quiet /\ stopped /\ status = "IDLE" => slot = None

\* An OpenVPN3 phase CONNECTED, "the tun is established + routing" (Ovpn3Phase),
\* has a session: runClient says nothing when one that was CONNECTED ends.
ConnectedHasSession ==
    Quiet /\ phase["ovpn3"] = "CONNECTED" => \E t \in Threads : InSession(t)

\* A WireGuard phase IDLE is "No direct-tun tunnel" (WgDirectPhase).
WgIdleMeansDown == Quiet /\ phase["wg"] = "IDLE" => device = None

\* There is "only one OpenVPN3 tunnel at a time" (Ovpn3EngineController.start).
OneOvpn3Tunnel ==
    \A t, u \in open : InSession(t) /\ InSession(u) => t = u
=============================================================================
