------------------------------ MODULE Hotspot -------------------------------
(***************************************************************************)
(* The hotspot lane: HotspotControllerImpl over LanShareServer and         *)
(* RootRedirector.                                                         *)
(*                                                                         *)
(* The buttons run a share operation on the main thread from beginning to  *)
(* end; the collector of the tunnel's state runs stopShare on an I/O       *)
(* thread; the registrar starts a thread that reverts what a previous      *)
(* process left in the kernel.                                             *)
(*                                                                         *)
(* External: su, which may refuse or time out, the packet filter and       *)
(* ip_forward, which outlive the process, and the tunnel.                  *)
(***************************************************************************)
EXTENDS Naturals

CONSTANTS
    MaxShares,          \* bound on LAN endpoints opened
    MaxHotspotEvents,   \* bound on taps and changes of the tunnel
    MaxRelaunches       \* bound on deaths of the process

ASSUME HotspotAssumption ==
    MaxShares \in Nat /\ MaxHotspotEvents \in Nat /\ MaxRelaunches \in Nat

Actors == {"main", "collector"}

VARIABLES
    share,        \* _share
    lanServer,    \* the endpoint it refers to, 0 when null
    listening,    \* the endpoints that accept clients
    shares,       \* endpoints opened
    redirect,     \* rootRedirector.active
    rules,        \* DJPROXY_* chains, ip rule or table are in the kernel
    forward,      \* ip_forward
    stash,        \* the value apply() put aside, "none" without the file
    before,       \* history: ip_forward before this app touched it
    refused,      \* history: su has failed a revert
    unsaved,      \* history: a script could not put ip_forward aside
    crossed,      \* history: an operation began while another was under way
    tun,          \* "off", "opening" (an interface, no stage yet), "on", "closing"
    emitted,      \* a state the collector has not seen
    work,         \* [Actors -> [op, pc]]: the share operation under way
    reconciling,  \* reconcileStaleRules has not run yet
    hotspotEvents, relaunches

shareVars == <<share, lanServer, listening, shares>>
kernelVars == <<rules, forward, stash, before, refused, unsaved>>
envVars == <<tun, emitted, hotspotEvents, relaunches, crossed>>
hotspotVars == <<shareVars, kernelVars, redirect, envVars, work, reconciling>>

NoWork == [op |-> "none", pc |-> "none"]

HotspotInit ==
    /\ share = "Off" /\ lanServer = 0 /\ listening = {} /\ shares = 0
    /\ redirect = FALSE /\ rules = FALSE /\ stash = "none"
    /\ refused = FALSE /\ unsaved = FALSE /\ crossed = FALSE
    /\ forward \in {"0", "1"} /\ before = forward
    /\ tun = "off" /\ emitted = TRUE
    /\ work = [a \in Actors |-> NoWork]
    /\ reconciling = TRUE
    /\ hotspotEvents = 0 /\ relaunches = 0

WorkAt(a, pc) == work[a].pc = pc
Go(a, pc) == work' = [work EXCEPT ![a].pc = pc]
Finish(a) == work' = [work EXCEPT ![a] = NoWork]
Resting == \A a \in Actors : work[a] = NoWork
HotspotIdle == ~emitted /\ ~reconciling /\ Resting

TunUp == tun \in {"opening", "on"}       \* the interface is there
StageUp == tun \in {"on", "closing"}     \* CONNECTED or RECONNECTING

\* An operation begins.
Begins == crossed' = (crossed \/ reconciling \/ ~Resting)

\* Mutant: the revert script leaves ip_forward as apply() set it.
RevertedOpen ==
    \/ rules' = FALSE /\ stash' = "none" /\ UNCHANGED <<forward, before, refused, unsaved>>
    \/ refused' = TRUE /\ UNCHANGED <<rules, forward, stash, before, unsaved>>

\* buildRevertScript under su; nobody looks at whether su ran it.
Reverted ==
    \/ /\ rules' = FALSE /\ stash' = "none"
       /\ forward' = IF stash = "none" THEN forward ELSE stash
       /\ UNCHANGED <<before, refused, unsaved>>
    \/ refused' = TRUE /\ UNCHANGED <<rules, forward, stash, before, unsaved>>

-----------------------------------------------------------------------------
(***************************************************************************)
(* stopShareInternal, and what follows it in each operation.               *)
(***************************************************************************)

AfterStop(a) ==
    CASE work[a].op = "off" -> "publish"
      [] work[a].op = "lan" -> "listen"
      [] work[a].op = "root" -> "detect"

StopServer(a) ==
    /\ WorkAt(a, "stop") /\ listening' = listening \ {lanServer}
    /\ Go(a, "forget")
    /\ UNCHANGED <<share, lanServer, shares, kernelVars, redirect, envVars, reconciling>>

ForgetServer(a) ==
    /\ WorkAt(a, "forget") /\ lanServer' = 0
    /\ Go(a, IF redirect THEN "revert" ELSE AfterStop(a))
    /\ UNCHANGED <<share, listening, shares, kernelVars, redirect, envVars, reconciling>>

Revert(a) ==
    /\ WorkAt(a, "revert") /\ Reverted /\ Go(a, "inactive")
    /\ UNCHANGED <<shareVars, redirect, envVars, reconciling>>

Inactive(a) ==
    /\ WorkAt(a, "inactive") /\ redirect' = FALSE /\ Go(a, AfterStop(a))
    /\ UNCHANGED <<shareVars, kernelVars, envVars, reconciling>>

\* stopShare
PublishOff(a) ==
    /\ WorkAt(a, "publish") /\ share' = "Off" /\ Finish(a)
    /\ UNCHANGED <<lanServer, listening, shares, kernelVars, redirect, envVars, reconciling>>

\* startLanShare: the endpoint is bound to the LAN address, or the call fails ...
Listen(a) ==
    /\ WorkAt(a, "listen")
    /\ \/ Finish(a) /\ UNCHANGED <<listening, shares>>
       \/ /\ shares < MaxShares /\ shares' = shares + 1
          /\ listening' = listening \cup {shares + 1} /\ Go(a, "keep")
    /\ UNCHANGED <<share, lanServer, kernelVars, redirect, envVars, reconciling>>

\* ... remembered ...
Keep(a) ==
    /\ WorkAt(a, "keep") /\ lanServer' = shares /\ Go(a, "show")
    /\ UNCHANGED <<share, listening, shares, kernelVars, redirect, envVars, reconciling>>

\* ... and shown.  The same ends startRootTransparent.
ShowShare(a) ==
    /\ WorkAt(a, "show")
    /\ share' = IF work[a].op = "lan" THEN "Lan" ELSE "Root"
    /\ Finish(a)
    /\ UNCHANGED <<lanServer, listening, shares, kernelVars, redirect, envVars, reconciling>>

\* RootRedirector.apply: already active; no tun, or su denied; or go on ...
Detect(a) ==
    /\ WorkAt(a, "detect")
    /\ \/ redirect /\ Go(a, "show")
       \/ ~redirect /\ Finish(a)
       \/ ~redirect /\ TunUp /\ Go(a, "script")
    /\ UNCHANGED <<shareVars, kernelVars, redirect, envVars, reconciling>>

\* ... to the script, which puts ip_forward aside, goes on if it cannot, and may
\* stop half-way or not run at all; its route needs the interface.
Script(a) ==
    /\ WorkAt(a, "script")
    /\ \/ /\ forward' = "1" /\ rules' = TRUE
          /\ \/ stash' = forward /\ UNCHANGED unsaved
             \/ unsaved' = TRUE /\ UNCHANGED stash
          /\ (TunUp /\ Go(a, "active")) \/ Go(a, "undo")
       \/ UNCHANGED <<stash, forward, rules, unsaved>> /\ Go(a, "undo")
    /\ UNCHANGED <<shareVars, before, refused, redirect, envVars, reconciling>>

Active(a) ==
    /\ WorkAt(a, "active") /\ redirect' = TRUE /\ Go(a, "show")
    /\ UNCHANGED <<shareVars, kernelVars, envVars, reconciling>>

Undo(a) ==
    /\ WorkAt(a, "undo") /\ Reverted /\ Finish(a)
    /\ UNCHANGED <<shareVars, redirect, envVars, reconciling>>

-----------------------------------------------------------------------------
\* The collector: a redirect does not outlive the tunnel.
Collect ==
    /\ emitted /\ emitted' = FALSE /\ work["collector"] = NoWork
    /\ IF share = "Root" /\ ~StageUp
       THEN Begins /\ work' = [work EXCEPT !["collector"] = [op |-> "off", pc |-> "stop"]]
       ELSE UNCHANGED <<work, crossed>>
    /\ UNCHANGED <<shareVars, kernelVars, redirect, tun, hotspotEvents, relaunches,
                   reconciling>>

\* reconcileStaleRules.
Reconcile ==
    /\ reconciling /\ reconciling' = FALSE /\ Reverted
    /\ UNCHANGED <<shareVars, redirect, envVars, work>>

HotspotEvent == hotspotEvents < MaxHotspotEvents /\ hotspotEvents' = hotspotEvents + 1

\* The buttons: which ones there are depends on what is shown.
ShareTap(op) ==
    /\ HotspotEvent /\ work["main"] = NoWork
    /\ (op = "off") <=> (share # "Off")
    /\ Begins /\ work' = [work EXCEPT !["main"] = [op |-> op, pc |-> "stop"]]
    /\ UNCHANGED <<shareVars, kernelVars, redirect, tun, emitted, relaunches, reconciling>>

\* A bring-up establishes the interface and publishes CONNECTED, or fails; a
\* teardown closes the interface and then publishes that it is gone.
TunChanges ==
    /\ HotspotEvent
    /\ \/ tun = "off" /\ tun' = "opening" /\ UNCHANGED emitted
       \/ tun = "opening" /\ tun' \in {"on", "off"} /\ emitted' = TRUE
       \/ tun = "on" /\ tun' = "closing" /\ UNCHANGED emitted
       \/ tun = "closing" /\ tun' = "off" /\ emitted' = TRUE
    /\ UNCHANGED <<shareVars, kernelVars, redirect, work, relaunches, crossed, reconciling>>

\* The process dies and is started again; the kernel keeps what it has.
Relaunch ==
    /\ relaunches < MaxRelaunches /\ relaunches' = relaunches + 1
    /\ share' = "Off" /\ lanServer' = 0 /\ listening' = {} /\ redirect' = FALSE
    /\ tun' = "off" /\ emitted' = TRUE
    /\ work' = [a \in Actors |-> NoWork]
    /\ reconciling' = TRUE
    /\ UNCHANGED <<shares, kernelVars, hotspotEvents, crossed>>

ShareStep(a) ==
    \/ StopServer(a) \/ ForgetServer(a) \/ Revert(a) \/ Inactive(a) \/ PublishOff(a)
    \/ Listen(a) \/ Keep(a) \/ ShowShare(a)
    \/ Detect(a) \/ Script(a) \/ Active(a) \/ Undo(a)

HotspotNext ==
    \/ \E a \in Actors : ShareStep(a)
    \/ \E op \in {"off", "lan", "root"} : ShareTap(op)
    \/ Collect \/ Reconcile \/ TunChanges \/ Relaunch

HotspotSpec == HotspotInit /\ [][HotspotNext]_hotspotVars

-----------------------------------------------------------------------------
WorkStates ==
    [op : {"none", "off", "lan", "root"},
     pc : {"none", "stop", "forget", "revert", "inactive", "publish", "listen", "keep", "show",
           "detect", "script", "active", "undo"}]

\* Every variable has its type.
HotspotTypeOK ==
    /\ share \in {"Off", "Lan", "Root"}
    /\ lanServer \in 0 .. MaxShares /\ listening \subseteq 1 .. MaxShares /\ shares \in 0 .. MaxShares
    /\ redirect \in BOOLEAN /\ rules \in BOOLEAN /\ refused \in BOOLEAN
    /\ unsaved \in BOOLEAN /\ crossed \in BOOLEAN
    /\ forward \in {"0", "1"} /\ before \in {"0", "1"} /\ stash \in {"none", "0", "1"}
    /\ tun \in {"off", "opening", "on", "closing"} /\ emitted \in BOOLEAN /\ reconciling \in BOOLEAN
    /\ work \in [Actors -> WorkStates]
    /\ hotspotEvents \in 0 .. MaxHotspotEvents /\ relaunches \in 0 .. MaxRelaunches

\* A share that is over leaves neither rules nor forwarding behind, whether it was
\* stopped, failed half-way or was cut off by a death of the process at any
\* statement (reconcileStaleRules), and whatever the tunnel did meanwhile.  It is
\* said of operations that come one after another, of a su that does not refuse
\* to take the rules back, and of scripts that could put ip_forward aside.
SharesLeaveNothing ==
    HotspotIdle /\ ~crossed /\ share # "Root" /\ ~refused =>
        ~rules /\ (~unsaved => forward = before)

\* "If the tun drops while a root transparent redirect is active, it tears the
\* redirect down so it cannot silently point tethered clients at a dead table"
\* (HotspotControllerImpl).
RedirectHasTunnel == HotspotIdle /\ share = "Root" => tun # "off"

\* The controller "publishes honest capability/share state": other devices are
\* let in exactly while that is shown.
EndpointShown == HotspotIdle => listening = IF share = "Lan" THEN {lanServer} ELSE {}

\* "Do not leave ip_forward globally enabled after the share is stopped"
\* (buildApplyScript), whoever's share it was, unless su refused or the value
\* could not be put aside.
ForwardRestored ==
    HotspotIdle /\ share = "Off" /\ ~refused /\ ~unsaved /\ ~rules => forward = before

-----------------------------------------------------------------------------
(***************************************************************************)
(* The parts of the inductive invariant.                                   *)
(***************************************************************************)

\* The kernel is as this app found it, or a revert will make it so.
Back == unsaved \/ forward = before
Clean == refused \/ (~rules /\ stash = "none" /\ Back)
Restorable == refused \/ unsaved \/ stash = before \/ (stash = "none" /\ forward = before)

\* What is shown, between operations and at the beginning of one.
RedirectAsShown == IF share = "Root" THEN redirect ELSE ~redirect /\ Clean

\* One operation at a time.
OneAtATime ==
    /\ reconciling => Resting /\ share = "Off" /\ ~redirect
    /\ work["main"] = NoWork \/ work["collector"] = NoWork
    /\ Resting /\ ~reconciling => RedirectAsShown
    /\ Restorable

\* Statements are of an operation.
WorkNamed == \A a \in Actors : work[a].pc = "none" <=> work[a].op = "none"

\* How far an operation has got.
Progressing(a) ==
    /\ work[a].pc # "none" => (work[a].op = "off" <=> share # "Off")
    /\ work[a].pc \in {"stop", "forget"} => RedirectAsShown
    /\ work[a].pc \in {"revert", "inactive"} => share = "Root"
    /\ work[a].pc \in {"inactive", "publish", "listen", "keep", "detect", "script"} => Clean
    /\ work[a].pc \in {"publish", "listen", "keep", "detect", "script", "active", "undo"} => ~redirect
    /\ work[a].pc = "publish" => work[a].op = "off"
    /\ work[a].pc \in {"listen", "keep"} => work[a].op = "lan"
    /\ work[a].pc \in {"detect", "script", "active", "undo"} => work[a].op = "root"
    /\ work[a].pc = "show" =>
          \/ work[a].op = "lan" /\ ~redirect /\ Clean
          \/ work[a].op = "root" /\ redirect

\* What every step preserves.
HotspotInv ==
    /\ HotspotTypeOK /\ WorkNamed
    /\ crossed \/ (OneAtATime /\ \A a \in Actors : Progressing(a))
=============================================================================
