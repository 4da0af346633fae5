---------------------------- MODULE DirectProofs -----------------------------
(***************************************************************************)
(* Proofs about Direct, for any number of bring-ups, instances and         *)
(* commands: types, one owner for every detached WireGuard descriptor      *)
(* (DescriptorsOwned), and no tun in the slot that nobody reads            *)
(* (RoutesDriven), however starts, failures, reconnects, stops, destroyed  *)
(* services and revocations interleave.                                    *)
(*                                                                         *)
(* IInv of Direct adds what these need: a thread runs the code of its own  *)
(* service, and one that is not started has neither descriptor nor slot.   *)
(* An action falls into one of a few kinds by what it does to the threads, *)
(* the descriptors, the device and the slot; a lemma settles each kind.    *)
(***************************************************************************)
EXTENDS Direct, TLAPS

\* The initial states satisfy the invariant.
LEMMA InitIInv == ASSUME Init PROVE IInv
<1> USE DirectAssumption DEF Init, NoThread, None
<1>1. NoThread \in ThreadStates
  BY DEF ThreadStates, Services, Steps
<1>2. TypeOK
  <2>1. inbox \in Seq(Messages) /\ thread \in [Threads -> ThreadStates]
    BY <1>1
  <2>2. None \in 0 .. MaxThreads /\ None \in 0 .. Dj
    BY DEF Dj
  <2>3. up \in [Services -> BOOLEAN] /\ wanted \in [Services -> BOOLEAN] /\ bound \in [Services -> BOOLEAN]
    OBVIOUS
  <2>4. stopping \in [Gens -> BOOLEAN] /\ staged \in [Services -> BOOLEAN] /\ stopped \in BOOLEAN
    OBVIOUS
  <2> QED
    BY <2>1, <2>2, <2>3, <2>4 DEF TypeOK, Stages
<1>3. OwnSteps
  BY DEF OwnSteps, WgSteps, Ovpn3Steps
<1>4. Unstarted /\ DescriptorsOwned /\ RoutesDriven
  BY DEF Unstarted, DescriptorsOwned, RoutesDriven, At, Threads
<1> QED
  BY <1>2, <1>3, <1>4 DEF IInv

\* No thread, and no slot, is a value of the variables that hold one.
LEMMA NoneTyped ==
  /\ None \in 0 .. MaxThreads /\ None \in 0 .. Dj /\ None \notin Threads
  /\ Dj \in 0 .. Dj /\ Dj \notin Threads
  /\ \A t \in Threads : t \in 0 .. Dj /\ t \in 0 .. MaxThreads
  BY DirectAssumption DEF None, Dj, Threads

\* A thread that goes to another step stays a thread of its service, and no
\* other thread moves.
LEMMA GotoMoves ==
  ASSUME TypeOK, NEW t \in Threads, NEW pc \in Steps, Goto(t, pc)
  PROVE  /\ thread' \in [Threads -> ThreadStates]
         /\ \A u \in Threads : /\ thread'[u].svc = thread[u].svc
                               /\ thread'[u].pc = IF u = t THEN pc ELSE thread[u].pc
  BY DEF TypeOK, Goto, ThreadStates

-----------------------------------------------------------------------------
(***************************************************************************)
(* The OS keeps its types.                                                 *)
(***************************************************************************)

\* A command for an instance is a message.
LEMMA SendTyped ==
  ASSUME TypeOK, NEW s \in Services \cup {"dj"}, NEW what \in {"connect", "stop"}
  PROVE  Send(s, what) \in Messages
<1>1. s # "dj" => Reached(s) \in Nat
  BY DEF TypeOK, Reached
<1> QED
  BY <1>1 DEF Send, Messages

\* startService.
LEMMA ServicesStarted ==
  ASSUME TypeOK, NEW S \in SUBSET Services, StartServices(S)
  PROVE  /\ gen' \in [Services -> Nat] /\ up' \in [Services -> BOOLEAN]
         /\ wanted' \in [Services -> BOOLEAN] /\ bound' \in [Services -> BOOLEAN]
<1>1. \A s \in Services : Reached(s) \in Nat
  BY DEF TypeOK, Reached
<1> QED
  BY <1>1 DEF TypeOK, StartServices

\* An instance that is let go.
LEMMA Released ==
  ASSUME TypeOK, NEW s \in Services, NEW queue \in Seq(Messages), Release(s, queue)
  PROVE  up' \in [Services -> BOOLEAN] /\ inbox' \in Seq(Messages)
<1>1. [to |-> s, gen |-> gen[s], what |-> "destroy"] \in Messages
  BY DEF TypeOK, Messages
<1> QED
  BY <1>1 DEF TypeOK, Release

\* stopSelf.
LEMMA SelfStopped ==
  ASSUME TypeOK, NEW s \in Services, NEW g, NEW queue \in Seq(Messages), StopSelf(s, g, queue)
  PROVE  /\ gen' \in [Services -> Nat] /\ up' \in [Services -> BOOLEAN]
         /\ wanted' \in [Services -> BOOLEAN] /\ bound' \in [Services -> BOOLEAN]
         /\ inbox' \in Seq(Messages)
<1>1. up' \in [Services -> BOOLEAN] /\ inbox' \in Seq(Messages)
  <2>1. \/ up' = up /\ inbox' = queue
        \/ Release(s, queue)
    BY DEF StopSelf
  <2> QED
    BY <2>1, Released DEF TypeOK
<1>2. wanted' \in [Services -> BOOLEAN]
  BY DEF TypeOK, StopSelf
<1> QED
  BY <1>1, <1>2 DEF TypeOK, StopSelf

\* establish().
LEMMA SlotTaken ==
  ASSUME TypeOK, NEW t \in Threads, TakeSlot(t)
  PROVE  /\ gen' \in [Services -> Nat] /\ up' \in [Services -> BOOLEAN]
         /\ wanted' \in [Services -> BOOLEAN] /\ bound' \in [Services -> BOOLEAN]
         /\ slot' = t /\ open' = open \cup {t}
<1>1. thread[t].svc \in Services /\ Reached(thread[t].svc) \in Nat
  BY DEF TypeOK, ThreadStates, Reached
<1>2. up' \in [Services -> BOOLEAN] /\ bound' \in [Services -> BOOLEAN]
  BY DEF TypeOK, TakeSlot
<1>3. gen' \in [Services -> Nat]
  BY <1>1 DEF TypeOK, TakeSlot
<1> QED
  BY <1>2, <1>3 DEF TypeOK, TakeSlot

\* Closing a tun takes no slot and opens nothing, and its routes are gone.
LEMMA TunClosed ==
  ASSUME TypeOK, NEW f \in Threads, CloseTun(f)
  PROVE  slot' \in {slot, None} /\ slot' # f /\ open' = open \ {f}
  BY NoneTyped DEF TypeOK, CloseTun

\* A published phase is one.
LEMMA PublishTyped ==
  ASSUME TypeOK, NEW s \in Services, NEW p \in Stages, Publish(s, p)
  PROVE  phase' \in [Services -> Stages] /\ status' \in Stages
  BY DEF TypeOK, Publish

\* A command is counted.
LEMMA CommandTyped ==
  ASSUME TypeOK, NEW stops \in BOOLEAN, Command(stops)
  PROVE  stopped' \in BOOLEAN /\ budget' \in Nat
<1>1. stopped' = stops
  BY DEF Command
<1>2. budget' = budget - 1 /\ budget > 0 /\ budget \in Nat
  BY DEF Command, TypeOK
<1> QED
  BY <1>1, <1>2

\* A controller's call begins.
LEMMA CallTyped ==
  ASSUME TypeOK, NEW s \in Services, Call(s)
  PROVE  /\ calls' \in [Services -> Nat] /\ staged' \in [Services -> BOOLEAN]
         /\ phase' \in [Services -> Stages]
<1>1. calls' \in [Services -> Nat]
  BY DEF TypeOK, Call
<1>2. staged' \in [Services -> BOOLEAN]
  BY DEF TypeOK, Call
<1>3. phase' \in [Services -> Stages]
  BY DEF TypeOK, Call, Stages
<1> QED
  BY <1>1, <1>2, <1>3

-----------------------------------------------------------------------------
(***************************************************************************)
(* The kinds of steps.                                                     *)
(***************************************************************************)

\* The threads, descriptors and device are left alone, and the slot is at most
\* lost to DjVpnService or another app.
LEMMA SlotLeaves ==
  ASSUME IInv, TypeOK', UNCHANGED <<open, device, thread, started>>, slot' \in {slot, None, Dj}
  PROVE  IInv'
<1> USE DEF At
<1>1. OwnSteps' /\ DescriptorsOwned'
  BY DEF IInv, OwnSteps, DescriptorsOwned
<1>2. Unstarted'
  BY NoneTyped DEF IInv, Unstarted
<1>3. RoutesDriven'
  <2>1. CASE slot' = slot
    BY <2>1 DEF IInv, RoutesDriven
  <2>2. CASE slot' \in {None, Dj}
    BY <2>2, NoneTyped DEF RoutesDriven
  <2> QED
    BY <2>1, <2>2
<1> QED
  BY <1>1, <1>2, <1>3 DEF IInv

\* A thread moves that neither hands a descriptor over nor leaves connect().
LEMMA ThreadMoves ==
  ASSUME IInv, TypeOK', UNCHANGED <<slot, open, device, started>>,
         NEW t \in Threads, NEW pc \in Steps, Goto(t, pc),
         thread[t].pc \notin {"none", "native", "fatal"},
         thread[t].pc = "session" => pc = "fatal",
         pc \in WgSteps => thread[t].svc = "wg",
         pc \in Ovpn3Steps => thread[t].svc = "ovpn3"
  PROVE  IInv'
<1> USE DEF At
<1>1. \A u \in Threads : /\ thread'[u].svc = thread[u].svc
                         /\ thread'[u].pc = IF u = t THEN pc ELSE thread[u].pc
  BY GotoMoves DEF IInv
<1>2. OwnSteps'
  BY <1>1 DEF IInv, OwnSteps
<1>3. Unstarted'
  BY <1>1 DEF IInv, Unstarted
<1>4. DescriptorsOwned'
  BY <1>1 DEF IInv, TypeOK, DescriptorsOwned
<1>5. RoutesDriven'
  BY <1>1 DEF IInv, RoutesDriven
<1> QED
  BY <1>2, <1>3, <1>4, <1>5 DEF IInv

\* A client leaves connect(), or the core reconnects: its tun is closed.
LEMMA SessionCloses ==
  ASSUME IInv, TypeOK', UNCHANGED <<device, started>>,
         NEW t \in Threads, NEW pc \in {"session", "fail", "finally"},
         thread[t].pc = "session", CloseTun(t),
         \A u \in Threads : /\ thread'[u].svc = thread[u].svc
                            /\ thread'[u].pc = IF u = t THEN pc ELSE thread[u].pc
  PROVE  IInv'
<1> USE DEF At
<1>1. slot' \in {slot, None} /\ slot' # t /\ open' = open \ {t}
  BY TunClosed DEF IInv
<1>2. thread[t].svc = "ovpn3"
  BY DEF IInv, OwnSteps, Ovpn3Steps
<1>3. OwnSteps'
  BY <1>2 DEF IInv, OwnSteps, WgSteps, Ovpn3Steps
<1>4. Unstarted'
  BY <1>1, NoneTyped DEF IInv, Unstarted
<1>5. DescriptorsOwned'
  BY <1>1, <1>2 DEF IInv, TypeOK, DescriptorsOwned
<1>6. RoutesDriven'
  BY <1>1, NoneTyped DEF IInv, RoutesDriven
<1> QED
  BY <1>3, <1>4, <1>5, <1>6 DEF IInv

\* stopTunnel of WgDirectVpnService moves no thread but the one that calls it,
\* and closes the descriptor of the device and no other.
LEMMA WgStops ==
  ASSUME TypeOK, NEW g, NEW pcs \in [Threads -> Steps], WgStopTunnel(g, pcs)
  PROVE  /\ thread' \in [Threads -> ThreadStates]
         /\ \A u \in Threads : thread'[u].svc = thread[u].svc /\ thread'[u].pc = pcs[u]
         /\ device' = None /\ open' = open \ {device}
         /\ slot' \in {slot, None} /\ (slot' \in Threads => slot # device)
         /\ client' \in [Gens -> 0 .. MaxThreads] /\ stopping' \in [Gens -> BOOLEAN]
         /\ holder' \in [Services -> [Gens -> 0 .. MaxThreads]]
         /\ phase' \in [Services -> Stages] /\ status' \in Stages
<1>1. ASSUME NEW u \in Threads
      PROVE  [thread[u] EXCEPT !.halted = @ \/ holder["wg"][g] = u, !.pc = pcs[u]] \in ThreadStates
  BY DEF TypeOK, ThreadStates
<1>2. /\ thread' \in [Threads -> ThreadStates]
      /\ \A u \in Threads : thread'[u].svc = thread[u].svc /\ thread'[u].pc = pcs[u]
  BY <1>1 DEF TypeOK, WgStopTunnel, ThreadStates
<1>3. holder' \in [Services -> [Gens -> 0 .. MaxThreads]]
  BY NoneTyped DEF TypeOK, WgStopTunnel
<1>4. phase' \in [Services -> Stages] /\ status' \in Stages
  BY DEF TypeOK, WgStopTunnel, PublishIdle, Publish, published, Stages
<1>5. stopping' \in [Gens -> BOOLEAN]
  BY DEF TypeOK, WgStopTunnel
<1>6. slot' \in {slot, None} /\ (slot' \in Threads => slot # device)
  BY NoneTyped DEF TypeOK, WgStopTunnel, CloseTun
<1> QED
  BY <1>2, <1>3, <1>4, <1>5, <1>6 DEF TypeOK, WgStopTunnel, CloseTun

\* stopTunnel of Ovpn3VpnService moves no thread but the one that calls it,
\* and closes nothing: the core does that when connect() returns.
LEMMA Ovpn3Stops ==
  ASSUME TypeOK, NEW g, NEW pcs \in [Threads -> Steps], Ovpn3StopTunnel(g, pcs)
  PROVE  /\ thread' \in [Threads -> ThreadStates]
         /\ \A u \in Threads : thread'[u].svc = thread[u].svc /\ thread'[u].pc = pcs[u]
         /\ client' \in [Gens -> 0 .. MaxThreads] /\ UNCHANGED <<slot, open, holder, stopping, device>>
         /\ phase' \in [Services -> Stages] /\ status' \in Stages
<1>1. ASSUME NEW u \in Threads
      PROVE  [thread[u] EXCEPT !.halted = @ \/ (client[g] = u /\ pcs[u] \in {"session", "fatal"}),
                               !.pc = pcs[u]] \in ThreadStates
  BY DEF TypeOK, ThreadStates
<1>2. /\ thread' \in [Threads -> ThreadStates]
      /\ \A u \in Threads : thread'[u].svc = thread[u].svc /\ thread'[u].pc = pcs[u]
  BY <1>1 DEF TypeOK, Ovpn3StopTunnel, ThreadStates
<1>3. phase' \in [Services -> Stages] /\ status' \in Stages
  BY DEF TypeOK, Ovpn3StopTunnel, PublishIdle, Publish, published, Stages
<1>4. client' \in [Gens -> 0 .. MaxThreads]
  BY NoneTyped DEF TypeOK, Ovpn3StopTunnel
<1> QED
  BY <1>2, <1>3, <1>4 DEF Ovpn3StopTunnel, osVars

\* stopTunnel, whoever calls it: a command, onDestroy, onRevoke, or a thread or
\* callback that fails.
LEMMA TunnelStops ==
  ASSUME IInv, NEW s \in Services, NEW g, NEW pcs \in [Threads -> Steps],
         NEW queue \in Seq(Messages), StopTunnel(s, g, pcs, queue),
         \A u \in Threads : \/ pcs[u] = thread[u].pc
                            \/ thread[u].pc = "stop" /\ pcs[u] = "finally"
                            \/ thread[u].pc = "fatal" /\ pcs[u] = "session",
         revoked' \subseteq Services \X Nat, UNCHANGED <<djStops, started, uiVars>>
  PROVE  IInv'
<1> USE DEF At
<1>0. TypeOK
  BY DEF IInv
<1>1. /\ thread' \in [Threads -> ThreadStates]
      /\ \A u \in Threads : thread'[u].svc = thread[u].svc /\ thread'[u].pc = pcs[u]
      /\ \/ open' = open /\ device' = device /\ slot' = slot
         \/ /\ open' = open \ {device} /\ device' = None
            /\ slot' \in {slot, None} /\ (slot' \in Threads => slot # device)
      /\ client' \in [Gens -> 0 .. MaxThreads] /\ stopping' \in [Gens -> BOOLEAN]
      /\ holder' \in [Services -> [Gens -> 0 .. MaxThreads]]
      /\ phase' \in [Services -> Stages] /\ status' \in Stages
  <2>1. CASE WgStopTunnel(g, pcs)
    BY <1>0, <2>1, WgStops
  <2>2. CASE Ovpn3StopTunnel(g, pcs)
    BY <1>0, <2>2, Ovpn3Stops DEF TypeOK
  <2> QED
    BY <2>1, <2>2 DEF StopTunnel
<1>2. TypeOK'
  <2>1. /\ gen' \in [Services -> Nat] /\ up' \in [Services -> BOOLEAN]
        /\ wanted' \in [Services -> BOOLEAN] /\ bound' \in [Services -> BOOLEAN]
        /\ inbox' \in Seq(Messages)
    BY <1>0, SelfStopped DEF StopTunnel
  <2>2. slot' \in 0 .. Dj /\ device' \in 0 .. MaxThreads /\ open' \subseteq Threads
    BY <1>0, <1>1, NoneTyped DEF TypeOK
  <2> QED
    BY <1>0, <1>1, <2>1, <2>2 DEF TypeOK, uiVars
<1>3. OwnSteps'
  BY <1>1 DEF IInv, OwnSteps, WgSteps, Ovpn3Steps
<1>4. Unstarted'
  BY <1>1, NoneTyped DEF IInv, Unstarted
<1>5. DescriptorsOwned'
  BY <1>1, <1>0, NoneTyped DEF IInv, TypeOK, DescriptorsOwned
<1>6. RoutesDriven'
  BY <1>1, <1>0, NoneTyped DEF IInv, TypeOK, RoutesDriven
<1> QED
  BY <1>2, <1>3, <1>4, <1>5, <1>6 DEF IInv

-----------------------------------------------------------------------------
\* Every step preserves the invariant: one step of the proof per action.
LEMMA StepIInv == ASSUME IInv, [Next]_vars PROVE IInv'
<1> USE DEF osVars, published, amsVars, svcVars, threadVars, uiVars, At
<1>0. TypeOK /\ OwnSteps /\ Unstarted /\ DescriptorsOwned /\ RoutesDriven
  BY DEF IInv
<1>m. ASSUME NEW s, NEW g, NEW what, Message(s, g, what)
      PROVE  Tail(inbox) \in Seq(Messages)
  BY <1>0, <1>m DEF Message, TypeOK
<1>1. ASSUME NEW s \in Services, NEW g \in Gens, StartTunnel(s, g) PROVE IInv'
  <2> USE <1>0, <1>1 DEF StartTunnel
  <2>a1. started + 1 \in Threads /\ started + 1 \notin open /\ started + 1 # slot
    BY DirectAssumption DEF TypeOK, Threads, Unstarted
  <2> DEFINE first == IF s = "wg" THEN "establish" ELSE "load"
  <2> DEFINE fresh == [NoThread EXCEPT !.svc = s, !.gen = g, !.pc = first]
  <2>a0. fresh \in ThreadStates
    <3>1. NoThread \in ThreadStates
      BY DEF NoThread, ThreadStates, Services, Steps
    <3>2. first \in Steps /\ g \in Nat
      BY DEF Steps, WgSteps, Ovpn3Steps, Gens
    <3> HIDE DEF first
    <3> QED
      BY <3>1, <3>2 DEF ThreadStates
  <2>a. thread' = [thread EXCEPT ![started + 1] = fresh]
    BY DEF Spawn
  <2> HIDE DEF fresh
  <2>a2. /\ thread' \in [Threads -> ThreadStates]
         /\ \A u \in Threads \ {started + 1} : thread'[u] = thread[u]
         /\ thread'[started + 1] = fresh
    BY <2>a0, <2>a, <2>a1 DEF TypeOK
  <2>a3. thread'[started + 1].svc = s /\ thread'[started + 1].pc = first
    BY <2>a2 DEF fresh, NoThread
  <2>1. TypeOK'
    <3>1. inbox' \in Seq(Messages)
      BY <1>m
    <3>2. holder' \in [Services -> [Gens -> 0 .. MaxThreads]] /\ started' \in 0 .. MaxThreads
      BY <2>a1, NoneTyped DEF TypeOK, Spawn
    <3>3. phase' \in [Services -> Stages] /\ status' \in Stages
      BY PublishTyped DEF Stages
    <3>4. stopping' \in [Gens -> BOOLEAN]
      BY DEF TypeOK
    <3> QED
      BY <2>a2, <3>1, <3>2, <3>3, <3>4 DEF TypeOK
  <2>2. OwnSteps'
    BY <2>a2, <2>a3 DEF OwnSteps, WgSteps, Ovpn3Steps, Services
  <2>3. Unstarted'
    BY <2>a1, <2>a2, DirectAssumption DEF TypeOK, Unstarted, Spawn, Threads
  <2>4. DescriptorsOwned'
    BY <2>a1, <2>a2 DEF TypeOK, DescriptorsOwned
  <2>5. RoutesDriven'
    BY <2>a1, <2>a2 DEF RoutesDriven
  <2> QED
    BY <2>1, <2>2, <2>3, <2>4, <2>5 DEF IInv
<1>2. ASSUME NEW s \in Services, NEW g \in Gens, StartBusy(s, g) PROVE IInv'
  <2>1. inbox' \in Seq(Messages)
    BY <1>2, <1>m DEF StartBusy
  <2>2. TypeOK'
    BY <1>0, <1>2, <2>1 DEF StartBusy, TypeOK
  <2> QED
    BY <1>2, <2>2, SlotLeaves DEF StartBusy
<1>3. ASSUME NEW s \in Services, NEW g \in Gens, StartUnstaged(s, g) PROVE IInv'
  <2>1. /\ gen' \in [Services -> Nat] /\ up' \in [Services -> BOOLEAN]
        /\ wanted' \in [Services -> BOOLEAN] /\ bound' \in [Services -> BOOLEAN]
        /\ inbox' \in Seq(Messages)
    BY <1>0, <1>3, <1>m, SelfStopped DEF StartUnstaged
  <2>2. TypeOK'
    BY <1>0, <1>3, <2>1 DEF StartUnstaged, TypeOK
  <2> QED
    BY <1>3, <2>2, SlotLeaves DEF StartUnstaged
<1>p. Pcs \in [Threads -> Steps] /\ \A u \in Threads : Pcs[u] = thread[u].pc
  BY <1>0 DEF TypeOK, Pcs, ThreadStates
<1>4. ASSUME NEW s \in Services, NEW g \in Gens, StopCommand(s, g) PROVE IInv'
  <2>1. Tail(inbox) \in Seq(Messages)
    BY <1>4, <1>m DEF StopCommand
  <2> QED
    BY <1>0, <1>4, <1>p, <2>1, TunnelStops DEF StopCommand, TypeOK
<1>5. ASSUME DjStop PROVE IInv'
  <2>1. inbox' \in Seq(Messages)
    BY <1>5, <1>m DEF DjStop
  <2>2. TypeOK'
    BY <1>0, <1>5, <2>1 DEF DjStop, TypeOK
  <2> QED
    BY <1>5, <2>2, SlotLeaves DEF DjStop
<1>6. ASSUME DjStopped PROVE IInv'
  <2>1. TypeOK'
    BY <1>0, <1>6, NoneTyped DEF DjStopped, TypeOK, Stages
  <2> QED
    BY <1>6, <2>1, SlotLeaves DEF DjStopped
<1>7. ASSUME NEW s \in Services, NEW g \in Gens, OnRevoke(s, g) PROVE IInv'
  <2>1. inbox \in Seq(Messages) /\ revoked' \subseteq Services \X Nat
    BY <1>0, <1>7 DEF OnRevoke, TypeOK
  <2> QED
    BY <1>7, <1>p, <2>1, TunnelStops DEF OnRevoke
<1>8. ASSUME NEW s \in Services, Unbind(s) PROVE IInv'
  <2>1. inbox \in Seq(Messages)
    BY <1>0 DEF TypeOK
  <2>2. up' \in [Services -> BOOLEAN] /\ inbox' \in Seq(Messages)
    BY <1>0, <1>8, <2>1, Released DEF Unbind, TypeOK
  <2>3. bound' \in [Services -> BOOLEAN]
    BY <1>0, <1>8 DEF Unbind, TypeOK
  <2>4. TypeOK'
    BY <1>0, <1>8, <2>2, <2>3 DEF Unbind, TypeOK
  <2> QED
    BY <1>8, <2>4, SlotLeaves DEF Unbind
<1>9. ASSUME NEW t \in Threads, WgEstablish(t) PROVE IInv'
  <2> USE <1>0, <1>9 DEF WgEstablish
  <2>1. CASE TakeSlot(t) /\ Goto(t, "native")
    <3>1. /\ gen' \in [Services -> Nat] /\ up' \in [Services -> BOOLEAN]
          /\ wanted' \in [Services -> BOOLEAN] /\ bound' \in [Services -> BOOLEAN]
          /\ slot' = t /\ open' = open \cup {t}
      BY <2>1, SlotTaken
    <3>2. /\ thread' \in [Threads -> ThreadStates]
          /\ \A u \in Threads : /\ thread'[u].svc = thread[u].svc
                                /\ thread'[u].pc = IF u = t THEN "native" ELSE thread[u].pc
      BY <2>1, GotoMoves DEF Steps, WgSteps
    <3>3. TypeOK'
      BY <3>1, <3>2, NoneTyped DEF TypeOK
    <3>4. thread[t].svc = "wg"
      BY DEF OwnSteps, WgSteps
    <3>5. OwnSteps'
      BY <3>2, <3>4 DEF OwnSteps, WgSteps, Ovpn3Steps
    <3>6. Unstarted'
      BY <3>1, <3>2 DEF Unstarted
    <3>7. DescriptorsOwned'
      BY <3>1, <3>2 DEF TypeOK, DescriptorsOwned
    <3>8. RoutesDriven'
      BY <3>1, <3>2, <3>4 DEF RoutesDriven
    <3> QED
      BY <3>3, <3>5, <3>6, <3>7, <3>8 DEF IInv
  <2>2. CASE Goto(t, "fail") /\ UNCHANGED <<osVars, amsVars>>
    <3>1. thread' \in [Threads -> ThreadStates]
      BY <2>2, GotoMoves DEF Steps
    <3>2. TypeOK'
      BY <2>2, <3>1 DEF TypeOK
    <3> QED
      BY <2>2, <3>2, ThreadMoves DEF Steps, WgSteps, Ovpn3Steps
  <2> QED
    BY <2>1, <2>2
<1>10. ASSUME NEW t \in Threads, StartWireguardTun(t) PROVE IInv'
  <2> USE <1>0, <1>10 DEF StartWireguardTun
  <2>1. thread[t].svc = "wg"
    BY DEF OwnSteps, WgSteps
  <2>2. CASE device = None /\ device' = t /\ Goto(t, "await") /\ UNCHANGED osVars
    <3>1. /\ thread' \in [Threads -> ThreadStates]
          /\ \A u \in Threads : /\ thread'[u].svc = thread[u].svc
                                /\ thread'[u].pc = IF u = t THEN "await" ELSE thread[u].pc
      BY <2>2, GotoMoves DEF Steps, WgSteps
    <3>2. TypeOK'
      BY <2>2, <3>1, NoneTyped DEF TypeOK
    <3>3. OwnSteps'
      BY <2>1, <3>1 DEF OwnSteps, WgSteps, Ovpn3Steps
    <3>4. Unstarted'
      BY <2>2, <3>1 DEF Unstarted
    <3>5. DescriptorsOwned'
      BY <2>2, <3>1, NoneTyped DEF TypeOK, DescriptorsOwned
    <3>6. RoutesDriven'
      BY <2>1, <2>2, <3>1, NoneTyped DEF RoutesDriven
    <3> QED
      BY <3>2, <3>3, <3>4, <3>5, <3>6 DEF IInv
  <2>3. CASE CloseTun(t) /\ Goto(t, FailStep(t)) /\ UNCHANGED device
    <3>0. FailStep(t) \in {"fail", "finally"}
      BY DEF FailStep
    <3>1. /\ thread' \in [Threads -> ThreadStates]
          /\ \A u \in Threads : /\ thread'[u].svc = thread[u].svc
                                /\ thread'[u].pc = IF u = t THEN FailStep(t) ELSE thread[u].pc
      BY <2>3, <3>0, GotoMoves DEF Steps
    <3>2. slot' \in {slot, None} /\ slot' # t /\ open' = open \ {t}
      BY <2>3, TunClosed
    <3>3. TypeOK'
      BY <2>3, <3>1, <3>2, NoneTyped DEF TypeOK
    <3>4. OwnSteps'
      BY <3>0, <3>1 DEF OwnSteps, WgSteps, Ovpn3Steps
    <3>5. Unstarted'
      BY <3>1, <3>2, NoneTyped DEF Unstarted
    <3>6. DescriptorsOwned'
      BY <2>3, <3>1, <3>2 DEF TypeOK, DescriptorsOwned
    <3>7. RoutesDriven'
      BY <2>3, <3>1, <3>2, NoneTyped DEF RoutesDriven
    <3> QED
      BY <3>3, <3>4, <3>5, <3>6, <3>7 DEF IInv
  <2> QED
    BY <2>2, <2>3
<1>11. ASSUME NEW t \in Threads, Handshake(t) PROVE IInv'
  <2>1. phase' \in [Services -> Stages] /\ status' \in Stages
    BY <1>0, <1>11 DEF Handshake, TypeOK
  <2>2. thread' \in [Threads -> ThreadStates]
    BY <1>0, <1>11, GotoMoves DEF Handshake, Steps, WgSteps, Ovpn3Steps
  <2>3. TypeOK'
    BY <1>0, <1>11, <2>1, <2>2, NoneTyped DEF Handshake, TypeOK
  <2>4. thread[t].pc \in WgSteps => thread[t].svc = "wg"
    BY <1>0 DEF OwnSteps
  <2>5. thread[t].pc \in Ovpn3Steps => thread[t].svc = "ovpn3"
    BY <1>0 DEF OwnSteps
  <2> QED
    BY <1>11, <2>3, <2>4, <2>5, ThreadMoves DEF Handshake, Steps, WgSteps, Ovpn3Steps
<1>12. ASSUME NEW t \in Threads, NoHandshake(t) PROVE IInv'
  <2>1. phase' \in [Services -> Stages] /\ status' \in Stages
    BY <1>0, <1>12 DEF NoHandshake, TypeOK
  <2>2. thread' \in [Threads -> ThreadStates]
    BY <1>0, <1>12, GotoMoves DEF NoHandshake, Steps, WgSteps, Ovpn3Steps, FailStep
  <2>3. TypeOK'
    BY <1>0, <1>12, <2>1, <2>2, NoneTyped DEF NoHandshake, TypeOK
  <2>4. thread[t].pc \in WgSteps => thread[t].svc = "wg"
    BY <1>0 DEF OwnSteps
  <2>5. thread[t].pc \in Ovpn3Steps => thread[t].svc = "ovpn3"
    BY <1>0 DEF OwnSteps
  <2> QED
    BY <1>12, <2>3, <2>4, <2>5, ThreadMoves DEF NoHandshake, Steps, WgSteps, Ovpn3Steps, FailStep
<1>13. ASSUME NEW t \in Threads, WgUp(t) PROVE IInv'
  <2>1. phase' \in [Services -> Stages] /\ status' \in Stages
    BY <1>0, <1>13, PublishTyped DEF WgUp, Stages, Services, TypeOK, ThreadStates
  <2>2. thread' \in [Threads -> ThreadStates]
    BY <1>0, <1>13, GotoMoves DEF WgUp, Steps, WgSteps, Ovpn3Steps
  <2>3. TypeOK'
    BY <1>0, <1>13, <2>1, <2>2, NoneTyped DEF WgUp, TypeOK
  <2>4. thread[t].pc \in WgSteps => thread[t].svc = "wg"
    BY <1>0 DEF OwnSteps
  <2>5. thread[t].pc \in Ovpn3Steps => thread[t].svc = "ovpn3"
    BY <1>0 DEF OwnSteps
  <2> QED
    BY <1>13, <2>3, <2>4, <2>5, ThreadMoves DEF WgUp, Steps, WgSteps, Ovpn3Steps
<1>14. ASSUME NEW t \in Threads, Fail(t) PROVE IInv'
  <2>1. phase' \in [Services -> Stages] /\ status' \in Stages
    BY <1>0, <1>14, PublishTyped DEF Fail, Stages, Services, TypeOK, ThreadStates
  <2>2. thread' \in [Threads -> ThreadStates]
    BY <1>0, <1>14, GotoMoves DEF Fail, Steps, WgSteps, Ovpn3Steps
  <2>3. TypeOK'
    BY <1>0, <1>14, <2>1, <2>2, NoneTyped DEF Fail, TypeOK
  <2>4. thread[t].pc \in WgSteps => thread[t].svc = "wg"
    BY <1>0 DEF OwnSteps
  <2>5. thread[t].pc \in Ovpn3Steps => thread[t].svc = "ovpn3"
    BY <1>0 DEF OwnSteps
  <2> QED
    BY <1>14, <2>3, <2>4, <2>5, ThreadMoves DEF Fail, Steps, WgSteps, Ovpn3Steps
<1>15. ASSUME NEW t \in Threads, FailStop(t) PROVE IInv'
  <2>1. [Pcs EXCEPT ![t] = "finally"] \in [Threads -> Steps]
    BY <1>p DEF Steps
  <2>2. \A u \in Threads : [Pcs EXCEPT ![t] = "finally"][u] = IF u = t THEN "finally" ELSE thread[u].pc
    BY <1>p
  <2>3. thread[t].svc \in Services /\ inbox \in Seq(Messages) /\ revoked \subseteq Services \X Nat
    BY <1>0 DEF TypeOK, ThreadStates
  <2> QED
    BY <1>15, <2>1, <2>2, <2>3, TunnelStops DEF FailStop
<1>16. ASSUME NEW t \in Threads, Finally(t) PROVE IInv'
  <2>1. holder' \in [Services -> [Gens -> 0 .. MaxThreads]]
    BY <1>0, <1>16, NoneTyped DEF Finally, TypeOK
  <2>2. thread' \in [Threads -> ThreadStates]
    BY <1>0, <1>16, GotoMoves DEF Finally, Steps
  <2>3. TypeOK'
    BY <1>0, <1>16, <2>1, <2>2 DEF Finally, TypeOK
  <2> QED
    BY <1>16, <2>3, ThreadMoves DEF Finally, Steps, WgSteps, Ovpn3Steps
<1>17. ASSUME NEW t \in Threads, Ovpn3Load(t) PROVE IInv'
  <2>1. client' \in [Gens -> 0 .. MaxThreads]
    BY <1>0, <1>17, NoneTyped DEF Ovpn3Load, TypeOK
  <2>2. thread' \in [Threads -> ThreadStates]
    BY <1>0, <1>17, GotoMoves DEF Ovpn3Load, Steps, Ovpn3Steps
  <2>3. TypeOK'
    BY <1>0, <1>17, <2>1, <2>2 DEF Ovpn3Load, TypeOK
  <2>4. thread[t].svc = "ovpn3"
    BY <1>0, <1>17 DEF Ovpn3Load, OwnSteps, Ovpn3Steps
  <2> QED
    BY <1>17, <2>3, <2>4, ThreadMoves DEF Ovpn3Load, Steps, WgSteps, Ovpn3Steps
<1>18. ASSUME NEW t \in Threads, Ovpn3Connect(t) PROVE IInv'
  <2>1. thread' \in [Threads -> ThreadStates]
    BY <1>0, <1>18, GotoMoves DEF Ovpn3Connect, Steps, Ovpn3Steps
  <2>2. TypeOK'
    BY <1>0, <1>18, <2>1 DEF Ovpn3Connect, TypeOK
  <2>3. thread[t].svc = "ovpn3"
    BY <1>0, <1>18 DEF Ovpn3Connect, OwnSteps, Ovpn3Steps
  <2> QED
    BY <1>18, <2>2, <2>3, ThreadMoves DEF Ovpn3Connect, Steps, WgSteps, Ovpn3Steps
<1>19. ASSUME NEW t \in Threads, Ovpn3Establish(t) PROVE IInv'
  <2> USE <1>0, <1>19 DEF Ovpn3Establish, InSession
  <2>1. /\ gen' \in [Services -> Nat] /\ up' \in [Services -> BOOLEAN]
        /\ wanted' \in [Services -> BOOLEAN] /\ bound' \in [Services -> BOOLEAN]
        /\ slot' = t /\ open' = open \cup {t}
    BY SlotTaken
  <2>2. TypeOK'
    BY <2>1, NoneTyped DEF TypeOK
  <2>3. thread[t].svc = "ovpn3"
    BY DEF OwnSteps, Ovpn3Steps
  <2>4. OwnSteps'
    BY DEF OwnSteps
  <2>5. Unstarted'
    BY <2>1 DEF Unstarted
  <2>6. DescriptorsOwned'
    BY <2>1, <2>3 DEF DescriptorsOwned
  <2>7. RoutesDriven'
    BY <2>1, <2>3 DEF RoutesDriven
  <2> QED
    BY <2>2, <2>4, <2>5, <2>6, <2>7 DEF IInv
<1>20. ASSUME NEW t \in Threads, Ovpn3Up(t) PROVE IInv'
  <2>1. phase' \in [Services -> Stages] /\ status' \in Stages
    BY <1>0, <1>20, PublishTyped DEF Ovpn3Up, Stages, Services
  <2>2. thread' = [thread EXCEPT ![t].told = TRUE]
    BY <1>20 DEF Ovpn3Up
  <2>3. /\ thread' \in [Threads -> ThreadStates]
        /\ \A u \in Threads : thread'[u].svc = thread[u].svc /\ thread'[u].pc = thread[u].pc
    BY <1>0, <2>2 DEF TypeOK, ThreadStates
  <2>4. TypeOK'
    BY <1>0, <1>20, <2>1, <2>3 DEF Ovpn3Up, TypeOK
  <2>5. OwnSteps' /\ Unstarted'
    BY <1>0, <1>20, <2>3 DEF Ovpn3Up, OwnSteps, Unstarted
  <2>6. DescriptorsOwned' /\ RoutesDriven'
    BY <1>0, <1>20, <2>3 DEF Ovpn3Up, DescriptorsOwned, RoutesDriven, TypeOK
  <2> QED
    BY <2>4, <2>5, <2>6 DEF IInv
<1>21. ASSUME NEW t \in Threads, Ovpn3Reconnects(t) PROVE IInv'
  <2>1. thread' = [thread EXCEPT ![t].told = FALSE] /\ FALSE \in BOOLEAN
    BY <1>21 DEF Ovpn3Reconnects
  <2>2. /\ thread' \in [Threads -> ThreadStates]
        /\ \A u \in Threads : thread'[u].svc = thread[u].svc /\ thread'[u].pc = thread[u].pc
    BY <1>0, <2>1 DEF TypeOK, ThreadStates
  <2>3. slot' \in {slot, None} /\ open' = open \ {t}
    BY <1>0, <1>21, TunClosed DEF Ovpn3Reconnects
  <2>4. TypeOK'
    BY <1>0, <1>21, <2>2, <2>3, NoneTyped DEF Ovpn3Reconnects, TypeOK
  <2> QED
    BY <1>21, <2>2, <2>4, SessionCloses DEF Ovpn3Reconnects, InSession
<1>22. ASSUME NEW t \in Threads, Ovpn3Fatal(t) PROVE IInv'
  <2>1. phase' \in [Services -> Stages] /\ status' \in Stages
    BY <1>0, <1>22, PublishTyped DEF Ovpn3Fatal, Stages, Services, TypeOK, ThreadStates
  <2>2. thread' \in [Threads -> ThreadStates]
    BY <1>0, <1>22, GotoMoves DEF Ovpn3Fatal, Steps, WgSteps, Ovpn3Steps, InSession
  <2>3. TypeOK'
    BY <1>0, <1>22, <2>1, <2>2, NoneTyped DEF Ovpn3Fatal, TypeOK
  <2>4. thread[t].pc \in WgSteps => thread[t].svc = "wg"
    BY <1>0 DEF OwnSteps
  <2>5. thread[t].pc \in Ovpn3Steps => thread[t].svc = "ovpn3"
    BY <1>0 DEF OwnSteps
  <2> QED
    BY <1>22, <2>3, <2>4, <2>5, ThreadMoves DEF Ovpn3Fatal, Steps, WgSteps, Ovpn3Steps, InSession
<1>23. ASSUME NEW t \in Threads, Ovpn3Halt(t) PROVE IInv'
  <2>1. [Pcs EXCEPT ![t] = "session"] \in [Threads -> Steps]
    BY <1>p DEF Steps, Ovpn3Steps
  <2>2. \A u \in Threads : [Pcs EXCEPT ![t] = "session"][u] = IF u = t THEN "session" ELSE thread[u].pc
    BY <1>p
  <2>3. "ovpn3" \in Services /\ inbox \in Seq(Messages) /\ revoked \subseteq Services \X Nat
    BY <1>0 DEF TypeOK, Services
  <2> QED
    BY <1>23, <2>1, <2>2, <2>3, TunnelStops DEF Ovpn3Halt
<1>24. ASSUME NEW t \in Threads, Ovpn3Stopped(t) PROVE IInv'
  <2> DEFINE pc == "finally"
  <2>1. pc \in {"fail", "finally"} /\ Goto(t, pc)
    BY <1>24 DEF Ovpn3Stopped
  <2>2. /\ thread' \in [Threads -> ThreadStates]
        /\ \A u \in Threads : /\ thread'[u].svc = thread[u].svc
                              /\ thread'[u].pc = IF u = t THEN pc ELSE thread[u].pc
    BY <1>0, <2>1, GotoMoves DEF Steps
  <2>3. slot' \in {slot, None} /\ open' = open \ {t}
    BY <1>0, <1>24, TunClosed DEF Ovpn3Stopped
  <2>4. TypeOK'
    BY <1>0, <1>24, <2>2, <2>3, NoneTyped DEF Ovpn3Stopped, TypeOK
  <2> QED
    BY <1>24, <2>1, <2>2, <2>4, SessionCloses DEF Ovpn3Stopped, InSession
<1>25. ASSUME NEW t \in Threads, Ovpn3Errs(t) PROVE IInv'
  <2> DEFINE pc == IF phase["ovpn3"] = "CONNECTED" THEN "finally" ELSE "fail"
  <2>1. pc \in {"fail", "finally"} /\ Goto(t, pc)
    BY <1>25 DEF Ovpn3Errs
  <2>2. /\ thread' \in [Threads -> ThreadStates]
        /\ \A u \in Threads : /\ thread'[u].svc = thread[u].svc
                              /\ thread'[u].pc = IF u = t THEN pc ELSE thread[u].pc
    BY <1>0, <2>1, GotoMoves DEF Steps
  <2>3. slot' \in {slot, None} /\ open' = open \ {t}
    BY <1>0, <1>25, TunClosed DEF Ovpn3Errs
  <2>4. TypeOK'
    BY <1>0, <1>25, <2>2, <2>3, NoneTyped DEF Ovpn3Errs, TypeOK
  <2> QED
    BY <1>25, <2>1, <2>2, <2>4, SessionCloses DEF Ovpn3Errs, InSession
<1>26. ASSUME ConnectWg PROVE IInv'
  <2> USE <1>0, <1>26 DEF ConnectWg
  <2>1. Send("dj", "stop") \in Messages /\ Send("wg", "connect") \in Messages
    BY SendTyped DEF Services
  <2>2. inbox' \in Seq(Messages)
    BY <2>1 DEF TypeOK
  <2>3. /\ gen' \in [Services -> Nat] /\ up' \in [Services -> BOOLEAN]
        /\ wanted' \in [Services -> BOOLEAN] /\ bound' \in [Services -> BOOLEAN]
    BY ServicesStarted DEF Services
  <2>4. /\ calls' \in [Services -> Nat] /\ staged' \in [Services -> BOOLEAN]
        /\ phase' \in [Services -> Stages]
    BY CallTyped DEF Services
  <2>5. stopped' \in BOOLEAN /\ budget' \in Nat
    BY TRUE \in BOOLEAN, FALSE \in BOOLEAN, CommandTyped
  <2>6. TypeOK'
    BY <2>2, <2>3, <2>4, <2>5 DEF TypeOK
  <2> QED
    BY <2>6, SlotLeaves
<1>27. ASSUME ConnectOvpn3 PROVE IInv'
  <2> USE <1>0, <1>27 DEF ConnectOvpn3
  <2>1. /\ Send("wg", "stop") \in Messages
        /\ Send("dj", "stop") \in Messages
        /\ Send("ovpn3", "stop") \in Messages
        /\ Send("ovpn3", "connect") \in Messages
    BY SendTyped DEF Services
  <2>2. inbox' \in Seq(Messages)
    BY <2>1 DEF TypeOK
  <2>3. /\ gen' \in [Services -> Nat] /\ up' \in [Services -> BOOLEAN]
        /\ wanted' \in [Services -> BOOLEAN] /\ bound' \in [Services -> BOOLEAN]
    BY ServicesStarted DEF Services
  <2>4. /\ calls' \in [Services -> Nat] /\ staged' \in [Services -> BOOLEAN]
        /\ phase' \in [Services -> Stages]
    BY CallTyped DEF Services
  <2>5. stopped' \in BOOLEAN /\ budget' \in Nat
    BY TRUE \in BOOLEAN, FALSE \in BOOLEAN, CommandTyped
  <2>6. TypeOK'
    BY <2>2, <2>3, <2>4, <2>5 DEF TypeOK
  <2> QED
    BY <2>6, SlotLeaves
<1>28. ASSUME ConnectProxy PROVE IInv'
  <2> USE <1>0, <1>28 DEF ConnectProxy
  <2>1. stopped' \in BOOLEAN /\ budget' \in Nat
    BY TRUE \in BOOLEAN, FALSE \in BOOLEAN, CommandTyped
  <2>2. slot' \in 0 .. Dj /\ status' \in Stages
    BY NoneTyped DEF Stages
  <2>3. TypeOK'
    BY <2>1, <2>2 DEF TypeOK
  <2> QED
    BY <2>3, SlotLeaves
<1>29. ASSUME StopTap PROVE IInv'
  <2> USE <1>0, <1>29 DEF StopTap
  <2>1. Send("dj", "stop") \in Messages /\ Send("wg", "stop") \in Messages
    BY SendTyped DEF Services
  <2>2. inbox' \in Seq(Messages)
    BY <2>1 DEF TypeOK
  <2>3. /\ gen' \in [Services -> Nat] /\ up' \in [Services -> BOOLEAN]
        /\ wanted' \in [Services -> BOOLEAN] /\ bound' \in [Services -> BOOLEAN]
    BY ServicesStarted DEF Services
  <2>4. stopped' \in BOOLEAN /\ budget' \in Nat
    BY TRUE \in BOOLEAN, FALSE \in BOOLEAN, CommandTyped
  <2>5. TypeOK'
    BY <2>2, <2>3, <2>4 DEF TypeOK
  <2> QED
    BY <2>5, SlotLeaves
<1>30. ASSUME WidgetStop PROVE IInv'
  <2> USE <1>0, <1>30 DEF WidgetStop
  <2>1. Send("dj", "stop") \in Messages
    BY SendTyped DEF Services
  <2>2. inbox' \in Seq(Messages)
    BY <2>1 DEF TypeOK
  <2>3. stopped' \in BOOLEAN /\ budget' \in Nat
    BY TRUE \in BOOLEAN, FALSE \in BOOLEAN, CommandTyped
  <2>4. TypeOK'
    BY <2>2, <2>3 DEF TypeOK
  <2> QED
    BY <2>4, SlotLeaves
<1>31. ASSUME NEW s \in Services, Disconnect(s) PROVE IInv'
  <2> USE <1>0, <1>31 DEF Disconnect
  <2>1. Send(s, "stop") \in Messages
    BY SendTyped DEF Services
  <2>2. inbox' \in Seq(Messages)
    BY <2>1 DEF TypeOK
  <2>3. /\ gen' \in [Services -> Nat] /\ up' \in [Services -> BOOLEAN]
        /\ wanted' \in [Services -> BOOLEAN] /\ bound' \in [Services -> BOOLEAN]
    BY ServicesStarted DEF Services
  <2>4. stopped' \in BOOLEAN /\ budget' \in Nat
    BY TRUE \in BOOLEAN, FALSE \in BOOLEAN, CommandTyped
  <2>5. TypeOK'
    BY <2>2, <2>3, <2>4 DEF TypeOK
  <2> QED
    BY <2>5, SlotLeaves
<1>32. ASSUME OsRevokes PROVE IInv'
  <2> USE <1>0, <1>32 DEF OsRevokes
  <2>1. stopped' \in BOOLEAN /\ budget' \in Nat
    BY TRUE \in BOOLEAN, FALSE \in BOOLEAN, CommandTyped
  <2>2. slot' \in 0 .. Dj /\ djStops' \in Nat
    BY NoneTyped DEF TypeOK
  <2>3. revoked' \subseteq Services \X Nat
    BY DEF TypeOK
  <2>4. TypeOK'
    BY <2>1, <2>2, <2>3 DEF TypeOK
  <2> QED
    BY <2>4, SlotLeaves
<1>33. ASSUME NEW s \in Services, CallSucceeds(s) PROVE IInv'
  <2> USE <1>0, <1>33 DEF CallSucceeds
  <2>1. calls' \in [Services -> Nat]
    BY DEF CallEnds, TypeOK
  <2>2. staged' \in [Services -> BOOLEAN]
    BY DEF CallEnds, TypeOK
  <2>3. TypeOK'
    BY <2>1, <2>2 DEF TypeOK, CallEnds
  <2> QED
    BY <2>3, SlotLeaves DEF CallEnds
<1>34. ASSUME NEW s \in Services, CallFails(s) PROVE IInv'
  <2> USE <1>0, <1>34 DEF CallFails
  <2>1. Send(s, "stop") \in Messages
    BY SendTyped DEF Services
  <2>2. inbox' \in Seq(Messages)
    BY <2>1 DEF TypeOK
  <2>3. /\ gen' \in [Services -> Nat] /\ up' \in [Services -> BOOLEAN]
        /\ wanted' \in [Services -> BOOLEAN] /\ bound' \in [Services -> BOOLEAN]
    BY ServicesStarted DEF Services
  <2>4. calls' \in [Services -> Nat]
    BY DEF CallEnds, TypeOK
  <2>5. staged' \in [Services -> BOOLEAN]
    BY DEF CallEnds, TypeOK
  <2>6. TypeOK'
    BY <2>2, <2>3, <2>4, <2>5 DEF TypeOK, CallEnds
  <2> QED
    BY <2>6, SlotLeaves DEF CallEnds
<1>35. CASE UNCHANGED vars
  <2>1. TypeOK'
    BY <1>0, <1>35 DEF vars, TypeOK
  <2> QED
    BY <1>35, <2>1, SlotLeaves DEF vars
<1> QED
  BY <1>1, <1>2, <1>3, <1>4, <1>5, <1>6, <1>7, <1>8, <1>9, <1>10, <1>11,
     <1>12, <1>13, <1>14, <1>15, <1>16, <1>17, <1>18, <1>19, <1>20, <1>21,
     <1>22, <1>23, <1>24, <1>25, <1>26, <1>27, <1>28, <1>29, <1>30, <1>31,
     <1>32, <1>33, <1>34, <1>35
  DEF Next, MainThread, Thread, User

\* The invariant holds throughout.
THEOREM Invariance == Spec => []IInv
<1>1. Init => IInv
  BY InitIInv
<1>2. IInv /\ [Next]_vars => IInv'
  BY StepIInv
<1> QED
  BY <1>1, <1>2, PTL DEF Spec

\* Types are kept by every command, thread and callback of the direct modes.
THEOREM TypeCorrect == Spec => []TypeOK
<1>1. IInv => TypeOK
  BY DEF IInv
<1> QED
  BY <1>1, Invariance, PTL

\* Every open WireGuard descriptor has one owner, the thread that hands it over
\* or the Go device, however many bring-ups, stops, time-outs, revocations and
\* destroyed instances there are.
THEOREM DescriptorsOwnedAlways == Spec => []DescriptorsOwned
<1>1. IInv => DescriptorsOwned
  BY DEF IInv
<1> QED
  BY <1>1, Invariance, PTL

\* The device is never routed into a tun that nobody reads, whichever service
\* has the slot and whatever becomes of the instance that took it.
THEOREM RoutesDrivenAlways == Spec => []RoutesDriven
<1>1. IInv => RoutesDriven
  BY DEF IInv
<1> QED
  BY <1>1, Invariance, PTL
=============================================================================
