-------------------------- MODULE EngineLinkProofs --------------------------
(***************************************************************************)
(* Proofs about EngineLink, for any number of starts, on a running engine  *)
(* or not, of deaths of the sidecar and of loops that end by themselves:   *)
(* types; a stopped engine holds nothing (StopReleases); and no death of   *)
(* the sidecar goes unnoticed (DeathDetectable).                           *)
(***************************************************************************)
EXTENDS EngineLink, TLAPS

\* A call goes to its next statement.
LEMMA GotoFacts ==
  ASSUME TypeOK, NEW pc \in {"bind", "wait", "rpc", "set", "unbind"}, Goto(pc)
  PROVE  /\ call' \in CallStates /\ call'.op = call.op /\ call'.pc = pc /\ call'.pair = call.pair
         /\ copies' = copies /\ current' = current
  BY DEF TypeOK, CallStates, Goto

\* startRemote returns, and the caller closes its copy.
LEMMA ReturnFacts ==
  ASSUME TypeOK, CallSteps, call.op = "start", NEW ok \in BOOLEAN, Return(ok)
  PROVE  /\ call' \in CallStates /\ call'.op = "none" /\ call'.pc = "idle"
         /\ copies' = {} /\ current' \in Nat
         /\ current' = IF ok THEN call.pair ELSE current
<1>1. call' = [op |-> "none", pc |-> "idle", pair |-> 0] /\ copies = {call.pair}
  BY DEF Return, NoCall, None, CallSteps
<1>2. call' \in CallStates
  BY <1>1 DEF CallStates
<1>3. current' \in Nat
  BY DEF Return, TypeOK, CallStates
<1> QED
  BY <1>1, <1>2, <1>3 DEF Return

\* A callback joins the queue of the main thread.
LEMMA Queued ==
  ASSUME NEW q \in Seq(Callbacks), NEW c \in Callbacks
  PROVE  /\ Append(q, c) \in Seq(Callbacks) /\ Len(q) \in Nat
         /\ DOMAIN q = 1 .. Len(q) /\ DOMAIN Append(q, c) = 1 .. Len(q) + 1
         /\ Append(q, c)[Len(q) + 1] = c
         /\ \A n \in DOMAIN q : Append(q, c)[n] = q[n]
  OBVIOUS

\* The next callback leaves it.
LEMMA Taken ==
  ASSUME NEW q \in Seq(Callbacks), q # <<>>
  PROVE  /\ Tail(q) \in Seq(Callbacks) /\ Head(q) = q[1] /\ 1 \in DOMAIN q
         /\ \A n \in DOMAIN Tail(q) : n \in Nat \ {0} /\ n + 1 \in DOMAIN q /\ Tail(q)[n] = q[n + 1]
  OBVIOUS

\* A callback about an earlier instance, or the first about a new one, keeps
\* the queue in order.
LEMMA QueueGrows ==
  ASSUME TypeOK, AnnouncedOnce, NEW c \in Callbacks,
         callbacks' = Append(callbacks, c), created' \in Nat, created' >= created,
         c.srv \in 1 .. created', iface' = iface, iface <= created',
         srv' \in Nat, srv' <= created', srv' # iface \/ srv' = None,
         srv' # None => owned' = None,
         c.kind = "connected" => c.srv = created' /\ created' = created + 1
  PROVE  AnnouncedOnce'
<1>0. callbacks \in Seq(Callbacks) /\ created \in Nat
  BY DEF TypeOK
<1>1. /\ Len(callbacks) \in Nat /\ DOMAIN callbacks = 1 .. Len(callbacks)
      /\ DOMAIN callbacks' = 1 .. Len(callbacks) + 1
      /\ callbacks'[Len(callbacks) + 1] = c
      /\ \A n \in DOMAIN callbacks : callbacks'[n] = callbacks[n]
  BY <1>0, Queued
<1>2. \A n \in DOMAIN callbacks : callbacks[n].srv \in 1 .. created
  BY DEF AnnouncedOnce
<1>3. \A n \in DOMAIN callbacks' : n \in DOMAIN callbacks \/ n = Len(callbacks) + 1
  BY <1>1
<1>4. \A n \in DOMAIN callbacks' : callbacks'[n].srv \in 1 .. created'
  BY <1>0, <1>1, <1>2, <1>3
<1>5. ASSUME NEW m \in DOMAIN callbacks', NEW n \in DOMAIN callbacks',
             callbacks'[m].kind = "connected", callbacks'[n].kind = "connected",
             callbacks'[m].srv = callbacks'[n].srv
      PROVE  m = n
  <2>1. CASE m \in DOMAIN callbacks /\ n \in DOMAIN callbacks
    BY <1>1, <1>5, <2>1 DEF AnnouncedOnce, Announced
  <2>2. CASE m = Len(callbacks) + 1 /\ n \in DOMAIN callbacks
    BY <1>0, <1>1, <1>2, <1>5, <2>2
  <2>3. CASE n = Len(callbacks) + 1 /\ m \in DOMAIN callbacks
    BY <1>0, <1>1, <1>2, <1>5, <2>3
  <2> QED
    BY <1>3, <2>1, <2>2, <2>3
<1>6. ASSUME iface' = srv' \/ owned' # None PROVE srv' = None
  BY <1>6
<1>7. \A n \in DOMAIN callbacks' : callbacks'[n].srv # None
  BY <1>4 DEF None
<1> QED
  BY <1>4, <1>5, <1>6, <1>7 DEF AnnouncedOnce, Announced

\* An empty queue is in order.
LEMMA QueueEmpty ==
  ASSUME callbacks' = <<>>, srv' <= created', iface' <= created'
  PROVE  AnnouncedOnce'
  BY DEF AnnouncedOnce

\* The initial states satisfy the invariant.
LEMMA InitIInv == ASSUME Init PROVE IInv
<1> USE BoundsAssumption DEF Init, None
<1>1. call \in CallStates /\ budget \in Budgets /\ callbacks \in Seq(Callbacks)
  BY DEF NoCall, CallStates, Budgets
<1>2. TypeOK
  BY <1>1 DEF TypeOK, States
<1>3. CallSteps /\ Budgeted /\ ServiceBound /\ AnnouncedOnce /\ StoppedUnbound
  BY DEF CallSteps, NoCall, Budgeted, ServiceBound, At, AnnouncedOnce, StoppedUnbound
<1>4. DescriptorKept
  BY DEF DescriptorKept, OwnedIsCurrent, LoopServes
<1> QED
  BY <1>2, <1>3, <1>4 DEF IInv

\* What is left of the budget when the loop has ended once more.
LEMMA ExitSpent ==
  ASSUME TypeOK, Budgeted, budget.exits > 0, budget' = [budget EXCEPT !.exits = @ - 1]
  PROVE  /\ budget' \in Budgets /\ budget'.starts = budget.starts
         /\ budget'.exits = budget.exits - 1 /\ budget'.exits < MaxExits
<1>1. budget \in Budgets
  BY DEF TypeOK
<1>2. budget' \in Budgets /\ budget'.starts = budget.starts /\ budget'.exits = budget.exits - 1
  BY <1>1 DEF Budgets
<1>3. budget.exits \in Nat /\ budget.exits <= MaxExits
  BY <1>1 DEF Budgets, Budgeted
<1>4. budget.exits - 1 < MaxExits
  BY <1>3, BoundsAssumption
<1> QED
  BY <1>2, <1>4

\* The same when the process has died once more.
LEMMA DeathSpent ==
  ASSUME TypeOK, budget.deaths > 0, budget' = [budget EXCEPT !.deaths = @ - 1]
  PROVE  /\ budget' \in Budgets /\ budget'.starts = budget.starts
         /\ budget'.exits = budget.exits
<1>1. budget \in Budgets
  BY DEF TypeOK
<1> QED
  BY <1>1 DEF Budgets

\* Every step preserves the invariant.
LEMMA StepIInv == ASSUME IInv, [Next]_vars PROVE IInv'
<1>0. /\ TypeOK /\ CallSteps /\ Budgeted /\ ServiceBound /\ AnnouncedOnce /\ StoppedUnbound
      /\ DescriptorKept
  BY DEF IInv
<1>1. CASE StartCall
  <2> USE <1>0, <1>1 DEF StartCall, bindVars, noticeVars, engineVars
  <2> DEFINE p == MaxStarts - budget.starts + 1
  <2>a1. p \in Nat /\ p # None
    BY BoundsAssumption DEF TypeOK, Budgets, Budgeted, None
  <2>a2. /\ call'.op = "start" /\ call'.pc \in {"rebind", "rpc"} /\ call'.pair = p
         /\ call' \in CallStates
    BY <2>a1 DEF CallStates
  <2>a3. call.op = "none" /\ copies = {}
    BY DEF CallSteps
  <2>a4. /\ budget' \in Budgets /\ budget'.exits = budget.exits
         /\ budget'.starts = budget.starts - 1
    BY DEF TypeOK, Budgets
  <2>a5. owned # None /\ iface = srv => call'.pc = "rpc"
    BY DEF ServiceBound
  <2>1. TypeOK'
    <3>1. copies' \subseteq Nat
      BY <2>a1 DEF TypeOK
    <3> QED
      BY <2>a2, <2>a4, <3>1 DEF TypeOK, States
  <2>2. CallSteps'
    BY <2>a1, <2>a2, <2>a3 DEF CallSteps
  <2>3. Budgeted'
    BY <2>a4, BoundsAssumption DEF Budgeted, TypeOK, Budgets
  <2>4. ServiceBound'
    BY <2>a2 DEF ServiceBound, At
  <2>5. AnnouncedOnce'
    BY DEF AnnouncedOnce, Announced
  <2>6. StoppedUnbound'
    BY DEF StoppedUnbound
  <2>7. DescriptorKept'
    BY <2>a2, <2>a4, <2>a5 DEF DescriptorKept, OwnedIsCurrent, LoopServes, At
  <2> QED
    BY <2>1, <2>2, <2>3, <2>4, <2>5, <2>6, <2>7 DEF IInv
<1>2. CASE Rebind
  <2> USE <1>0, <1>2 DEF Rebind, At, engineVars
  <2>a1. /\ call' \in CallStates /\ call'.op = call.op /\ call'.pc = "bind" /\ call'.pair = call.pair
         /\ copies' = copies /\ current' = current
    BY GotoFacts
  <2>a2. bound' = FALSE /\ srv' = None /\ owned' = None /\ loop' = None
    BY DEF UnbindService, ServiceBound
  <2>a3. AnnouncedOnce'
    <3>1. CASE bound
      <4>1. callbacks' = <<>> /\ srv' <= created' /\ iface' <= created'
        BY <3>1 DEF UnbindService, AnnouncedOnce, TypeOK, None
      <4> QED
        BY <4>1, QueueEmpty
    <3>2. CASE ~bound
      BY <3>2 DEF AnnouncedOnce, Announced
    <3> QED
      BY <3>1, <3>2
  <2>1. TypeOK'
    <3>1. callbacks' \in {callbacks, <<>>} /\ hstate' \in {hstate, "Stopped"} /\ created' = created
      BY DEF UnbindService
    <3>2. callbacks' \in Seq(Callbacks)
      <4>1. callbacks \in Seq(Callbacks) /\ <<>> \in Seq(Callbacks)
        BY DEF TypeOK
      <4> HIDE <1>2 DEF Rebind
      <4> QED
        BY <3>1, <4>1
    <3>3. hstate' \in States
      BY <3>1 DEF TypeOK, States
    <3> QED
      BY <2>a1, <2>a2, <3>1, <3>2, <3>3 DEF TypeOK, None
  <2>2. CallSteps'
    BY <2>a1 DEF CallSteps
  <2>3. Budgeted'
    BY DEF Budgeted
  <2>4. ServiceBound'
    BY <2>a2 DEF ServiceBound
  <2>5. AnnouncedOnce'
    BY <2>a3
  <2>6. StoppedUnbound'
    BY <2>a1, <2>a2 DEF StoppedUnbound
  <2>7. DescriptorKept'
    BY <2>a2 DEF DescriptorKept, OwnedIsCurrent, LoopServes
  <2> QED
    BY <2>1, <2>2, <2>3, <2>4, <2>5, <2>6, <2>7 DEF IInv
<1>3. CASE Bind
  <2> USE <1>0, <1>3 DEF Bind, At, noticeVars, engineVars
  <2>a1. call.op = "start" /\ ~bound /\ srv = None /\ owned = None /\ loop = None
    BY DEF ServiceBound
  <2>a2. mstate # "Stopped"
    BY <2>a1 DEF StoppedUnbound
  <2>a3. /\ call' \in CallStates /\ current' \in Nat /\ mstate' \in States /\ bound' \in BOOLEAN
         /\ mstate' # "Stopped"
         /\ (call'.op = "start" /\ call'.pc = "wait" /\ call'.pair = call.pair /\ copies' = copies)
              \/ (call'.op = "none" /\ call'.pc = "idle" /\ copies' = {})
    <3>1. CASE bound' = TRUE /\ Goto("wait") /\ UNCHANGED mstate
      <4>1. /\ call' \in CallStates /\ call'.op = call.op /\ call'.pc = "wait" /\ call'.pair = call.pair
            /\ copies' = copies /\ current' = current
        BY <3>1, GotoFacts
      <4> QED
        BY <2>a1, <2>a2, <3>1, <4>1 DEF TypeOK
    <3>2. CASE bound' = FALSE /\ Fail
      <4>1. /\ call' \in CallStates /\ call'.op = "none" /\ call'.pc = "idle"
            /\ copies' = {} /\ current' \in Nat
        BY <2>a1, <3>2, ReturnFacts DEF Fail
      <4> QED
        BY <3>2, <4>1 DEF Fail, States
    <3> QED
      BY <3>1, <3>2
  <2>1. TypeOK'
    <3>1. copies' \subseteq Nat
      BY <2>a3 DEF TypeOK
    <3> QED
      BY <2>a3, <3>1 DEF TypeOK
  <2>2. CallSteps'
    BY <2>a3 DEF CallSteps
  <2>3. Budgeted'
    BY DEF Budgeted
  <2>4. ServiceBound'
    BY <2>a1, <2>a3 DEF ServiceBound
  <2>5. AnnouncedOnce'
    BY DEF AnnouncedOnce, Announced
  <2>6. StoppedUnbound'
    BY <2>a3 DEF StoppedUnbound
  <2>7. DescriptorKept'
    BY <2>a1 DEF DescriptorKept, OwnedIsCurrent, LoopServes
  <2> QED
    BY <2>1, <2>2, <2>3, <2>4, <2>5, <2>6, <2>7 DEF IInv
<1>4. CASE Connected
  <2> USE <1>0, <1>4 DEF Connected, At, bindVars, noticeVars, engineVars
  <2>a1. /\ call' \in CallStates /\ call'.op = call.op /\ call'.pc = "rpc" /\ call'.pair = call.pair
         /\ copies' = copies /\ current' = current
    BY GotoFacts
  <2>1. TypeOK'
    BY <2>a1 DEF TypeOK
  <2>2. CallSteps'
    BY <2>a1 DEF CallSteps
  <2>3. Budgeted'
    BY DEF Budgeted
  <2>4. ServiceBound'
    BY <2>a1 DEF ServiceBound
  <2>5. AnnouncedOnce'
    BY DEF AnnouncedOnce, Announced
  <2>6. StoppedUnbound'
    BY <2>a1 DEF StoppedUnbound
  <2>7. DescriptorKept'
    BY <2>a1 DEF DescriptorKept, OwnedIsCurrent, LoopServes
  <2> QED
    BY <2>1, <2>2, <2>3, <2>4, <2>5, <2>6, <2>7 DEF IInv
<1>5. CASE BindTimeout
  <2> USE <1>0, <1>5 DEF BindTimeout, At, Fail, bindVars, noticeVars, engineVars
  <2>a1. /\ call' \in CallStates /\ call'.op = "none" /\ call'.pc = "idle"
         /\ copies' = {} /\ current' \in Nat
         /\ current' = current
    BY ReturnFacts
  <2>1. TypeOK'
    BY <2>a1 DEF TypeOK, States
  <2>2. CallSteps'
    BY <2>a1 DEF CallSteps
  <2>3. Budgeted'
    BY DEF Budgeted
  <2>4. ServiceBound'
    BY <2>a1 DEF ServiceBound
  <2>5. AnnouncedOnce'
    BY DEF AnnouncedOnce, Announced
  <2>6. StoppedUnbound'
    BY <2>a1 DEF StoppedUnbound
  <2>7. DescriptorKept'
    BY <2>a1 DEF DescriptorKept, OwnedIsCurrent, LoopServes
  <2> QED
    BY <2>1, <2>2, <2>3, <2>4, <2>5, <2>6, <2>7 DEF IInv
<1>6. CASE StartRpc /\ (iface = None \/ iface # srv) /\ Fail /\ UNCHANGED <<engineVars, budget>>
  <2> USE <1>0, <1>6 DEF StartRpc, At, Fail, bindVars, noticeVars, engineVars
  <2>a1. /\ call' \in CallStates /\ call'.op = "none" /\ call'.pc = "idle"
         /\ copies' = {} /\ current' \in Nat
         /\ current' = current
    BY ReturnFacts
  <2>1. TypeOK'
    BY <2>a1 DEF TypeOK, States
  <2>2. CallSteps'
    BY <2>a1 DEF CallSteps
  <2>3. Budgeted'
    BY DEF Budgeted
  <2>4. ServiceBound'
    BY <2>a1 DEF ServiceBound
  <2>5. AnnouncedOnce'
    BY DEF AnnouncedOnce, Announced
  <2>6. StoppedUnbound'
    BY <2>a1 DEF StoppedUnbound
  <2>7. DescriptorKept'
    BY <2>a1 DEF DescriptorKept, OwnedIsCurrent, LoopServes, ServiceBound
  <2> QED
    BY <2>1, <2>2, <2>3, <2>4, <2>5, <2>6, <2>7 DEF IInv
<1>7. CASE /\ At("start", "rpc") /\ iface # None /\ iface = srv
         /\ Serve(call.pair) /\ Goto("set") /\ UNCHANGED <<mstate, srv, created, budget>>
         /\ UNCHANGED <<bindVars, noticeVars, destroying>>
  <2> USE <1>0, <1>7 DEF At, Serve, bindVars, noticeVars
  <2>a1. /\ call' \in CallStates /\ call'.op = call.op /\ call'.pc = "set" /\ call'.pair = call.pair
         /\ copies' = copies /\ current' = current
    BY GotoFacts
  <2>a2. call.pair \in Nat /\ call.pair # None /\ bound /\ srv # None
    BY DEF TypeOK, CallStates, CallSteps, ServiceBound
  <2>a3. owned' = call.pair /\ loop' \in Nat /\ hstate' \in States
    BY <2>a2 DEF TypeOK, States
  <2>a4. loop' # None
    BY <2>a2
  <2>1. TypeOK'
    BY <2>a1, <2>a2, <2>a3 DEF TypeOK
  <2>2. CallSteps'
    BY <2>a1 DEF CallSteps
  <2>3. Budgeted'
    BY DEF Budgeted
  <2>4. ServiceBound'
    BY <2>a1, <2>a2 DEF ServiceBound
  <2>5. AnnouncedOnce'
    BY DEF AnnouncedOnce, Announced
  <2>6. StoppedUnbound'
    BY <2>a1, <2>a2 DEF StoppedUnbound
  <2>7. DescriptorKept'
    BY <2>a1, <2>a2, <2>a4 DEF DescriptorKept, OwnedIsCurrent, LoopServes
  <2> QED
    BY <2>1, <2>2, <2>3, <2>4, <2>5, <2>6, <2>7 DEF IInv
<1>8. CASE /\ At("start", "rpc") /\ iface # None /\ iface = srv
         /\ budget.exits > 0 /\ LoadFails(call.pair) /\ Goto("set")
         /\ budget' = [budget EXCEPT !.exits = @ - 1]
         /\ UNCHANGED <<mstate, srv, created>> /\ UNCHANGED <<bindVars, noticeVars, destroying>>
  <2> USE <1>0, <1>8 DEF At, LoadFails, bindVars, noticeVars
  <2>a1. /\ call' \in CallStates /\ call'.op = call.op /\ call'.pc = "set" /\ call'.pair = call.pair
         /\ copies' = copies /\ current' = current
    BY GotoFacts
  <2>a2. call.pair \in Nat /\ call.pair # None /\ bound /\ srv # None
    BY DEF TypeOK, CallStates, CallSteps, ServiceBound
  <2>a3. /\ budget' \in Budgets /\ budget'.starts = budget.starts
         /\ budget'.exits = budget.exits - 1 /\ budget'.exits < MaxExits
    BY ExitSpent
  <2>1. TypeOK'
    BY <2>a1, <2>a2, <2>a3 DEF TypeOK, States
  <2>2. CallSteps'
    BY <2>a1 DEF CallSteps
  <2>3. Budgeted'
    BY <2>a3, BoundsAssumption DEF Budgeted, TypeOK, Budgets
  <2>4. ServiceBound'
    BY <2>a1, <2>a2 DEF ServiceBound
  <2>5. AnnouncedOnce'
    BY DEF AnnouncedOnce, Announced
  <2>6. StoppedUnbound'
    BY <2>a1, <2>a2 DEF StoppedUnbound
  <2>7. DescriptorKept'
    BY <2>a1, <2>a2, <2>a3, BoundsAssumption
       DEF DescriptorKept, OwnedIsCurrent, LoopServes, TypeOK, Budgets
  <2> QED
    BY <2>1, <2>2, <2>3, <2>4, <2>5, <2>6, <2>7 DEF IInv
<1>9. CASE SetRunning
  <2> USE <1>0, <1>9 DEF SetRunning, At, bindVars, noticeVars, engineVars
  <2>a1. /\ call' \in CallStates /\ call'.op = "none" /\ call'.pc = "idle"
         /\ copies' = {} /\ current' \in Nat
         /\ current' = call.pair
    BY ReturnFacts
  <2>1. TypeOK'
    BY <2>a1 DEF TypeOK, States
  <2>2. CallSteps'
    BY <2>a1 DEF CallSteps
  <2>3. Budgeted'
    BY DEF Budgeted
  <2>4. ServiceBound'
    BY <2>a1 DEF ServiceBound
  <2>5. AnnouncedOnce'
    BY DEF AnnouncedOnce, Announced
  <2>6. StoppedUnbound'
    BY DEF StoppedUnbound
  <2>7. DescriptorKept'
    BY <2>a1 DEF DescriptorKept, OwnedIsCurrent, LoopServes
  <2> QED
    BY <2>1, <2>2, <2>3, <2>4, <2>5, <2>6, <2>7 DEF IInv
<1>10. CASE StopCall
  <2> USE <1>0, <1>10 DEF StopCall, bindVars, noticeVars, engineVars
  <2>a1. call'.op = "stop" /\ call'.pc = "rpc" /\ call' \in CallStates
    BY DEF CallStates, None
  <2>a2. copies = {}
    BY DEF CallSteps
  <2>1. TypeOK'
    BY <2>a1 DEF TypeOK, States
  <2>2. CallSteps'
    BY <2>a1, <2>a2 DEF CallSteps
  <2>3. Budgeted'
    BY DEF Budgeted
  <2>4. ServiceBound'
    BY <2>a1 DEF ServiceBound, At
  <2>5. AnnouncedOnce'
    BY DEF AnnouncedOnce, Announced
  <2>6. StoppedUnbound'
    BY <2>a1 DEF StoppedUnbound
  <2>7. DescriptorKept'
    BY <2>a1 DEF DescriptorKept, OwnedIsCurrent, LoopServes
  <2> QED
    BY <2>1, <2>2, <2>3, <2>4, <2>5, <2>6, <2>7 DEF IInv
<1>11. CASE StopRpc
  <2> USE <1>0, <1>11 DEF StopRpc, At, bindVars, noticeVars
  <2>a1. /\ call' \in CallStates /\ call'.op = call.op /\ call'.pc = "unbind" /\ call'.pair = call.pair
         /\ copies' = copies /\ current' = current
    BY GotoFacts
  <2>a2. /\ loop' \in {loop, None} /\ owned' \in {owned, None} /\ hstate' \in States
         /\ (owned' # None => owned' = owned /\ loop' = loop /\ ~(iface # None /\ iface = srv))
         /\ (owned' = None => loop' = None \/ (loop' = loop /\ owned = None))
    BY DEF TypeOK, States, None
  <2>1. TypeOK'
    BY <2>a1, <2>a2 DEF TypeOK, None
  <2>2. CallSteps'
    BY <2>a1 DEF CallSteps
  <2>3. Budgeted'
    BY DEF Budgeted
  <2>4. ServiceBound'
    BY <2>a1, <2>a2 DEF ServiceBound
  <2>5. AnnouncedOnce'
    BY <2>a2 DEF AnnouncedOnce, Announced
  <2>6. StoppedUnbound'
    BY <2>a1 DEF StoppedUnbound
  <2>7. DescriptorKept'
    BY <2>a1, <2>a2 DEF DescriptorKept, OwnedIsCurrent, LoopServes
  <2> QED
    BY <2>1, <2>2, <2>3, <2>4, <2>5, <2>6, <2>7 DEF IInv
<1>12. CASE StopUnbind
  <2> USE <1>0, <1>12 DEF StopUnbind, At, engineVars
  <2>a1. bound' = FALSE /\ srv' = None /\ owned' = None /\ loop' = None
    BY DEF UnbindService, ServiceBound
  <2>a2. call'.op = "none" /\ call'.pc = "idle" /\ call' \in CallStates
    BY DEF NoCall, CallStates, None
  <2>a3. AnnouncedOnce'
    <3>1. CASE bound
      <4>1. callbacks' = <<>> /\ srv' <= created' /\ iface' <= created'
        BY <3>1 DEF UnbindService, TypeOK, None
      <4> QED
        BY <4>1, QueueEmpty
    <3>2. CASE ~bound
      <4>1. \A n \in DOMAIN callbacks : callbacks[n].srv # None
        BY DEF AnnouncedOnce, TypeOK, None
      <4>2. srv' = None /\ iface' = None /\ created' = created /\ callbacks' = callbacks /\ 0 <= created
        BY <2>a1, <3>2 DEF TypeOK
      <4> QED
        BY <4>1, <4>2 DEF AnnouncedOnce, Announced, None
    <3> QED
      BY <3>1, <3>2
  <2>1. TypeOK'
    <3>1. callbacks' \in {callbacks, <<>>} /\ hstate' \in {hstate, "Stopped"} /\ created' = created
      BY DEF UnbindService
    <3>2. callbacks' \in Seq(Callbacks)
      <4>1. callbacks \in Seq(Callbacks) /\ <<>> \in Seq(Callbacks)
        BY DEF TypeOK
      <4> HIDE <1>12 DEF StopUnbind
      <4> QED
        BY <3>1, <4>1
    <3>3. hstate' \in States
      BY <3>1 DEF TypeOK, States
    <3> QED
      BY <2>a1, <2>a2, <3>1, <3>2, <3>3 DEF TypeOK, None
  <2>2. CallSteps'
    BY <2>a2 DEF CallSteps
  <2>3. Budgeted'
    BY DEF Budgeted
  <2>4. ServiceBound'
    BY <2>a1, <2>a2 DEF ServiceBound
  <2>5. AnnouncedOnce'
    BY <2>a3
  <2>6. StoppedUnbound'
    BY <2>a1, <2>a2 DEF StoppedUnbound
  <2>7. DescriptorKept'
    BY <2>a1 DEF DescriptorKept, OwnedIsCurrent, LoopServes
  <2> QED
    BY <2>1, <2>2, <2>3, <2>4, <2>5, <2>6, <2>7 DEF IInv
<1>13. CASE DestroyWaits
  <2> USE <1>0, <1>13 DEF DestroyWaits, callVars, bindVars, noticeVars, engineVars
  <2>1. TypeOK'
    BY DEF TypeOK
  <2>2. CallSteps'
    BY DEF CallSteps
  <2>3. Budgeted'
    BY DEF Budgeted
  <2>4. ServiceBound'
    BY DEF ServiceBound, At
  <2>5. AnnouncedOnce'
    BY DEF AnnouncedOnce, Announced
  <2>6. StoppedUnbound'
    BY DEF StoppedUnbound
  <2>7. DescriptorKept'
    BY DEF DescriptorKept, OwnedIsCurrent, At, LoopServes
  <2> QED
    BY <2>1, <2>2, <2>3, <2>4, <2>5, <2>6, <2>7 DEF IInv
<1>14. CASE ServiceConnected
  <2> USE <1>0, <1>14 DEF ServiceConnected, Callback, callVars, engineVars
  <2>a1. /\ callbacks \in Seq(Callbacks) /\ callbacks # <<>> /\ callbacks' = Tail(callbacks)
    BY DEF TypeOK
  <2>a2. /\ callbacks' \in Seq(Callbacks) /\ Head(callbacks) = callbacks[1] /\ 1 \in DOMAIN callbacks
         /\ callbacks[1] \in Callbacks
         /\ \A n \in DOMAIN callbacks' : /\ n \in Nat \ {0} /\ n + 1 \in DOMAIN callbacks
                                           /\ callbacks'[n] = callbacks[n + 1]
    BY <2>a1, Taken
  <2>a3. /\ \A n \in DOMAIN callbacks' : callbacks'[n].srv \in 1 .. created
         /\ \A m, n \in DOMAIN callbacks' :
               callbacks'[m].kind = "connected" /\ callbacks'[n].kind = "connected"
                 /\ callbacks'[m].srv = callbacks'[n].srv => m = n
         /\ \A n \in DOMAIN callbacks' :
               callbacks[1].kind = "connected" /\ callbacks'[n].kind = "connected"
                 => callbacks'[n].srv # callbacks[1].srv
         /\ \A n \in DOMAIN callbacks' : \E m \in DOMAIN callbacks : callbacks'[n] = callbacks[m]
    <3>1. \A n \in DOMAIN callbacks' : callbacks'[n].srv \in 1 .. created
      BY <2>a2 DEF AnnouncedOnce
    <3>2. ASSUME NEW m \in DOMAIN callbacks', NEW n \in DOMAIN callbacks',
                 callbacks'[m].kind = "connected", callbacks'[n].kind = "connected",
                 callbacks'[m].srv = callbacks'[n].srv
          PROVE  m = n
      <4>1. m + 1 = n + 1
        BY <2>a2, <3>2 DEF AnnouncedOnce, Announced
      <4> QED
        BY <2>a2, <4>1
    <3>3. ASSUME NEW n \in DOMAIN callbacks', callbacks[1].kind = "connected",
                 callbacks'[n].kind = "connected", callbacks'[n].srv = callbacks[1].srv
          PROVE  FALSE
      <4>1. n + 1 = 1
        BY <2>a2, <3>3 DEF AnnouncedOnce, Announced
      <4> QED
        BY <2>a2, <4>1
    <3>4. \A n \in DOMAIN callbacks' : \E m \in DOMAIN callbacks : callbacks'[n] = callbacks[m]
      BY <2>a2
    <3> QED
      BY <3>1, <3>2, <3>3, <3>4
  <2>a4. callbacks[1].kind = "connected" /\ iface' = callbacks[1].srv
    BY <2>a2
  <2>a5. iface' \in 1 .. created
    BY <2>a2, <2>a4 DEF AnnouncedOnce
  <2>a6. iface' = srv => owned = None
    BY <2>a2, <2>a4 DEF AnnouncedOnce, Announced
  <2>1. TypeOK'
    BY <2>a2, <2>a5 DEF TypeOK
  <2>2. CallSteps'
    BY DEF CallSteps
  <2>3. Budgeted'
    BY DEF Budgeted
  <2>4. ServiceBound'
    BY DEF ServiceBound, At
  <2>5. AnnouncedOnce'
    <3>1. iface' <= created' /\ srv' <= created'
      BY <2>a5 DEF AnnouncedOnce, TypeOK
    <3>2. ASSUME iface' = srv' \/ owned' # None, NEW n \in DOMAIN callbacks',
                 callbacks'[n].kind = "connected"
          PROVE  callbacks'[n].srv # srv'
      BY <2>a3, <2>a4, <3>2 DEF AnnouncedOnce, Announced
    <3> QED
      BY <2>a3, <3>1, <3>2 DEF AnnouncedOnce, Announced
  <2>6. StoppedUnbound'
    BY DEF StoppedUnbound
  <2>7. DescriptorKept'
    BY <2>a6 DEF DescriptorKept, OwnedIsCurrent, LoopServes
  <2> QED
    BY <2>1, <2>2, <2>3, <2>4, <2>5, <2>6, <2>7 DEF IInv
<1>15. CASE ServiceDisconnected
  <2> USE <1>0, <1>15 DEF ServiceDisconnected, Callback, EngineLost, callVars, engineVars
  <2>a1. /\ callbacks \in Seq(Callbacks) /\ callbacks # <<>> /\ callbacks' = Tail(callbacks)
    BY DEF TypeOK
  <2>a2. /\ callbacks' \in Seq(Callbacks) /\ Head(callbacks) = callbacks[1] /\ 1 \in DOMAIN callbacks
         /\ callbacks[1] \in Callbacks
         /\ \A n \in DOMAIN callbacks' : /\ n \in Nat \ {0} /\ n + 1 \in DOMAIN callbacks
                                           /\ callbacks'[n] = callbacks[n + 1]
    BY <2>a1, Taken
  <2>a3. /\ \A n \in DOMAIN callbacks' : callbacks'[n].srv \in 1 .. created
         /\ \A m, n \in DOMAIN callbacks' :
               callbacks'[m].kind = "connected" /\ callbacks'[n].kind = "connected"
                 /\ callbacks'[m].srv = callbacks'[n].srv => m = n
         /\ \A n \in DOMAIN callbacks' :
               callbacks[1].kind = "connected" /\ callbacks'[n].kind = "connected"
                 => callbacks'[n].srv # callbacks[1].srv
         /\ \A n \in DOMAIN callbacks' : \E m \in DOMAIN callbacks : callbacks'[n] = callbacks[m]
    <3>1. \A n \in DOMAIN callbacks' : callbacks'[n].srv \in 1 .. created
      BY <2>a2 DEF AnnouncedOnce
    <3>2. ASSUME NEW m \in DOMAIN callbacks', NEW n \in DOMAIN callbacks',
                 callbacks'[m].kind = "connected", callbacks'[n].kind = "connected",
                 callbacks'[m].srv = callbacks'[n].srv
          PROVE  m = n
      <4>1. m + 1 = n + 1
        BY <2>a2, <3>2 DEF AnnouncedOnce, Announced
      <4> QED
        BY <2>a2, <4>1
    <3>3. ASSUME NEW n \in DOMAIN callbacks', callbacks[1].kind = "connected",
                 callbacks'[n].kind = "connected", callbacks'[n].srv = callbacks[1].srv
          PROVE  FALSE
      <4>1. n + 1 = 1
        BY <2>a2, <3>3 DEF AnnouncedOnce, Announced
      <4> QED
        BY <2>a2, <4>1
    <3>4. \A n \in DOMAIN callbacks' : \E m \in DOMAIN callbacks : callbacks'[n] = callbacks[m]
      BY <2>a2
    <3> QED
      BY <3>1, <3>2, <3>3, <3>4
  <2>1. TypeOK'
    BY <2>a2 DEF TypeOK, States, None
  <2>2. CallSteps'
    BY DEF CallSteps
  <2>3. Budgeted'
    BY DEF Budgeted
  <2>4. ServiceBound'
    BY DEF ServiceBound, At
  <2>5. AnnouncedOnce'
    <3>1. iface' <= created' /\ srv' <= created'
      BY DEF AnnouncedOnce, TypeOK, None
    <3>2. ASSUME iface' = srv' \/ owned' # None, NEW n \in DOMAIN callbacks',
                 callbacks'[n].kind = "connected"
          PROVE  callbacks'[n].srv # srv'
      <4>1. callbacks'[n].srv # None
        BY <2>a3 DEF None
      <4> QED
        BY <2>a3, <3>2, <4>1 DEF AnnouncedOnce, Announced
    <3> QED
      BY <2>a3, <3>1, <3>2 DEF AnnouncedOnce, Announced
  <2>6. StoppedUnbound'
    BY DEF StoppedUnbound
  <2>7. DescriptorKept'
    BY DEF DescriptorKept, OwnedIsCurrent, LoopServes, ServiceBound
  <2> QED
    BY <2>1, <2>2, <2>3, <2>4, <2>5, <2>6, <2>7 DEF IInv
<1>16. CASE BinderDied
  <2> USE <1>0, <1>16 DEF BinderDied, EngineLost, callVars, engineVars
  <2>1. TypeOK'
    BY DEF TypeOK, States, None
  <2>2. CallSteps'
    BY DEF CallSteps
  <2>3. Budgeted'
    BY DEF Budgeted
  <2>4. ServiceBound'
    BY DEF ServiceBound, At
  <2>5. AnnouncedOnce'
    <3>1. iface' <= created' /\ srv' <= created'
      BY DEF AnnouncedOnce, TypeOK, None
    <3>2. \A n \in DOMAIN callbacks : callbacks[n].srv # None
      BY DEF AnnouncedOnce, TypeOK, None
    <3> QED
      BY <3>1, <3>2 DEF AnnouncedOnce, Announced
  <2>6. StoppedUnbound'
    BY DEF StoppedUnbound
  <2>7. DescriptorKept'
    BY DEF DescriptorKept, OwnedIsCurrent, LoopServes, ServiceBound
  <2> QED
    BY <2>1, <2>2, <2>3, <2>4, <2>5, <2>6, <2>7 DEF IInv
<1>17. CASE ServiceUp
  <2> USE <1>0, <1>17 DEF ServiceUp, callVars, bindVars
  <2>a1. /\ created + 1 \in Nat /\ created + 1 # None /\ owned = None /\ loop = None /\ iface # created + 1
         /\ iface <= created + 1
    BY DEF TypeOK, None, ServiceBound, AnnouncedOnce
  <2>a2. [kind |-> "connected", srv |-> created + 1] \in Callbacks
    BY <2>a1 DEF Callbacks
  <2>1. TypeOK'
    <3>1. callbacks' \in Seq(Callbacks)
      BY <2>a2, Queued DEF TypeOK
    <3> QED
      BY <2>a1, <3>1 DEF TypeOK, States
  <2>2. CallSteps'
    BY DEF CallSteps
  <2>3. Budgeted'
    BY DEF Budgeted
  <2>4. ServiceBound'
    BY <2>a1 DEF ServiceBound, At
  <2>5. AnnouncedOnce'
    <3> DEFINE c == [kind |-> "connected", srv |-> created + 1]
    <3>1. /\ c \in Callbacks /\ c.srv = created + 1 /\ c.kind = "connected"
          /\ callbacks' = Append(callbacks, c)
      BY <2>a2
    <3> HIDE DEF c
    <3>2. created' = created + 1 /\ created' >= created /\ c.srv \in 1 .. created' /\ srv' <= created'
      BY <3>1 DEF TypeOK
    <3> QED
      BY <2>a1, <3>1, <3>2, QueueGrows
  <2>6. StoppedUnbound'
    BY DEF StoppedUnbound
  <2>7. DescriptorKept'
    BY <2>a1 DEF DescriptorKept, OwnedIsCurrent, LoopServes
  <2> QED
    BY <2>1, <2>2, <2>3, <2>4, <2>5, <2>6, <2>7 DEF IInv
<1>18. CASE ProcessDies
  <2> USE <1>0, <1>18 DEF ProcessDies, callVars, bindVars
  <2>a1. /\ budget' \in Budgets /\ budget'.starts = budget.starts
         /\ budget'.exits = budget.exits
    BY DeathSpent
  <2>a2. [kind |-> "disconnected", srv |-> srv] \in Callbacks
    BY DEF Callbacks, TypeOK
  <2>a3. srv \in 1 .. created
    BY DEF AnnouncedOnce, TypeOK, None
  <2>1. TypeOK'
    <3>1. callbacks' \in Seq(Callbacks)
      BY <2>a2, Queued DEF TypeOK
    <3>2. deaths' \subseteq Nat
      BY DEF TypeOK
    <3> QED
      BY <2>a1, <3>1, <3>2 DEF TypeOK, States, None
  <2>2. CallSteps'
    BY DEF CallSteps
  <2>3. Budgeted'
    BY <2>a1 DEF Budgeted
  <2>4. ServiceBound'
    BY DEF ServiceBound, At
  <2>5. AnnouncedOnce'
    <3> DEFINE c == [kind |-> "disconnected", srv |-> srv]
    <3>1. /\ c \in Callbacks /\ c.srv = srv /\ c.kind # "connected"
          /\ callbacks' = Append(callbacks, c)
      BY <2>a2
    <3> HIDE DEF c
    <3>2. /\ created' = created /\ created' >= created /\ created' \in Nat /\ srv' \in Nat
          /\ srv' <= created' /\ iface <= created' /\ srv' = None
      BY DEF TypeOK, None, AnnouncedOnce
    <3> QED
      BY <2>a3, <3>1, <3>2, QueueGrows
  <2>6. StoppedUnbound'
    BY DEF StoppedUnbound
  <2>7. DescriptorKept'
    BY DEF DescriptorKept, OwnedIsCurrent, LoopServes
  <2> QED
    BY <2>1, <2>2, <2>3, <2>4, <2>5, <2>6, <2>7 DEF IInv
<1>19. CASE LoopExits
  <2> USE <1>0, <1>19 DEF LoopExits, callVars, bindVars, noticeVars
  <2>a1. /\ budget' \in Budgets /\ budget'.starts = budget.starts
         /\ budget'.exits = budget.exits - 1 /\ budget'.exits < MaxExits
    BY ExitSpent
  <2>a2. hstate' \in States
    BY DEF States
  <2>1. TypeOK'
    BY <2>a1, <2>a2 DEF TypeOK, None
  <2>2. CallSteps'
    BY DEF CallSteps
  <2>3. Budgeted'
    BY <2>a1, BoundsAssumption DEF Budgeted, TypeOK, Budgets
  <2>4. ServiceBound'
    BY DEF ServiceBound, At
  <2>5. AnnouncedOnce'
    BY DEF AnnouncedOnce, Announced
  <2>6. StoppedUnbound'
    BY DEF StoppedUnbound
  <2>7. DescriptorKept'
    BY <2>a1, BoundsAssumption
       DEF DescriptorKept, OwnedIsCurrent, At, LoopServes, TypeOK, Budgets
  <2> QED
    BY <2>1, <2>2, <2>3, <2>4, <2>5, <2>6, <2>7 DEF IInv
<1>20. CASE UNCHANGED vars
  <2> USE <1>0, <1>20 DEF vars, callVars, bindVars, noticeVars, engineVars
  <2>1. TypeOK'
    BY DEF TypeOK
  <2>2. CallSteps'
    BY DEF CallSteps
  <2>3. Budgeted'
    BY DEF Budgeted
  <2>4. ServiceBound'
    BY DEF ServiceBound, At
  <2>5. AnnouncedOnce'
    BY DEF AnnouncedOnce, Announced
  <2>6. StoppedUnbound'
    BY DEF StoppedUnbound
  <2>7. DescriptorKept'
    BY DEF DescriptorKept, OwnedIsCurrent, At, LoopServes
  <2> QED
    BY <2>1, <2>2, <2>3, <2>4, <2>5, <2>6, <2>7 DEF IInv
<1> QED
  BY <1>1, <1>2, <1>3, <1>4, <1>5, <1>6, <1>7, <1>8, <1>9, <1>10, <1>11,
     <1>12, <1>13, <1>14, <1>15, <1>16, <1>17, <1>18, <1>19, <1>20
     DEF Next, CallStep, Deliver, StartRpc

\* The link between the processes keeps its invariant.
THEOREM Invariance == Spec => []IInv
<1>1. Init => IInv
  BY InitIInv
<1>2. IInv /\ [Next]_vars => IInv'
  BY StepIInv
<1> QED
  BY <1>1, <1>2, PTL DEF Spec

\* The types of RemoteEngine, EngineService and HevTunnel.
THEOREM TypeCorrect == Spec => []TypeOK
<1>1. IInv => TypeOK
  BY DEF IInv
<1> QED
  BY <1>1, Invariance, PTL

\* A death of the sidecar at any statement of a call is noticed, by RemoteEngine
\* or by the router's next write.
THEOREM DeathDetectableAlways == Spec => []DeathDetectable
<1>1. IInv => DeathDetectable
  <2> SUFFICES ASSUME IInv, budget.exits = MaxExits, loop = None \/ owned = loop, Quiet,
                      owned = current \/ current \in copies
               PROVE  loop = current /\ owned = current
    BY DEF DeathDetectable, LossDetectable, Severed, Replaced
  <2>1. copies = {}
    BY DEF IInv, CallSteps, Quiet, NoCall
  <2> QED
    BY <2>1 DEF IInv, DescriptorKept, LoopServes
<1> QED
  BY <1>1, Invariance, PTL

\* RemoteEngine.stop leaves no loop and no descriptor in the sidecar, after
\* whatever partial start, death or rebinding.
THEOREM StopReleasesAlways == Spec => []StopReleases
<1>1. ASSUME IInv PROVE StopReleases
  <2> SUFFICES ASSUME Quiet, mstate = "Stopped" PROVE loop = None /\ owned = None
    BY DEF StopReleases
  <2>1. call.op = "none"
    BY DEF Quiet, NoCall
  <2> QED
    BY <1>1, <2>1 DEF IInv, StoppedUnbound, ServiceBound
<1> QED
  BY <1>1, Invariance, PTL
=============================================================================
