----------------------------- MODULE DjVpnProofs -----------------------------
(***************************************************************************)
(* Proofs about DjVpn, for every set of coroutines and proxies, every      *)
(* number of attempts and every bound on faults: type correctness, and     *)
(* that a recovery never meets a null config (ConfigKnown); validate       *)
(* before up when the Keystore keeps its word (ValidatedOnly); and that    *)
(* the lifecycle implements FailClosed (RefinesFailClosed).  As long as    *)
(* sessions do not overlap (Apart), what the service shows and holds at    *)
(* rest: DownMeansUnrouted and BridgeWhole, without that hypothesis for an *)
(* app with one session.                                                   *)
(*                                                                         *)
(* The first four rest on one inductive invariant, IInv of DjVpn. It adds  *)
(* to the types what a step needs to know of earlier ones: a started       *)
(* session has left its config behind (ConfigsKept), a watchdog in use has *)
(* an engine (WatchdogsBuilt), a tun is new when it is established         *)
(* (TunsFresh), and a watchdog gives up only after its last attempt        *)
(* (GiveUpsExhausted). The others rest on SessionInv, which a step         *)
(* preserves between states that satisfy Apart, and on LoneSession, which  *)
(* implies Apart.  Last, that a busy stage always has somebody who will    *)
(* end it, unless a bring-up was dropped at its start (BusyOwned).         *)
(***************************************************************************)
EXTENDS DjVpn, FiniteSetTheorems, TLAPS

-----------------------------------------------------------------------------
(***************************************************************************)
(* What updates of the records and of the helper operators preserve.       *)
(***************************************************************************)

\* The empty objects have their types.
LEMMA EmptyObjects == NoSvc \in SvcRec /\ NoWd \in WatchdogRec /\ NoEng \in EngineRec
  BY DEF NoSvc, NoWd, NoEng, NoPair, SvcRec, WatchdogRec, EngineRec, EngineStates

\* startRemote leaves the engine instances with their type.
LEMMA RemoteTyped ==
  ASSUME eng \in [Jobs -> EngineRec], NEW e \in Jobs, NEW p \in Nat, NEW ok \in BOOLEAN,
         StartRemote(e, p, ok)
  PROVE  eng' \in [Jobs -> EngineRec]
<1>1. eng[e].loop \in Nat
  BY DEF EngineRec
<1>2. [state |-> "Running", pair |-> p, loop |-> IF eng[e].pair = NoPair THEN p ELSE eng[e].loop]
        \in EngineRec
  BY <1>1 DEF EngineRec, EngineStates
<1>3. [NoEng EXCEPT !.state = "Crashed"] \in EngineRec
  BY DEF NoEng, NoPair, EngineRec, EngineStates
<1> QED
  BY <1>2, <1>3 DEF StartRemote

\* startRouter leaves the running routers and the one to be assigned typed.
LEMMA RouterTyped ==
  ASSUME svc \in SvcRec, pumps \subseteq Routers, made \in [Starters -> Routers \cup {None}],
         CanRoute, NEW who \in Starters, StartRouter(who)
  PROVE  made' \in [Starters -> Routers \cup {None}] /\ pumps' \subseteq Routers
<1>1. svc.tun \in Jobs /\ svc.routerEnd \in Nat
  BY DEF SvcRec, CanRoute
<1>2. [tun |-> svc.tun, pair |-> svc.routerEnd, by |-> who] \in Routers
  BY <1>1 DEF Routers
<1> QED
  BY <1>2 DEF StartRouter

\* So does the assignment, and it sets no other field.
LEMMA AssignTyped ==
  ASSUME svc \in SvcRec, made \in [Starters -> Routers \cup {None}],
         NEW who \in Starters, AssignRouter(who)
  PROVE  /\ svc' \in SvcRec /\ made' \in [Starters -> Routers \cup {None}]
         /\ svc'.tun = svc.tun /\ svc'.routerEnd = svc.routerEnd /\ svc'.engine = svc.engine
         /\ svc'.watchdog = svc.watchdog /\ svc'.loopback = svc.loopback
         /\ svc'.router = made[who]
<1>1. made[who] \in Routers \cup {None}
  OBVIOUS
<1> QED
  BY <1>1 DEF AssignRouter, SvcRec

\* The locked part of teardown leaves every variable it touches typed.
LEMMA TeardownTyped ==
  ASSUME TypeOK, TeardownLocked
  PROVE  /\ svc' \in SvcRec
         /\ wd' \in [Jobs -> WatchdogRec]
         /\ eng' \in [Jobs -> EngineRec]
         /\ pumps' \subseteq Routers /\ openTuns' \subseteq Jobs /\ osTun' \in Jobs \cup {None}
<1>1. svc.watchdog \in Jobs \cup {None} /\ svc.engine \in Jobs \cup {None}
  BY DEF TypeOK, TypeSvc, SvcRec
<1>2. wd \in [Jobs -> WatchdogRec] /\ eng \in [Jobs -> EngineRec]
  BY DEF TypeOK, TypeWatchdogs, TypeWorld
<1>3. wd' \in [Jobs -> WatchdogRec]
  <2>1. CASE svc.watchdog = None
    BY <2>1, <1>2 DEF TeardownLocked
  <2>2. CASE svc.watchdog \in Jobs
    <3>1. [wd EXCEPT ![svc.watchdog].observing = FALSE, ![svc.watchdog].cancelled = TRUE]
            \in [Jobs -> WatchdogRec]
      BY <2>2, <1>2 DEF WatchdogRec
    <3> QED
      BY <3>1, <2>2, JobsAssumption DEF TeardownLocked
  <2> QED
    BY <1>1, <2>1, <2>2
<1>4. eng' \in [Jobs -> EngineRec]
  BY <1>1, <1>2, EmptyObjects DEF TeardownLocked
<1> QED
  BY <1>3, <1>4, EmptyObjects DEF TeardownLocked, TypeOK, TypeWorld

\* reportFault leaves the watchdogs and their recoveries typed.
LEMMA FaultTyped ==
  ASSUME TypeWatchdogs, NEW w \in Jobs, NEW d \in [Jobs -> WatchdogRec], ReportFault(w, d)
  PROVE  /\ wd' \in [Jobs -> WatchdogRec]
         /\ rpc' \in [Jobs -> RecoveryPcs]
         /\ tries' \in [Jobs -> Nat]
<1>1. [d EXCEPT ![w].reconnecting = TRUE, ![w].cancelled = FALSE] \in [Jobs -> WatchdogRec]
  BY DEF WatchdogRec
<1>2. CASE d[w].reconnecting
  BY <1>2 DEF ReportFault, recVars, TypeWatchdogs
<1>3. CASE ~d[w].reconnecting
  <2>1. /\ wd' = [d EXCEPT ![w].reconnecting = TRUE, ![w].cancelled = FALSE]
        /\ rpc' = [rpc EXCEPT ![w] = "try"]
        /\ tries' = [tries EXCEPT ![w] = 0]
    BY <1>3 DEF ReportFault
  <2>2. rpc' \in [Jobs -> RecoveryPcs] /\ tries' \in [Jobs -> Nat]
    BY <2>1 DEF TypeWatchdogs, RecoveryPcs
  <2> QED
    BY <1>1, <2>1, <2>2
<1> QED
  BY <1>2, <1>3

\* A reported fault leaves the engine and the observer of every watchdog alone.
LEMMA FaultKeeps ==
  ASSUME NEW w \in Jobs, NEW d \in [Jobs -> WatchdogRec], ReportFault(w, d)
  PROVE  \A v \in Jobs : wd'[v].engine = d[v].engine /\ wd'[v].observing = d[v].observing
<1> DEFINE e == [d[w] EXCEPT !.reconnecting = TRUE, !.cancelled = FALSE]
<1>1. d[w] \in WatchdogRec
  OBVIOUS
<1>2. e.engine = d[w].engine /\ e.observing = d[w].observing
  BY <1>1 DEF WatchdogRec
<1>3. wd' = d \/ wd' = [d EXCEPT ![w] = e]
  BY DEF ReportFault
<1> HIDE DEF e
<1> QED
  BY <1>2, <1>3

-----------------------------------------------------------------------------
(***************************************************************************)
(* The inductive step: one step per action, and under it one per conjunct  *)
(* of IInv that the action can disturb.                                    *)
(***************************************************************************)

\* The inductive invariant is inductive.
LEMMA StepIInv == IInv /\ [Next]_vars => IInv'
<1> SUFFICES ASSUME IInv, [Next]_vars PROVE IInv'
  OBVIOUS
<1> USE JobsAssumption, AttemptsAssumption DEF IInv, TypeOK
<1>1. ASSUME NEW p \in Proxies, ApplyStart(p) PROVE IInv'
  <2>1. TypeSvc' /\ TypeJobs' /\ TypeWatchdogs' /\ TypeWorld'
       /\ WatchdogsBuilt' /\ TunsFresh' /\ GiveUpsExhausted'
    BY <1>1 DEF ApplyStart, osVars, recVars, TypeSvc, TypeJobs, TypeWatchdogs, TypeWorld,
       WatchdogsBuilt, TunsFresh, GiveUpsExhausted
  <2>2. TypeUi'
    BY <1>1 DEF ApplyStart, TypeUi, osVars, recVars, Stages, Cfg
  <2>3. ConfigsKept'
    <3>1. apply'.cfg # None
      <4>1. [proxy |-> p, pass |-> TRUE] \in [proxy : Proxies, pass : BOOLEAN]
        OBVIOUS
      <4> QED
        BY <1>1, <4>1, ConfigAssumption DEF ApplyStart
    <3>2. UNCHANGED <<currentConfig, persisted, inbox, svc, bpc, bcfg, rpc, wd, pending>>
      BY <1>1 DEF ApplyStart, recVars
    <3> QED
      BY <3>1, <3>2 DEF ConfigsKept, Begun
  <2> QED BY <2>1, <2>2, <2>3 DEF IInv, TypeOK
<1>2. ASSUME ApplyFail PROVE IInv'
  <2>1. TypeSvc' /\ TypeJobs' /\ TypeWatchdogs' /\ TypeWorld'
       /\ WatchdogsBuilt' /\ TunsFresh' /\ GiveUpsExhausted'
    BY <1>2 DEF ApplyFail, osVars, recVars, TypeSvc, TypeJobs, TypeWatchdogs, TypeWorld,
       WatchdogsBuilt, TunsFresh, GiveUpsExhausted
  <2>2. TypeUi'
    BY <1>2 DEF ApplyFail, TypeUi, osVars, recVars, Stages
  <2>3. ConfigsKept'
    BY <1>2 DEF ApplyFail, ConfigsKept, osVars, recVars, Begun
  <2> QED BY <2>1, <2>2, <2>3 DEF IInv, TypeOK
<1>3. ASSUME ApplyPass PROVE IInv'
  <2>1. TypeSvc' /\ TypeJobs' /\ TypeWatchdogs' /\ TypeWorld'
       /\ WatchdogsBuilt' /\ TunsFresh' /\ GiveUpsExhausted'
    BY <1>3 DEF ApplyPass, osVars, recVars, TypeSvc, TypeJobs, TypeWatchdogs, TypeWorld,
       WatchdogsBuilt, TunsFresh, GiveUpsExhausted
  <2>2. TypeUi'
    <3>1. dropped' \in BOOLEAN
      BY <1>3 DEF ApplyPass
    <3> QED
      BY <1>3, <3>1 DEF ApplyPass, TypeUi, osVars, recVars, Stages, ConfigsKept
  <2>3. ConfigsKept'
    BY <1>3 DEF ApplyPass, ConfigsKept, osVars, recVars, Begun
  <2> QED BY <2>1, <2>2, <2>3 DEF IInv, TypeOK
<1>4. ASSUME ApplyReturn PROVE IInv'
  <2>1. TypeSvc' /\ TypeJobs' /\ TypeWatchdogs' /\ TypeWorld'
       /\ WatchdogsBuilt' /\ TunsFresh' /\ GiveUpsExhausted'
    BY <1>4 DEF ApplyReturn, osVars, recVars, TypeSvc, TypeJobs, TypeWatchdogs, TypeWorld,
       WatchdogsBuilt, TunsFresh, GiveUpsExhausted
  <2>2. TypeUi'
    BY <1>4 DEF ApplyReturn, TypeUi, osVars, recVars, Stages
  <2>3. ConfigsKept'
    BY <1>4 DEF ApplyReturn, ConfigsKept, osVars, recVars, Begun
  <2> QED BY <2>1, <2>2, <2>3 DEF IInv, TypeOK
<1>5. ASSUME StopTap PROVE IInv'
  <2>1. TypeSvc' /\ TypeJobs' /\ TypeWatchdogs' /\ TypeWorld'
       /\ WatchdogsBuilt' /\ TunsFresh' /\ GiveUpsExhausted'
    BY <1>5 DEF StopTap, osVars, recVars, TypeSvc, TypeJobs, TypeWatchdogs, TypeWorld,
       WatchdogsBuilt, TunsFresh, GiveUpsExhausted
  <2>2. TypeUi'
    BY <1>5 DEF StopTap, TypeUi, osVars, recVars, Stages
  <2>3. ConfigsKept'
    BY <1>5 DEF StopTap, ConfigsKept, osVars, recVars, Begun
  <2> QED BY <2>1, <2>2, <2>3 DEF IInv, TypeOK
<1>6. ASSUME NEW j \in Jobs, DispatchConnect(j) PROVE IInv'
  <2>1. TypeSvc' /\ TypeWatchdogs' /\ TypeWorld' /\ WatchdogsBuilt' /\ GiveUpsExhausted'
    BY <1>6 DEF DispatchConnect, osVars, recVars, TypeSvc, TypeWatchdogs, TypeWorld,
       WatchdogsBuilt, GiveUpsExhausted
  <2>2. TypeUi'
    BY <1>6 DEF DispatchConnect, TypeUi, Launch, osVars, recVars, Stages
  <2>3. TypeJobs'
    BY <1>6 DEF DispatchConnect, TypeJobs, Launch, osVars, recVars, BringUpPcs, StopPcs,
       TypeUi
  <2>4. ConfigsKept'
    <3>1. currentConfig # None
      BY <1>6 DEF DispatchConnect, ConfigsKept, TypeUi
    <3>2. /\ inbox' = Tail(inbox) /\ inbox # <<>>
          /\ bpc' = [bpc EXCEPT ![j] = "enter"] /\ bcfg' = [bcfg EXCEPT ![j] = currentConfig]
          /\ UNCHANGED <<currentConfig, persisted, apply, svc, rpc, wd, pending>>
      BY <1>6, <3>1 DEF DispatchConnect, Launch, recVars
    <3>3. \A i \in DOMAIN inbox' : inbox'[i] = "CONNECT" => currentConfig' # None
      BY <3>1, <3>2
    <3>4. \A k \in Jobs : bpc'[k] # "none" => bcfg'[k] # None
      BY <3>1, <3>2 DEF ConfigsKept, TypeJobs
    <3>5. Begun' => Begun
      BY <3>2 DEF Begun, TypeJobs
    <3> QED
      BY <3>2, <3>3, <3>4, <3>5 DEF ConfigsKept
  <2>5. TunsFresh'
    BY <1>6 DEF DispatchConnect, TunsFresh, Launch, osVars, recVars
  <2> QED BY <2>1, <2>2, <2>3, <2>4, <2>5 DEF IInv, TypeOK
<1>7. ASSUME NEW j \in Jobs, ProcessRestart(j) PROVE IInv'
  <2>1. TypeUi'
    <3>1. dropped' \in BOOLEAN
      BY <1>7 DEF ProcessRestart
    <3>2. stage' = "IDLE" /\ currentConfig' = None /\ apply' = [pc |-> "idle", cfg |-> None]
          /\ inbox' = <<>> /\ UNCHANGED <<persisted, validated>>
      BY <1>7 DEF ProcessRestart
    <3> QED
      BY <3>1, <3>2 DEF TypeUi, Stages
  <2>2. TypeSvc'
    BY <1>7, EmptyObjects DEF ProcessRestart, TypeSvc
  <2>3. TypeJobs'
    <3>1. persisted \in Cfg
      BY <1>7 DEF ProcessRestart, ConfigsKept, Begun, TypeUi
    <3>2. PICK c \in Kept(persisted), first \in {"enter", "done"} :
            /\ bpc' = [k \in Jobs |-> IF k = j THEN first
                                      ELSE IF bpc[k] = "none" THEN "none" ELSE "done"]
            /\ bcfg' = [bcfg EXCEPT ![j] = c]
      BY <1>7 DEF ProcessRestart
    <3>3. c \in Cfg
      BY <3>1 DEF Kept, Cfg
    <3>4. spc' = [s \in StopJobs |-> IF spc[s] = "none" THEN "none" ELSE "done"]
      BY <1>7 DEF ProcessRestart
    <3> QED
      BY <3>2, <3>3, <3>4 DEF TypeJobs, BringUpPcs, StopPcs
  <2>4. TypeWatchdogs'
    BY <1>7, EmptyObjects DEF ProcessRestart, TypeWatchdogs, RecoveryPcs
  <2>5. TypeWorld'
    <3>1. eng' \in [Jobs -> EngineRec]
      BY <1>7, EmptyObjects DEF ProcessRestart
    <3>2. budget' \in [crashes : Nat, revokes : Nat, kills : Nat]
      BY <1>7 DEF ProcessRestart, TypeWorld
    <3> QED
      BY <1>7, <3>1, <3>2 DEF ProcessRestart, TypeWorld
  <2>6. ConfigsKept'
    <3>1. persisted \in Cfg
      BY <1>7 DEF ProcessRestart, ConfigsKept, Begun, TypeUi
    <3>2. PICK c \in Kept(persisted), first \in {"enter", "done"} :
            /\ bpc' = [k \in Jobs |-> IF k = j THEN first
                                      ELSE IF bpc[k] = "none" THEN "none" ELSE "done"]
            /\ bcfg' = [bcfg EXCEPT ![j] = c]
      BY <1>7 DEF ProcessRestart
    <3>3. c # None
      BY <3>1, ConfigAssumption DEF Kept, Cfg
    <3>4. /\ apply'.pc = "idle" /\ inbox' = <<>> /\ svc' = NoSvc /\ pending' = {}
          /\ wd' = [k \in Jobs |-> NoWd] /\ rpc' = [k \in Jobs |-> "none"]
      BY <1>7 DEF ProcessRestart
    <3>5. \A k \in Jobs : bpc'[k] # "none" => bcfg'[k] # None
      BY <3>2, <3>3 DEF ConfigsKept, TypeJobs
    <3>6. ~Begun'
      BY <3>2, <3>4 DEF Begun, NoSvc, NoWd
    <3> QED
      BY <3>4, <3>5, <3>6 DEF ConfigsKept
  <2>7. WatchdogsBuilt'
    BY <1>7 DEF ProcessRestart, WatchdogsBuilt, Kept, NoWd, NoEng, NoSvc
  <2>8. TunsFresh'
    BY <1>7 DEF ProcessRestart, TunsFresh, Kept, NoWd, NoEng, NoSvc
  <2>9. GiveUpsExhausted'
    BY <1>7 DEF ProcessRestart, GiveUpsExhausted, Kept, NoWd, NoEng, NoSvc
  <2> QED BY <2>1, <2>2, <2>3, <2>4, <2>5, <2>6, <2>7, <2>8, <2>9 DEF IInv, TypeOK
<1>8. ASSUME NEW j \in Jobs, Enter(j) PROVE IInv'
  <2>1. TypeUi' /\ TypeSvc' /\ TypeWatchdogs' /\ TypeWorld' /\ WatchdogsBuilt' /\ GiveUpsExhausted'
    BY <1>8 DEF Enter, osVars, recVars, uiVars, TypeUi, TypeSvc, TypeWatchdogs, TypeWorld,
       WatchdogsBuilt, GiveUpsExhausted
  <2>2. TypeJobs'
    BY <1>8 DEF Enter, TypeJobs, To, osVars, recVars, uiVars, BringUpPcs, StopPcs
  <2>3. ConfigsKept'
    BY <1>8 DEF Enter, ConfigsKept, To, osVars, recVars, uiVars, Begun
  <2>4. TunsFresh'
    BY <1>8 DEF Enter, TunsFresh, To, osVars, recVars, uiVars
  <2> QED BY <2>1, <2>2, <2>3, <2>4 DEF IInv, TypeOK
<1>9. ASSUME NEW j \in Jobs, Begin(j) PROVE IInv'
  <2>1. TypeWatchdogs' /\ TypeWorld' /\ WatchdogsBuilt' /\ GiveUpsExhausted'
    BY <1>9 DEF Begin, osVars, recVars, TypeWatchdogs, TypeWorld, WatchdogsBuilt,
       GiveUpsExhausted
  <2>2. TypeUi'
    <3>1. bcfg[j] \in Cfg
      BY <1>9 DEF Begin, ConfigsKept, TypeJobs
    <3>2. persisted' \in Cfg
      BY <1>9, <3>1 DEF Begin, Kept, Cfg
    <3> QED
      BY <1>9, <3>1, <3>2 DEF Begin, TypeUi, Stages
  <2>3. TypeSvc'
    BY <1>9 DEF Begin, TypeSvc, To, Kept, osVars, recVars
  <2>4. TypeJobs'
    BY <1>9 DEF Begin, TypeJobs, To, Kept, osVars, recVars, BringUpPcs, StopPcs
  <2>5. ConfigsKept'
    <3>1. bcfg[j] \in Cfg
      BY <1>9 DEF Begin, ConfigsKept, TypeJobs
    <3>2. currentConfig' # None /\ persisted' # None
      BY <1>9, <3>1, ConfigAssumption DEF Begin, Kept, Cfg
    <3>3. /\ UNCHANGED <<apply, inbox, bcfg>>
          /\ \A k \in Jobs : bpc[k] = "none" => bpc'[k] = "none"
      BY <1>9 DEF Begin, To, TypeJobs
    <3> QED
      BY <3>2, <3>3 DEF ConfigsKept
  <2>6. TunsFresh'
    BY <1>9 DEF Begin, TunsFresh, To, Kept, osVars, recVars
  <2> QED BY <2>1, <2>2, <2>3, <2>4, <2>5, <2>6 DEF IInv, TypeOK
<1>10. ASSUME NEW j \in Jobs, Establish(j) PROVE IInv'
  <2>1. TypeUi' /\ TypeWatchdogs' /\ GiveUpsExhausted'
    BY <1>10 DEF Establish, osVars, recVars, uiVars, TypeUi, TypeWatchdogs, GiveUpsExhausted
  <2>2. TypeSvc'
    BY <1>10 DEF Establish, TypeSvc, SvcRec
  <2>3. TypeJobs'
    BY <1>10 DEF Establish, TypeJobs, To, osVars, recVars, uiVars, BringUpPcs, StopPcs
  <2>4. TypeWorld'
    BY <1>10 DEF Establish, TypeWorld, To, osVars, recVars, uiVars, NoPair
  <2>5. ConfigsKept'
    BY <1>10 DEF Establish, ConfigsKept, To, osVars, recVars, uiVars, Begun, TypeSvc,
       SvcRec, TypeJobs, BringUpPcs, TypeWatchdogs, WatchdogRec
  <2>6. WatchdogsBuilt'
    BY <1>10 DEF Establish, WatchdogsBuilt, To, osVars, recVars, uiVars, TypeSvc, SvcRec,
       TypeWatchdogs, WatchdogRec
  <2>7. TunsFresh'
    BY <1>10 DEF Establish, TunsFresh, To, osVars, recVars, uiVars, TypeSvc, SvcRec,
       TypeJobs, BringUpPcs
  <2> QED BY <2>1, <2>2, <2>3, <2>4, <2>5, <2>6, <2>7 DEF IInv, TypeOK
<1>11. ASSUME NEW j \in Jobs, PlumbEngine(j) PROVE IInv'
  <2>1. TypeUi' /\ TypeWatchdogs' /\ GiveUpsExhausted'
    BY <1>11 DEF PlumbEngine, osVars, recVars, uiVars, TypeUi, TypeWatchdogs,
       GiveUpsExhausted
  <2>2. TypeSvc'
    <3>1. (IF svc.engine = None THEN j ELSE svc.engine) \in Jobs /\ pairs + 1 \in Nat
      BY DEF TypeSvc, TypeWorld, SvcRec
    <3>2. \/ svc' = [svc EXCEPT !.routerEnd = pairs + 1, !.loopback = j,
                               !.engine = IF svc.engine = None THEN j ELSE svc.engine]
          \/ svc' = [svc EXCEPT !.routerEnd = pairs + 1]
      BY <1>11 DEF PlumbEngine
    <3>3. svc' \in SvcRec
      BY <3>1, <3>2 DEF TypeSvc, SvcRec
    <3> QED
      BY <1>11, <3>3 DEF PlumbEngine, TypeSvc
  <2>3. TypeJobs'
    BY <1>11 DEF PlumbEngine, TypeJobs, To, StartRemote, osVars, recVars, uiVars,
       BringUpPcs, StopPcs
  <2>4. TypeWorld'
    <3>1. (IF svc.engine = None THEN j ELSE svc.engine) \in Jobs /\ pairs + 1 \in Nat
      BY DEF TypeSvc, TypeWorld, SvcRec
    <3>2. eng' \in [Jobs -> EngineRec]
      BY <1>11, <3>1, RemoteTyped DEF PlumbEngine, TypeWorld
    <3> QED
      BY <1>11, <3>1, <3>2 DEF PlumbEngine, TypeWorld, osVars
  <2>5. ConfigsKept'
    BY <1>11 DEF PlumbEngine, ConfigsKept, To, StartRemote, osVars, recVars, uiVars, Begun,
       TypeSvc, SvcRec, TypeJobs, BringUpPcs, TypeWatchdogs, WatchdogRec
  <2>6. WatchdogsBuilt'
    BY <1>11 DEF PlumbEngine, WatchdogsBuilt, To, StartRemote, osVars, recVars, uiVars,
       TypeSvc, SvcRec, TypeWatchdogs, WatchdogRec
  <2>7. TunsFresh'
    <3>1. svc'.tun = svc.tun /\ osTun' = osTun /\ pumps' = pumps
      BY <1>11 DEF PlumbEngine, osVars, TypeSvc, SvcRec
    <3>2. \E pc \in {"watch", "drop"} : bpc' = [bpc EXCEPT ![j] = pc]
      BY <1>11 DEF PlumbEngine, To
    <3>3. \A i \in Jobs : bpc'[i] = bpc[i] \/ bpc'[i] \in {"watch", "drop"}
      BY <3>2 DEF TypeJobs
    <3> QED
      BY <3>1, <3>3 DEF TunsFresh
  <2> QED BY <2>1, <2>2, <2>3, <2>4, <2>5, <2>6, <2>7 DEF IInv, TypeOK
<1>12. ASSUME NEW j \in Jobs, MakeWatchdog(j) PROVE IInv'
  <2>1. TypeUi' /\ TypeWorld' /\ GiveUpsExhausted'
    BY <1>12 DEF MakeWatchdog, osVars, recVars, uiVars, TypeUi, TypeWorld, GiveUpsExhausted
  <2>2. TypeSvc'
    BY <1>12 DEF MakeWatchdog, TypeSvc, SvcRec
  <2>3. TypeJobs'
    BY <1>12 DEF MakeWatchdog, TypeJobs, To, NoWd, osVars, recVars, uiVars, BringUpPcs,
       StopPcs
  <2>4. TypeWatchdogs'
    <3>1. CASE svc.engine = None
      BY <1>12, <3>1 DEF MakeWatchdog, TypeWatchdogs, recVars
    <3>2. CASE svc.engine # None
      <4>1. svc.engine \in Jobs
        BY <3>2 DEF TypeSvc, SvcRec
      <4>2. wd' = [wd EXCEPT ![j] = [NoWd EXCEPT !.engine = svc.engine]]
        BY <1>12, <3>2 DEF MakeWatchdog
      <4>3. [NoWd EXCEPT !.engine = svc.engine] \in WatchdogRec
        BY <4>1, EmptyObjects DEF WatchdogRec
      <4> QED
        BY <1>12, <4>2, <4>3 DEF MakeWatchdog, TypeWatchdogs, recVars
    <3> QED
      BY <3>1, <3>2
  <2>5. ConfigsKept'
    BY <1>12 DEF MakeWatchdog, ConfigsKept, To, NoWd, osVars, recVars, uiVars, Begun,
       TypeSvc, SvcRec, TypeJobs, BringUpPcs, TypeWatchdogs, WatchdogRec
  <2>6. WatchdogsBuilt'
    BY <1>12 DEF MakeWatchdog, WatchdogsBuilt, To, NoWd, osVars, recVars, uiVars, TypeSvc,
       SvcRec, TypeWatchdogs, WatchdogRec
  <2>7. TunsFresh'
    BY <1>12 DEF MakeWatchdog, TunsFresh, To, NoWd, osVars, recVars, uiVars, TypeSvc,
       SvcRec, TypeJobs, BringUpPcs
  <2> QED BY <2>1, <2>2, <2>3, <2>4, <2>5, <2>6, <2>7 DEF IInv, TypeOK
<1>13. ASSUME NEW j \in Jobs, RouteUp(j) PROVE IInv'
  <2>1. TypeUi' /\ TypeSvc' /\ TypeWatchdogs' /\ WatchdogsBuilt' /\ GiveUpsExhausted'
    BY <1>13 DEF RouteUp, osVars, recVars, uiVars, TypeUi, TypeSvc, TypeWatchdogs,
       WatchdogsBuilt, GiveUpsExhausted
  <2>2. TypeJobs'
    BY <1>13 DEF RouteUp, TypeJobs, To, osVars, recVars, uiVars, BringUpPcs, StopPcs
  <2>3. TypeWorld'
    BY <1>13, RouterTyped DEF Starters, RouteUp, TypeSvc, TypeWorld, osVars
  <2>4. ConfigsKept'
    <3>1. \A k \in Jobs : bpc'[k] \notin {"none", "enter", "begin", "done"}
             => bpc[k] \notin {"none", "enter", "begin", "done"}
      BY <1>13 DEF RouteUp, To, TypeJobs
    <3>2. \A k \in Jobs : bpc'[k] # "none" => bpc[k] # "none"
      BY <1>13 DEF RouteUp, To, TypeJobs
    <3> QED
      BY <1>13, <3>1, <3>2 DEF RouteUp, ConfigsKept, osVars, recVars, uiVars, Begun
  <2>5. TunsFresh'
    BY <1>13 DEF RouteUp, TunsFresh, To, CanRoute, StartRouter, osVars, recVars, uiVars,
       TypeSvc, SvcRec, TypeJobs, BringUpPcs
  <2> QED BY <2>1, <2>2, <2>3, <2>4, <2>5 DEF IInv, TypeOK
<1>14. ASSUME NEW j \in Jobs, CheckEngine(j) PROVE IInv'
  <2>1. TypeUi' /\ TypeSvc' /\ TypeWatchdogs' /\ TypeWorld' /\ WatchdogsBuilt' /\ GiveUpsExhausted'
    BY <1>14 DEF CheckEngine, osVars, recVars, uiVars, TypeUi, TypeSvc, TypeWatchdogs,
       TypeWorld, WatchdogsBuilt, GiveUpsExhausted
  <2>2. TypeJobs'
    BY <1>14 DEF CheckEngine, TypeJobs, To, osVars, recVars, uiVars, BringUpPcs, StopPcs
  <2>3. ConfigsKept'
    BY <1>14 DEF CheckEngine, ConfigsKept, To, osVars, recVars, uiVars, Begun
  <2>4. TunsFresh'
    BY <1>14 DEF CheckEngine, TunsFresh, To, osVars, recVars, uiVars
  <2> QED BY <2>1, <2>2, <2>3, <2>4 DEF IInv, TypeOK
<1>15. ASSUME NEW j \in Jobs, Probe(j) PROVE IInv'
  <2>1. TypeUi' /\ TypeSvc' /\ TypeWatchdogs' /\ WatchdogsBuilt' /\ GiveUpsExhausted'
    BY <1>15 DEF Probe, osVars, recVars, uiVars, TypeUi, TypeSvc, TypeWatchdogs,
       WatchdogsBuilt, GiveUpsExhausted
  <2>2. TypeJobs'
    BY <1>15 DEF Probe, TypeJobs, To, osVars, recVars, uiVars, BringUpPcs, StopPcs
  <2>3. TypeWorld'
    BY <1>15 DEF Probe, TypeWorld, To, osVars, recVars, uiVars, NoPair
  <2>4. ConfigsKept'
    BY <1>15 DEF Probe, ConfigsKept, To, osVars, recVars, uiVars, Begun
  <2>5. TunsFresh'
    BY <1>15 DEF Probe, TunsFresh, To, osVars, recVars, uiVars
  <2> QED BY <2>1, <2>2, <2>3, <2>4, <2>5 DEF IInv, TypeOK
<1>16. ASSUME NEW j \in Jobs, GoUp(j) PROVE IInv'
  <2>1. TypeUi' /\ TypeWorld' /\ GiveUpsExhausted'
    BY <1>16 DEF GoUp, osVars, recVars, uiVars, TypeUi, TypeWorld, GiveUpsExhausted
  <2>2. TypeSvc'
    BY <1>16 DEF GoUp, TypeSvc, To, osVars, recVars, uiVars
  <2>3. TypeJobs'
    BY <1>16 DEF GoUp, TypeJobs, To, osVars, recVars, uiVars, BringUpPcs, StopPcs
  <2>4. TypeWatchdogs'
    <3>1. CASE svc.watchdog = None
      BY <1>16, <3>1 DEF GoUp, TypeWatchdogs, recVars
    <3>2. CASE svc.watchdog # None
      <4>1. svc.watchdog \in Jobs
        BY <3>2 DEF TypeSvc, SvcRec
      <4> DEFINE e == [wd[svc.watchdog] EXCEPT !.observing = TRUE, !.seen = "Stopped"]
      <4>2. wd' = [wd EXCEPT ![svc.watchdog] = e]
        BY <1>16, <3>2 DEF GoUp
      <4>w. wd[svc.watchdog] \in WatchdogRec
        BY <4>1 DEF TypeWatchdogs
      <4>e. e \in WatchdogRec
        BY <4>w DEF WatchdogRec, EngineStates
      <4> HIDE DEF e
      <4>3. wd' \in [Jobs -> WatchdogRec]
        BY <4>2, <4>e DEF TypeWatchdogs
      <4> QED
        BY <1>16, <4>3 DEF GoUp, TypeWatchdogs, recVars
    <3> QED
      BY <3>1, <3>2
  <2>5. ConfigsKept'
    BY <1>16 DEF GoUp, ConfigsKept, To, osVars, recVars, uiVars, Begun
  <2>6. WatchdogsBuilt'
    BY <1>16 DEF GoUp, WatchdogsBuilt, To, osVars, recVars, uiVars, TypeSvc, SvcRec,
       TypeWatchdogs, WatchdogRec
  <2>7. TunsFresh'
    BY <1>16 DEF GoUp, TunsFresh, To, osVars, recVars, uiVars
  <2> QED BY <2>1, <2>2, <2>3, <2>4, <2>5, <2>6, <2>7 DEF IInv, TypeOK
<1>17. ASSUME NEW j \in Jobs, PublishConnected(j) PROVE IInv'
  <2>1. TypeSvc' /\ TypeWatchdogs' /\ TypeWorld' /\ WatchdogsBuilt' /\ GiveUpsExhausted'
    BY <1>17 DEF PublishConnected, osVars, recVars, uiVars, TypeSvc, TypeWatchdogs,
       TypeWorld, WatchdogsBuilt, GiveUpsExhausted
  <2>2. TypeUi'
    BY <1>17 DEF PublishConnected, TypeUi, To, osVars, recVars, uiVars, Stages
  <2>3. TypeJobs'
    BY <1>17 DEF PublishConnected, TypeJobs, To, osVars, recVars, uiVars, BringUpPcs,
       StopPcs
  <2>4. ConfigsKept'
    BY <1>17 DEF PublishConnected, ConfigsKept, To, osVars, recVars, uiVars, Begun
  <2>5. TunsFresh'
    BY <1>17 DEF PublishConnected, TunsFresh, To, osVars, recVars, uiVars
  <2> QED BY <2>1, <2>2, <2>3, <2>4, <2>5 DEF IInv, TypeOK
<1>18. ASSUME NEW j \in Jobs, FailDrop(j) PROVE IInv'
  <2>1. TypeUi' /\ TypeWatchdogs' /\ TypeWorld' /\ WatchdogsBuilt' /\ GiveUpsExhausted'
    BY <1>18 DEF FailDrop, osVars, recVars, uiVars, TypeUi, TypeWatchdogs, TypeWorld,
       WatchdogsBuilt, GiveUpsExhausted
  <2>2. TypeSvc'
    BY <1>18 DEF FailDrop, TypeSvc, To, DropConnected, osVars, recVars, uiVars
  <2>3. TypeJobs'
    BY <1>18 DEF FailDrop, TypeJobs, To, DropConnected, osVars, recVars, uiVars, BringUpPcs,
       StopPcs
  <2>4. ConfigsKept'
    BY <1>18 DEF FailDrop, ConfigsKept, To, DropConnected, osVars, recVars, uiVars, Begun
  <2>5. TunsFresh'
    BY <1>18 DEF FailDrop, TunsFresh, To, DropConnected, osVars, recVars, uiVars
  <2> QED BY <2>1, <2>2, <2>3, <2>4, <2>5 DEF IInv, TypeOK
<1>19. ASSUME NEW j \in Jobs, FailTeardown(j) PROVE IInv'
  <2>1. TypeUi' /\ GiveUpsExhausted'
    BY <1>19 DEF FailTeardown, recVars, uiVars, TypeUi, GiveUpsExhausted
  <2>2. TypeSvc'
    BY <1>19, TeardownTyped DEF FailTeardown, TypeSvc
  <2>3. TypeJobs'
    BY <1>19 DEF FailTeardown, TypeJobs, To, TeardownLocked, NoSvc, NoEng, recVars, uiVars,
       BringUpPcs, StopPcs
  <2>4. TypeWatchdogs'
    BY <1>19, TeardownTyped DEF FailTeardown, TypeWatchdogs, recVars, RecoveryTo, RecoveryPcs
  <2>5. TypeWorld'
    BY <1>19, TeardownTyped DEF FailTeardown, TypeWorld
  <2>6. ConfigsKept'
    BY <1>19 DEF FailTeardown, ConfigsKept, To, TeardownLocked, NoSvc, NoEng, recVars,
       uiVars, Begun
  <2>7. WatchdogsBuilt'
    BY <1>19 DEF FailTeardown, WatchdogsBuilt, To, TeardownLocked, NoSvc, NoEng, recVars,
       uiVars, TypeSvc, SvcRec, TypeWatchdogs, WatchdogRec
  <2>8. TunsFresh'
    BY <1>19 DEF FailTeardown, TunsFresh, To, TeardownLocked, NoSvc, NoEng, recVars, uiVars
  <2> QED BY <2>1, <2>2, <2>3, <2>4, <2>5, <2>6, <2>7, <2>8 DEF IInv, TypeOK
<1>20. ASSUME NEW j \in Jobs, PublishError(j) PROVE IInv'
  <2>1. TypeSvc' /\ TypeWatchdogs' /\ TypeWorld' /\ WatchdogsBuilt' /\ GiveUpsExhausted'
    BY <1>20 DEF PublishError, osVars, recVars, uiVars, TypeSvc, TypeWatchdogs, TypeWorld,
       WatchdogsBuilt, GiveUpsExhausted
  <2>2. TypeUi'
    BY <1>20 DEF PublishError, TypeUi, To, osVars, recVars, uiVars, Stages
  <2>3. TypeJobs'
    BY <1>20 DEF PublishError, TypeJobs, To, osVars, recVars, uiVars, BringUpPcs, StopPcs
  <2>4. ConfigsKept'
    BY <1>20 DEF PublishError, ConfigsKept, To, osVars, recVars, uiVars, Begun
  <2>5. TunsFresh'
    BY <1>20 DEF PublishError, TunsFresh, To, osVars, recVars, uiVars
  <2> QED BY <2>1, <2>2, <2>3, <2>4, <2>5 DEF IInv, TypeOK
<1>21. ASSUME NEW j \in Jobs, Finish(j) PROVE IInv'
  <2>1. TypeUi' /\ TypeWatchdogs' /\ TypeWorld' /\ WatchdogsBuilt' /\ GiveUpsExhausted'
    BY <1>21 DEF Finish, osVars, recVars, uiVars, TypeUi, TypeWatchdogs, TypeWorld,
       WatchdogsBuilt, GiveUpsExhausted
  <2>2. TypeSvc'
    BY <1>21 DEF Finish, TypeSvc, To, osVars, recVars, uiVars
  <2>3. TypeJobs'
    BY <1>21 DEF Finish, TypeJobs, To, osVars, recVars, uiVars, BringUpPcs, StopPcs
  <2>4. ConfigsKept'
    BY <1>21 DEF Finish, ConfigsKept, To, osVars, recVars, uiVars, Begun
  <2>5. TunsFresh'
    BY <1>21 DEF Finish, TunsFresh, To, osVars, recVars, uiVars
  <2> QED BY <2>1, <2>2, <2>3, <2>4, <2>5 DEF IInv, TypeOK
<1>22. ASSUME NEW j \in Jobs, Observe(j) PROVE IInv'
  <2>1. TypeUi' /\ TypeSvc' /\ TypeJobs' /\ TypeWorld' /\ TunsFresh'
    BY <1>22 DEF Observe, osVars, recVars, uiVars, TypeUi, TypeSvc, TypeJobs, TypeWorld,
       TunsFresh
  <2>2. TypeWatchdogs'
    <3>1. wd[j].engine \in Jobs
      BY <1>22 DEF Observe, WatchdogsBuilt, TypeWatchdogs, WatchdogRec
    <3>2. eng[wd[j].engine].state \in EngineStates
      BY <3>1 DEF TypeWorld, EngineRec
    <3>3. [wd EXCEPT ![j].seen = eng[wd[j].engine].state] \in [Jobs -> WatchdogRec]
      BY <3>2 DEF TypeWatchdogs, WatchdogRec
    <3> QED
      BY <1>22, <3>3, FaultTyped DEF Observe, TypeWatchdogs, recVars
  <2>3. ConfigsKept'
    BY <1>22 DEF Observe, ConfigsKept, ReportFault, osVars, recVars, uiVars, Begun
  <2>4. WatchdogsBuilt'
    BY <1>22 DEF Observe, WatchdogsBuilt, ReportFault, osVars, recVars, uiVars, TypeSvc,
       SvcRec, TypeWatchdogs, WatchdogRec
  <2>5. GiveUpsExhausted'
    BY <1>22 DEF Observe, GiveUpsExhausted, ReportFault, osVars, recVars, uiVars,
       TypeWatchdogs, RecoveryPcs
  <2> QED BY <2>1, <2>2, <2>3, <2>4, <2>5 DEF IInv, TypeOK
<1>23. ASSUME NEW j \in Jobs, PumpReport(j) PROVE IInv'
  <2>1. TypeUi' /\ TypeSvc' /\ TypeJobs' /\ TypeWorld' /\ TunsFresh'
    BY <1>23 DEF PumpReport, osVars, uiVars, TypeUi, TypeSvc, TypeJobs, TypeWorld, TunsFresh
  <2>2. TypeWatchdogs'
    BY <1>23, FaultTyped DEF PumpReport, TypeWatchdogs
  <2>3. ConfigsKept'
    BY <1>23 DEF PumpReport, ConfigsKept, ReportFault, osVars, uiVars, Begun
  <2>4. WatchdogsBuilt'
    <3>1. \A v \in Jobs : wd'[v].engine = wd[v].engine /\ wd'[v].observing = wd[v].observing
      BY <1>23, FaultKeeps DEF PumpReport, TypeWatchdogs
    <3>2. svc' = svc
      BY <1>23 DEF PumpReport
    <3> QED
      BY <3>1, <3>2 DEF WatchdogsBuilt
  <2>5. GiveUpsExhausted'
    <3>1. CASE wd[j].reconnecting
      BY <1>23, <3>1 DEF PumpReport, ReportFault, recVars, GiveUpsExhausted
    <3>2. CASE ~wd[j].reconnecting
      <4>1. rpc' = [rpc EXCEPT ![j] = "try"] /\ tries' = [tries EXCEPT ![j] = 0]
        BY <1>23, <3>2 DEF PumpReport, ReportFault
      <4> QED
        BY <4>1 DEF GiveUpsExhausted, TypeWatchdogs, RecoveryPcs
    <3> QED
      BY <3>1, <3>2
  <2> QED BY <2>1, <2>2, <2>3, <2>4, <2>5 DEF IInv, TypeOK
<1>24. ASSUME NEW j \in Jobs, RecoveryTry(j) PROVE IInv'
  <2>1. TypeSvc' /\ TypeJobs' /\ TypeWorld' /\ WatchdogsBuilt' /\ TunsFresh'
    BY <1>24 DEF RecoveryTry, osVars, uiVars, TypeSvc, TypeJobs, TypeWorld, WatchdogsBuilt,
       TunsFresh
  <2>2. TypeUi'
    BY <1>24 DEF RecoveryTry, TypeUi, RecoveryTo, osVars, uiVars, Stages
  <2>3. TypeWatchdogs'
    BY <1>24 DEF RecoveryTry, TypeWatchdogs, RecoveryTo, osVars, uiVars, RecoveryPcs
  <2>4. ConfigsKept'
    BY <1>24 DEF RecoveryTry, ConfigsKept, RecoveryTo, osVars, uiVars, Begun
  <2>5. GiveUpsExhausted'
    BY <1>24 DEF RecoveryTry, GiveUpsExhausted, RecoveryTo, osVars, uiVars, TypeWatchdogs,
       RecoveryPcs
  <2> QED BY <2>1, <2>2, <2>3, <2>4, <2>5 DEF IInv, TypeOK
<1>25. ASSUME NEW j \in Jobs, RecoveryDelay(j) PROVE IInv'
  <2>1. TypeUi' /\ TypeSvc' /\ TypeJobs' /\ TypeWorld' /\ WatchdogsBuilt' /\ TunsFresh'
    BY <1>25 DEF RecoveryDelay, osVars, uiVars, TypeUi, TypeSvc, TypeJobs, TypeWorld,
       WatchdogsBuilt, TunsFresh
  <2>2. TypeWatchdogs'
    BY <1>25 DEF RecoveryDelay, TypeWatchdogs, RecoveryTo, osVars, uiVars, RecoveryPcs
  <2>3. ConfigsKept'
    BY <1>25 DEF RecoveryDelay, ConfigsKept, RecoveryTo, osVars, uiVars, Begun
  <2>4. GiveUpsExhausted'
    BY <1>25 DEF RecoveryDelay, GiveUpsExhausted, RecoveryTo, osVars, uiVars
  <2> QED BY <2>1, <2>2, <2>3, <2>4 DEF IInv, TypeOK
<1>26. ASSUME NEW j \in Jobs, ReconnectEngine(j) PROVE IInv'
  <2>1. TypeUi' /\ TypeJobs'
    BY <1>26 DEF ReconnectEngine, osVars, uiVars, TypeUi, TypeJobs
  <2>2. TypeSvc'
    <3>1. (IF svc.engine = None THEN j ELSE svc.engine) \in Jobs /\ pairs + 1 \in Nat
      BY DEF TypeSvc, TypeWorld, SvcRec
    <3>2. svc' \in SvcRec
      BY <1>26, <3>1 DEF ReconnectEngine, TypeSvc, SvcRec
    <3> QED
      BY <1>26, <3>2 DEF ReconnectEngine, TypeSvc
  <2>3. TypeWatchdogs'
    BY <1>26 DEF ReconnectEngine, TypeWatchdogs, RecoveryTo, Failed, StartRemote, osVars,
       uiVars, RecoveryPcs
  <2>4. TypeWorld'
    <3>1. (IF svc.engine = None THEN j ELSE svc.engine) \in Jobs /\ pairs + 1 \in Nat
      BY DEF TypeSvc, TypeWorld, SvcRec
    <3>2. eng' \in [Jobs -> EngineRec]
      BY <1>26, <3>1, RemoteTyped DEF ReconnectEngine, TypeWorld
    <3> QED
      BY <1>26, <3>1, <3>2 DEF ReconnectEngine, TypeWorld, osVars
  <2>5. ConfigsKept'
    BY <1>26 DEF ReconnectEngine, ConfigsKept, RecoveryTo, Failed, StartRemote, osVars,
       uiVars, Begun
  <2>6. WatchdogsBuilt'
    BY <1>26 DEF ReconnectEngine, WatchdogsBuilt, RecoveryTo, Failed, StartRemote, osVars,
       uiVars, TypeSvc, SvcRec, TypeWatchdogs, WatchdogRec
  <2>7. TunsFresh'
    BY <1>26 DEF ReconnectEngine, TunsFresh, RecoveryTo, Failed, StartRemote, osVars,
       uiVars, TypeSvc, SvcRec, TypeJobs, BringUpPcs
  <2>8. GiveUpsExhausted'
    BY <1>26 DEF ReconnectEngine, GiveUpsExhausted, RecoveryTo, Failed, StartRemote, osVars,
       uiVars, TypeWatchdogs, RecoveryPcs
  <2> QED BY <2>1, <2>2, <2>3, <2>4, <2>5, <2>6, <2>7, <2>8 DEF IInv, TypeOK
<1>27. ASSUME NEW j \in Jobs, ReconnectRoute(j) PROVE IInv'
  <2>1. TypeUi' /\ TypeSvc' /\ TypeJobs' /\ WatchdogsBuilt'
    BY <1>27 DEF ReconnectRoute, osVars, recVars, uiVars, TypeUi, TypeSvc, TypeJobs,
       WatchdogsBuilt
  <2>2. TypeWatchdogs'
    BY <1>27 DEF ReconnectRoute, TypeWatchdogs, RecoveryTo, Failed, RecoveryPcs
  <2>3. TypeWorld'
    BY <1>27, RouterTyped DEF Starters, ReconnectRoute, TypeSvc, TypeWorld, osVars
  <2>4. ConfigsKept'
    BY <1>27 DEF ReconnectRoute, ConfigsKept, RecoveryTo, Failed, osVars, uiVars, Begun
  <2>5. TunsFresh'
    BY <1>27 DEF ReconnectRoute, TunsFresh, CanRoute, StartRouter, osVars, uiVars
  <2>6. GiveUpsExhausted'
    BY <1>27 DEF ReconnectRoute, GiveUpsExhausted, RecoveryTo, Failed, TypeWatchdogs
  <2> QED BY <2>1, <2>2, <2>3, <2>4, <2>5, <2>6 DEF IInv, TypeOK
<1>28. ASSUME NEW j \in Jobs, ReconnectResult(j) PROVE IInv'
  <2>1. TypeUi' /\ TypeSvc' /\ TypeJobs' /\ TypeWorld' /\ WatchdogsBuilt' /\ TunsFresh'
    BY <1>28 DEF ReconnectResult, osVars, uiVars, TypeUi, TypeSvc, TypeJobs, TypeWorld,
       WatchdogsBuilt, TunsFresh
  <2>2. TypeWatchdogs'
    BY <1>28 DEF ReconnectResult, TypeWatchdogs, RecoveryTo, Failed, osVars, uiVars,
       RecoveryPcs
  <2>3. ConfigsKept'
    BY <1>28 DEF ReconnectResult, ConfigsKept, RecoveryTo, Failed, osVars, uiVars, Begun
  <2>4. GiveUpsExhausted'
    BY <1>28 DEF ReconnectResult, GiveUpsExhausted, RecoveryTo, Failed, osVars, uiVars,
       TypeWatchdogs, RecoveryPcs
  <2> QED BY <2>1, <2>2, <2>3, <2>4 DEF IInv, TypeOK
<1>29. ASSUME NEW j \in Jobs, RecoveryPublish(j) PROVE IInv'
  <2>1. TypeSvc' /\ TypeJobs' /\ TypeWorld' /\ WatchdogsBuilt' /\ TunsFresh'
    BY <1>29 DEF RecoveryPublish, osVars, uiVars, TypeSvc, TypeJobs, TypeWorld,
       WatchdogsBuilt, TunsFresh
  <2>2. TypeUi'
    BY <1>29 DEF RecoveryPublish, TypeUi, RecoveryTo, osVars, uiVars, Stages
  <2>3. TypeWatchdogs'
    BY <1>29 DEF RecoveryPublish, TypeWatchdogs, RecoveryTo, osVars, uiVars, RecoveryPcs
  <2>4. ConfigsKept'
    BY <1>29 DEF RecoveryPublish, ConfigsKept, RecoveryTo, osVars, uiVars, Begun
  <2>5. GiveUpsExhausted'
    BY <1>29 DEF RecoveryPublish, GiveUpsExhausted, RecoveryTo, osVars, uiVars
  <2> QED BY <2>1, <2>2, <2>3, <2>4, <2>5 DEF IInv, TypeOK
<1>30. ASSUME NEW j \in Jobs, GiveUpDrop(j) PROVE IInv'
  <2>1. TypeUi' /\ TypeJobs' /\ TypeWorld' /\ WatchdogsBuilt' /\ TunsFresh'
    BY <1>30 DEF GiveUpDrop, osVars, uiVars, TypeUi, TypeJobs, TypeWorld, WatchdogsBuilt,
       TunsFresh
  <2>2. TypeSvc'
    BY <1>30 DEF GiveUpDrop, TypeSvc, RecoveryTo, DropConnected, osVars, uiVars
  <2>3. TypeWatchdogs'
    BY <1>30 DEF GiveUpDrop, TypeWatchdogs, RecoveryTo, DropConnected, osVars, uiVars,
       RecoveryPcs
  <2>4. ConfigsKept'
    BY <1>30 DEF GiveUpDrop, ConfigsKept, RecoveryTo, DropConnected, osVars, uiVars, Begun
  <2>5. GiveUpsExhausted'
    BY <1>30 DEF GiveUpDrop, GiveUpsExhausted, RecoveryTo, DropConnected, osVars, uiVars
  <2> QED BY <2>1, <2>2, <2>3, <2>4, <2>5 DEF IInv, TypeOK
<1>31. ASSUME NEW j \in Jobs, GiveUpTeardown(j) PROVE IInv'
  <2>1. TypeUi' /\ TypeJobs'
    BY <1>31 DEF GiveUpTeardown, uiVars, TypeUi, TypeJobs
  <2>2. TypeSvc'
    BY <1>31, TeardownTyped DEF GiveUpTeardown, TypeSvc
  <2>3. TypeWatchdogs'
    BY <1>31, TeardownTyped DEF GiveUpTeardown, TypeWatchdogs, recVars, RecoveryTo, RecoveryPcs
  <2>4. TypeWorld'
    BY <1>31, TeardownTyped DEF GiveUpTeardown, TypeWorld
  <2>5. ConfigsKept'
    BY <1>31 DEF GiveUpTeardown, ConfigsKept, RecoveryTo, TeardownLocked, NoSvc, NoEng,
       uiVars, Begun
  <2>6. WatchdogsBuilt'
    BY <1>31 DEF GiveUpTeardown, WatchdogsBuilt, RecoveryTo, TeardownLocked, NoSvc, NoEng,
       uiVars, TypeSvc, SvcRec, TypeWatchdogs, WatchdogRec
  <2>7. TunsFresh'
    BY <1>31 DEF GiveUpTeardown, TunsFresh, RecoveryTo, TeardownLocked, NoSvc, NoEng, uiVars
  <2>8. GiveUpsExhausted'
    BY <1>31 DEF GiveUpTeardown, GiveUpsExhausted, RecoveryTo, TeardownLocked, NoSvc, NoEng,
       uiVars
  <2> QED BY <2>1, <2>2, <2>3, <2>4, <2>5, <2>6, <2>7, <2>8 DEF IInv, TypeOK
<1>32. ASSUME NEW j \in Jobs, GiveUpPublish(j) PROVE IInv'
  <2>1. TypeSvc' /\ TypeJobs' /\ TypeWorld' /\ WatchdogsBuilt' /\ TunsFresh'
    BY <1>32 DEF GiveUpPublish, osVars, uiVars, TypeSvc, TypeJobs, TypeWorld,
       WatchdogsBuilt, TunsFresh
  <2>2. TypeUi'
    BY <1>32 DEF GiveUpPublish, TypeUi, RecoveryTo, osVars, uiVars, Stages
  <2>3. TypeWatchdogs'
    BY <1>32 DEF GiveUpPublish, TypeWatchdogs, RecoveryTo, osVars, uiVars, RecoveryPcs
  <2>4. ConfigsKept'
    BY <1>32 DEF GiveUpPublish, ConfigsKept, RecoveryTo, osVars, uiVars, Begun
  <2>5. GiveUpsExhausted'
    BY <1>32 DEF GiveUpPublish, GiveUpsExhausted, RecoveryTo, osVars, uiVars
  <2> QED BY <2>1, <2>2, <2>3, <2>4, <2>5 DEF IInv, TypeOK
<1>33. ASSUME NEW j \in Jobs, RecoveryEnd(j) PROVE IInv'
  <2>1. TypeUi' /\ TypeSvc' /\ TypeJobs' /\ TypeWorld' /\ TunsFresh'
    BY <1>33 DEF RecoveryEnd, osVars, uiVars, TypeUi, TypeSvc, TypeJobs, TypeWorld,
       TunsFresh
  <2>2. TypeWatchdogs'
    BY <1>33 DEF RecoveryEnd, TypeWatchdogs, RecoveryTo, osVars, uiVars, RecoveryPcs,
       WatchdogRec
  <2>3. ConfigsKept'
    BY <1>33 DEF RecoveryEnd, ConfigsKept, RecoveryTo, osVars, uiVars, Begun
  <2>4. WatchdogsBuilt'
    BY <1>33 DEF RecoveryEnd, WatchdogsBuilt, RecoveryTo, osVars, uiVars
  <2>5. GiveUpsExhausted'
    BY <1>33 DEF RecoveryEnd, GiveUpsExhausted, RecoveryTo, osVars, uiVars
  <2> QED BY <2>1, <2>2, <2>3, <2>4, <2>5 DEF IInv, TypeOK
<1>34. ASSUME NEW j \in Jobs, EngineDies(j) PROVE IInv'
  <2>1. TypeUi' /\ TypeSvc' /\ TypeJobs' /\ TypeWatchdogs' /\ ConfigsKept'
       /\ WatchdogsBuilt' /\ TunsFresh' /\ GiveUpsExhausted'
    BY <1>34 DEF EngineDies, osVars, recVars, uiVars, TypeUi, TypeSvc, TypeJobs,
       TypeWatchdogs, ConfigsKept, WatchdogsBuilt, TunsFresh, GiveUpsExhausted, Begun
  <2>2. TypeWorld'
    <3>1. eng' \in [Jobs -> EngineRec]
      <4>1. [eng[j] EXCEPT !.pair = NoPair, !.loop = NoPair] \in EngineRec
        BY DEF TypeWorld, EngineRec, NoPair
      <4>2. eng' = [eng EXCEPT ![j] = [eng[j] EXCEPT !.pair = NoPair, !.loop = NoPair]]
        BY <1>34 DEF EngineDies, TypeWorld
      <4> QED
        BY <4>1, <4>2 DEF TypeWorld
    <3>2. budget' \in [crashes : Nat, revokes : Nat, kills : Nat]
      BY <1>34 DEF EngineDies, TypeWorld
    <3> QED
      BY <1>34, <3>1, <3>2 DEF EngineDies, TypeWorld, osVars
  <2> QED BY <2>1, <2>2 DEF IInv, TypeOK
<1>35. ASSUME NEW j \in Jobs, EngineLost(j) PROVE IInv'
  <2>1. TypeUi' /\ TypeSvc' /\ TypeJobs' /\ TypeWatchdogs' /\ ConfigsKept'
       /\ WatchdogsBuilt' /\ TunsFresh' /\ GiveUpsExhausted'
    BY <1>35 DEF EngineLost, osVars, recVars, uiVars, TypeUi, TypeSvc, TypeJobs,
       TypeWatchdogs, ConfigsKept, WatchdogsBuilt, TunsFresh, GiveUpsExhausted, Begun
  <2>2. TypeWorld'
    BY <1>35 DEF EngineLost, TypeWorld, osVars, recVars, uiVars, NoPair, EngineRec,
       EngineStates
  <2> QED BY <2>1, <2>2 DEF IInv, TypeOK
<1>36. ASSUME NEW s \in StopJobs, DispatchStop(s) PROVE IInv'
  <2>1. TypeSvc' /\ TypeWatchdogs' /\ TypeWorld'
       /\ WatchdogsBuilt' /\ TunsFresh' /\ GiveUpsExhausted'
    BY <1>36 DEF DispatchStop, osVars, recVars, TypeSvc, TypeWatchdogs, TypeWorld,
       WatchdogsBuilt, TunsFresh, GiveUpsExhausted
  <2>2. TypeUi'
    BY <1>36 DEF DispatchStop, TypeUi, osVars, recVars, Stages
  <2>3. TypeJobs'
    BY <1>36 DEF DispatchStop, TypeJobs, osVars, recVars, BringUpPcs, StopPcs
  <2>4. ConfigsKept'
    BY <1>36 DEF DispatchStop, ConfigsKept, osVars, recVars, Begun
  <2> QED BY <2>1, <2>2, <2>3, <2>4 DEF IInv, TypeOK
<1>37. ASSUME NEW s \in StopJobs, StopDrop(s) PROVE IInv'
  <2>1. TypeUi' /\ TypeWatchdogs' /\ TypeWorld' /\ ConfigsKept'
       /\ WatchdogsBuilt' /\ TunsFresh' /\ GiveUpsExhausted'
    BY <1>37 DEF StopDrop, osVars, recVars, uiVars, TypeUi, TypeWatchdogs, TypeWorld,
       ConfigsKept, WatchdogsBuilt, TunsFresh, GiveUpsExhausted, Begun
  <2>2. TypeSvc'
    BY <1>37 DEF StopDrop, TypeSvc, DropConnected, osVars, recVars, uiVars
  <2>3. TypeJobs'
    BY <1>37 DEF StopDrop, TypeJobs, DropConnected, osVars, recVars, uiVars, BringUpPcs,
       StopPcs
  <2> QED BY <2>1, <2>2, <2>3 DEF IInv, TypeOK
<1>38. ASSUME NEW s \in StopJobs, StopTeardown(s) PROVE IInv'
  <2>1. TypeUi' /\ GiveUpsExhausted'
    BY <1>38 DEF StopTeardown, recVars, uiVars, TypeUi, GiveUpsExhausted
  <2>2. TypeSvc'
    BY <1>38, TeardownTyped DEF StopTeardown, TypeSvc
  <2>3. TypeJobs'
    BY <1>38 DEF StopTeardown, TypeJobs, TeardownLocked, NoSvc, NoEng, recVars, uiVars,
       BringUpPcs, StopPcs
  <2>4. TypeWatchdogs'
    BY <1>38, TeardownTyped DEF StopTeardown, TypeWatchdogs, recVars, RecoveryTo, RecoveryPcs
  <2>5. TypeWorld'
    BY <1>38, TeardownTyped DEF StopTeardown, TypeWorld
  <2>6. ConfigsKept'
    BY <1>38 DEF StopTeardown, ConfigsKept, TeardownLocked, NoSvc, NoEng, recVars, uiVars,
       Begun
  <2>7. WatchdogsBuilt'
    BY <1>38 DEF StopTeardown, WatchdogsBuilt, TeardownLocked, NoSvc, NoEng, recVars,
       uiVars, TypeSvc, SvcRec, TypeWatchdogs, WatchdogRec
  <2>8. TunsFresh'
    BY <1>38 DEF StopTeardown, TunsFresh, TeardownLocked, NoSvc, NoEng, recVars, uiVars
  <2> QED BY <2>1, <2>2, <2>3, <2>4, <2>5, <2>6, <2>7, <2>8 DEF IInv, TypeOK
<1>39. ASSUME NEW s \in StopJobs, StopPublish(s) PROVE IInv'
  <2>1. TypeSvc' /\ TypeWatchdogs' /\ TypeWorld' /\ ConfigsKept'
       /\ WatchdogsBuilt' /\ TunsFresh' /\ GiveUpsExhausted'
    BY <1>39 DEF StopPublish, osVars, recVars, uiVars, TypeSvc, TypeWatchdogs, TypeWorld,
       ConfigsKept, WatchdogsBuilt, TunsFresh, GiveUpsExhausted, Begun
  <2>2. TypeUi'
    BY <1>39 DEF StopPublish, TypeUi, osVars, recVars, uiVars, Stages
  <2>3. TypeJobs'
    BY <1>39 DEF StopPublish, TypeJobs, osVars, recVars, uiVars, BringUpPcs, StopPcs
  <2> QED BY <2>1, <2>2, <2>3 DEF IInv, TypeOK
<1>40. ASSUME NEW s \in StopJobs, Revoke(s) PROVE IInv'
  <2>1. TypeUi' /\ TypeSvc' /\ TypeWatchdogs' /\ ConfigsKept' /\ WatchdogsBuilt' /\ GiveUpsExhausted'
    BY <1>40 DEF Revoke, recVars, uiVars, TypeUi, TypeSvc, TypeWatchdogs, ConfigsKept,
       WatchdogsBuilt, GiveUpsExhausted, Begun
  <2>2. TypeJobs'
    BY <1>40 DEF Revoke, TypeJobs, recVars, uiVars, BringUpPcs, StopPcs
  <2>3. TypeWorld'
    BY <1>40 DEF Revoke, TypeWorld, recVars, uiVars, NoPair
  <2>4. TunsFresh'
    BY <1>40 DEF Revoke, TunsFresh, recVars, uiVars
  <2> QED BY <2>1, <2>2, <2>3, <2>4 DEF IInv, TypeOK
<1>41. ASSUME NEW r \in pumps, PumpFault(r) PROVE IInv'
  <2>1. TypeUi' /\ TypeSvc' /\ TypeJobs' /\ TypeWorld' /\ WatchdogsBuilt' /\ TunsFresh' /\ GiveUpsExhausted'
    BY <1>41 DEF PumpFault, osVars, recVars, uiVars, TypeUi, TypeSvc, TypeJobs, TypeWorld,
       WatchdogsBuilt, TunsFresh, GiveUpsExhausted
  <2>2. TypeWatchdogs'
    BY <1>41 DEF PumpFault, TypeWatchdogs, osVars, recVars, uiVars, RecoveryPcs, TypeSvc,
       SvcRec
  <2>3. ConfigsKept'
    BY <1>41 DEF PumpFault, ConfigsKept, osVars, recVars, uiVars, Begun
  <2> QED BY <2>1, <2>2, <2>3 DEF IInv, TypeOK
<1>42. ASSUME NEW r \in pumps, NEW s \in StopJobs, PumpTunLost(r, s) PROVE IInv'
  <2>1. TypeUi' /\ TypeSvc' /\ TypeWatchdogs' /\ ConfigsKept' /\ WatchdogsBuilt' /\ GiveUpsExhausted'
    BY <1>42 DEF PumpTunLost, osVars, recVars, uiVars, TypeUi, TypeSvc, TypeWatchdogs,
       ConfigsKept, WatchdogsBuilt, GiveUpsExhausted, Begun
  <2>2. TypeJobs'
    BY <1>42 DEF PumpTunLost, TypeJobs, osVars, recVars, uiVars, BringUpPcs, StopPcs
  <2>3. TypeWorld'
    BY <1>42 DEF PumpTunLost, TypeWorld, osVars, recVars, uiVars, NoPair
  <2>4. TunsFresh'
    BY <1>42 DEF PumpTunLost, TunsFresh, osVars, recVars, uiVars
  <2> QED BY <2>1, <2>2, <2>3, <2>4 DEF IInv, TypeOK
<1>43. ASSUME DispatchDrops PROVE IInv'
  <2>1. TypeSvc' /\ TypeJobs' /\ TypeWatchdogs' /\ TypeWorld'
       /\ WatchdogsBuilt' /\ TunsFresh' /\ GiveUpsExhausted'
    BY <1>43 DEF DispatchDrops, osVars, recVars, TypeSvc, TypeJobs, TypeWatchdogs, TypeWorld,
       WatchdogsBuilt, TunsFresh, GiveUpsExhausted
  <2>2. TypeUi'
    BY <1>43 DEF DispatchDrops, TypeUi, osVars, recVars, Stages
  <2>3. ConfigsKept'
    BY <1>43 DEF DispatchDrops, ConfigsKept, osVars, recVars, Begun, TypeUi
  <2> QED BY <2>1, <2>2, <2>3 DEF IInv, TypeOK
<1>44. ASSUME NEW j \in Jobs, RouterUp(j) PROVE IInv'
  <2>a. <<"bringUp", j>> \in Starters
    BY DEF Starters
  <2>b. /\ svc' \in SvcRec /\ svc'.tun = svc.tun /\ svc'.watchdog = svc.watchdog
        /\ made' \in [Starters -> Routers \cup {None}]
    BY <1>44, <2>a, AssignTyped DEF RouterUp, TypeSvc, TypeWorld
  <2>1. TypeUi' /\ TypeWatchdogs' /\ GiveUpsExhausted' /\ WatchdogsBuilt'
    BY <1>44, <2>b DEF RouterUp, osVars, recVars, uiVars, TypeUi, TypeWatchdogs,
       GiveUpsExhausted, WatchdogsBuilt
  <2>2. TypeJobs'
    BY <1>44 DEF RouterUp, TypeJobs, To, BringUpPcs
  <2>3. TypeWorld' /\ TypeSvc'
    BY <1>44, <2>b DEF RouterUp, TypeSvc, TypeWorld, osVars
  <2>4. ConfigsKept'
    BY <1>44, <2>b DEF RouterUp, ConfigsKept, To, osVars, recVars, uiVars, Begun
  <2>5. TunsFresh'
    BY <1>44, <2>b DEF RouterUp, TunsFresh, To, osVars, TypeJobs
  <2> QED BY <2>1, <2>2, <2>3, <2>4, <2>5 DEF IInv, TypeOK
<1>45. ASSUME NEW j \in Jobs, ReconnectRouter(j) PROVE IInv'
  <2>a. <<"reconnectEngine", j>> \in Starters
    BY DEF Starters
  <2>b. /\ svc' \in SvcRec /\ svc'.tun = svc.tun /\ svc'.watchdog = svc.watchdog
        /\ made' \in [Starters -> Routers \cup {None}]
    BY <1>45, <2>a, AssignTyped DEF ReconnectRouter, TypeSvc, TypeWorld
  <2>1. TypeUi' /\ TypeJobs' /\ WatchdogsBuilt' /\ TunsFresh'
    BY <1>45, <2>b DEF ReconnectRouter, osVars, uiVars, TypeUi, TypeJobs, WatchdogsBuilt,
       TunsFresh
  <2>2. TypeWatchdogs'
    BY <1>45 DEF ReconnectRouter, TypeWatchdogs, RecoveryTo, RecoveryPcs
  <2>3. TypeWorld' /\ TypeSvc'
    BY <1>45, <2>b DEF ReconnectRouter, TypeSvc, TypeWorld, osVars
  <2>4. ConfigsKept'
    BY <1>45, <2>b DEF ReconnectRouter, ConfigsKept, RecoveryTo, osVars, uiVars, Begun
  <2>5. GiveUpsExhausted'
    BY <1>45 DEF ReconnectRouter, GiveUpsExhausted, RecoveryTo, TypeWatchdogs
  <2> QED BY <2>1, <2>2, <2>3, <2>4, <2>5 DEF IInv, TypeOK
<1>46. CASE UNCHANGED vars
  BY <1>46 DEF vars, TypeUi, TypeSvc, TypeJobs, TypeWatchdogs, TypeWorld, ConfigsKept,
     WatchdogsBuilt, TunsFresh, GiveUpsExhausted, Begun
<1> QED
  BY <1>1, <1>2, <1>3, <1>4, <1>5, <1>6, <1>7, <1>8, <1>9, <1>10, <1>11, <1>12,
     <1>13, <1>14, <1>15, <1>16, <1>17, <1>18, <1>19, <1>20, <1>21, <1>22, <1>23, <1>24,
     <1>25, <1>26, <1>27, <1>28, <1>29, <1>30, <1>31, <1>32, <1>33, <1>34, <1>35, <1>36,
     <1>37, <1>38, <1>39, <1>40, <1>41, <1>42, <1>43, <1>44, <1>45, <1>46
     DEF Next, ApplyStep, BringUpStep, StopStep, RecoveryStep, WatchdogStep,
     Traffic, TunReadFails

-----------------------------------------------------------------------------
(***************************************************************************)
(* Invariance.                                                             *)
(***************************************************************************)

\* The initial states satisfy the inductive invariant.
LEMMA InitIInv == Init => IInv
<1> SUFFICES ASSUME Init PROVE IInv
  OBVIOUS
<1>0. dropped \in BOOLEAN
  BY DEF Init
<1>1. TypeUi /\ TypeJobs
  BY <1>0 DEF Init, TypeUi, TypeJobs, Stages, BringUpPcs, StopPcs
<1>2. TypeSvc /\ TypeWatchdogs
  BY EmptyObjects DEF Init, TypeSvc, TypeWatchdogs, RecoveryPcs
<1>3. TypeWorld
  BY EmptyObjects, BoundsAssumption DEF Init, TypeWorld, NoPair
<1>4. ConfigsKept /\ WatchdogsBuilt
  BY JobsAssumption DEF Init, ConfigsKept, Begun, WatchdogsBuilt, NoSvc, NoWd
<1>5. TunsFresh /\ GiveUpsExhausted
  BY JobsAssumption DEF Init, TunsFresh, GiveUpsExhausted, NoSvc
<1> QED
  BY <1>1, <1>2, <1>3, <1>4, <1>5 DEF IInv, TypeOK

\* The inductive invariant holds of every behaviour.
LEMMA AlwaysIInv == Spec => []IInv
  BY InitIInv, StepIInv, PTL DEF Spec

\* Type correctness: every field, coroutine and object of the service keeps
\* its type, whatever order commands, faults and callbacks arrive in.
THEOREM TypeCorrect == Spec => []TypeOK
<1>1. IInv => TypeOK
  BY DEF IInv
<1> QED
  BY <1>1, AlwaysIInv, PTL

\* The null check of reconnectEngine is dead code: a recovery that has waited
\* out its backoff always has a config to re-plumb with.
THEOREM RecoveryHasConfig == Spec => []ConfigKnown
<1>1. IInv => ConfigKnown
  BY DEF IInv, ConfigsKept, Begun, ConfigKnown
<1> QED
  BY <1>1, AlwaysIInv, PTL

-----------------------------------------------------------------------------
(***************************************************************************)
(* Validate before up, with a Keystore that returns what it was given.     *)
(***************************************************************************)

\* Every step keeps every config in circulation validated.
LEMMA ValidatedStep ==
  ASSUME KeystoreFails = FALSE
  PROVE  IInv /\ ConfigsValidated /\ [Next]_vars => ConfigsValidated'
<1> SUFFICES ASSUME IInv, ConfigsValidated, [Next]_vars PROVE ConfigsValidated'
  OBVIOUS
<1> USE DEF IInv, TypeOK
<1>1. ASSUME ApplyFail \/ ApplyReturn \/ StopTap \/ DispatchDrops
      PROVE  /\ UNCHANGED <<currentConfig, persisted, validated, bcfg>>
             /\ \A k \in Jobs : bpc[k] = "none" => bpc'[k] = "none"
  BY <1>1 DEF ApplyFail, osVars, recVars, ApplyReturn, StopTap, DispatchDrops, uiVars, TypeJobs
<1>2. ASSUME NEW j \in Jobs,
             \/ Enter(j) \/ Establish(j) \/ PlumbEngine(j) \/ MakeWatchdog(j)
             \/ RouteUp(j) \/ RouterUp(j) \/ CheckEngine(j) \/ Probe(j) \/ GoUp(j)
             \/ PublishConnected(j) \/ FailDrop(j) \/ FailTeardown(j)
             \/ PublishError(j) \/ Finish(j) \/ EngineDies(j) \/ EngineLost(j)
      PROVE  /\ UNCHANGED <<currentConfig, persisted, validated, bcfg>>
             /\ \A k \in Jobs : bpc[k] = "none" => bpc'[k] = "none"
  BY <1>2 DEF Enter, To, osVars, recVars, uiVars, Establish, PlumbEngine, MakeWatchdog,
     RouteUp, RouterUp, CheckEngine, Probe, GoUp, PublishConnected, FailDrop, FailTeardown,
     PublishError, Finish, EngineDies, EngineLost, TypeJobs
<1>3. ASSUME NEW s \in StopJobs,
             \/ DispatchStop(s) \/ StopDrop(s) \/ StopTeardown(s) \/ StopPublish(s)
             \/ Revoke(s)
      PROVE  /\ UNCHANGED <<currentConfig, persisted, validated, bcfg>>
             /\ \A k \in Jobs : bpc[k] = "none" => bpc'[k] = "none"
  BY <1>3 DEF DispatchStop, osVars, recVars, StopDrop, uiVars, StopTeardown, StopPublish,
     Revoke, TypeJobs
<1>4. ASSUME NEW j \in Jobs,
             \/ Observe(j) \/ PumpReport(j) \/ RecoveryTry(j) \/ RecoveryDelay(j)
             \/ ReconnectEngine(j) \/ ReconnectRoute(j) \/ ReconnectRouter(j) \/ ReconnectResult(j)
             \/ RecoveryPublish(j) \/ GiveUpDrop(j) \/ GiveUpTeardown(j)
             \/ GiveUpPublish(j) \/ RecoveryEnd(j)
      PROVE  /\ UNCHANGED <<currentConfig, persisted, validated, bcfg>>
             /\ \A k \in Jobs : bpc[k] = "none" => bpc'[k] = "none"
  BY <1>4 DEF Observe, osVars, recVars, uiVars, PumpReport, RecoveryTry, RecoveryDelay,
     ReconnectEngine, ReconnectRoute, ReconnectRouter, ReconnectResult, RecoveryPublish, GiveUpDrop,
     GiveUpTeardown, GiveUpPublish, RecoveryEnd, TypeJobs
<1>5. ASSUME (\E p \in Proxies : ApplyStart(p)) \/ Traffic \/ TunReadFails
      PROVE  /\ UNCHANGED <<currentConfig, persisted, validated, bcfg>>
             /\ \A k \in Jobs : bpc[k] = "none" => bpc'[k] = "none"
  BY <1>5 DEF ApplyStart, osVars, recVars, PumpFault, uiVars, PumpTunLost, Traffic,
     TunReadFails, TypeJobs
<1>6. CASE UNCHANGED vars
  BY <1>6 DEF vars, ConfigsValidated
<1>7. ASSUME ApplyPass PROVE ConfigsValidated'
  BY <1>7 DEF ApplyPass, ConfigsValidated
<1>8. ASSUME NEW j \in Jobs, DispatchConnect(j) PROVE ConfigsValidated'
  <2>1. currentConfig # None
    BY <1>8 DEF DispatchConnect, ConfigsKept, TypeUi
  <2> QED
    BY <1>8, <2>1 DEF DispatchConnect, Launch, ConfigsValidated, TypeJobs
<1>9. ASSUME NEW j \in Jobs, ProcessRestart(j) PROVE ConfigsValidated'
  <2>1. persisted \in validated
    BY <1>9 DEF ProcessRestart, ConfigsKept, Begun, ConfigsValidated
  <2>2. /\ \A k \in Jobs : k # j /\ bpc[k] = "none" => bpc'[k] = "none"
        /\ bcfg' = [bcfg EXCEPT ![j] = persisted]
        /\ currentConfig' = None /\ UNCHANGED <<persisted, validated>>
    BY <1>9 DEF ProcessRestart, Kept
  <2> QED
    BY <2>1, <2>2 DEF ConfigsValidated, TypeJobs
<1>10. ASSUME NEW j \in Jobs, Begin(j) PROVE ConfigsValidated'
  <2>1. bcfg[j] \in validated
    BY <1>10 DEF Begin, ConfigsValidated
  <2>2. /\ currentConfig' = bcfg[j] /\ persisted' = bcfg[j]
        /\ UNCHANGED <<validated, bcfg>>
        /\ \A k \in Jobs : bpc[k] = "none" => bpc'[k] = "none"
    BY <1>10 DEF Begin, Kept, To, TypeJobs
  <2> QED
    BY <2>1, <2>2 DEF ConfigsValidated
<1> QED
  BY <1>1, <1>2, <1>3, <1>4, <1>5, <1>6, <1>7, <1>8, <1>9, <1>10
     DEF Next, ApplyStep, BringUpStep, StopStep, RecoveryStep, WatchdogStep,
     Traffic, TunReadFails, ConfigsValidated

\* Validate before up: no bring-up, of a start command or of a restarted
\* process, ever runs on a config whose pre-flight did not pass, provided the
\* Keystore gives back the password it was given.
THEOREM ValidateBeforeUp ==
  ASSUME KeystoreFails = FALSE
  PROVE  Spec => []ValidatedOnly
<1>1. Init => ConfigsValidated
  BY DEF Init, ConfigsValidated
<1>2. ConfigsValidated => ValidatedOnly
  BY DEF ConfigsValidated, ValidatedOnly
<1>3. IInv /\ ConfigsValidated /\ [Next]_vars => ConfigsValidated'
  BY ValidatedStep
<1> QED
  BY <1>1, <1>2, <1>3, AlwaysIInv, PTL DEF Spec

-----------------------------------------------------------------------------
(***************************************************************************)
(* Refinement of FailClosed.                                               *)
(***************************************************************************)

\* A watchdog's failures are counted one at a time, or from zero.
LEMMA CountStep == IInv /\ [Next]_vars => FC!Count
<1> SUFFICES ASSUME IInv, [Next]_vars PROVE FC!Count
  OBVIOUS
<1> USE DEF IInv, TypeOK, TypeWatchdogs
<1>1. ASSUME ApplyFail \/ ApplyPass \/ ApplyReturn \/ StopTap \/ DispatchDrops
      PROVE  UNCHANGED tries
  BY <1>1 DEF ApplyFail, osVars, recVars, ApplyPass, ApplyReturn, StopTap, DispatchDrops
<1>2. ASSUME NEW j \in Jobs,
             \/ DispatchConnect(j) \/ Enter(j) \/ Begin(j) \/ Establish(j)
             \/ PlumbEngine(j) \/ MakeWatchdog(j) \/ RouteUp(j) \/ RouterUp(j) \/ CheckEngine(j)
             \/ Probe(j) \/ GoUp(j) \/ PublishConnected(j) \/ FailDrop(j)
             \/ FailTeardown(j) \/ PublishError(j) \/ Finish(j) \/ EngineDies(j)
             \/ EngineLost(j)
      PROVE  UNCHANGED tries
  BY <1>2 DEF DispatchConnect, osVars, recVars, Enter, uiVars, Begin, Establish,
     PlumbEngine, MakeWatchdog, RouteUp, RouterUp, CheckEngine, Probe, GoUp, PublishConnected,
     FailDrop, FailTeardown, PublishError, Finish, EngineDies, EngineLost
<1>3. ASSUME NEW s \in StopJobs,
             \/ DispatchStop(s) \/ StopDrop(s) \/ StopTeardown(s) \/ StopPublish(s)
             \/ Revoke(s)
      PROVE  UNCHANGED tries
  BY <1>3 DEF DispatchStop, osVars, recVars, StopDrop, uiVars, StopTeardown, StopPublish,
     Revoke
<1>4. ASSUME NEW j \in Jobs,
             \/ RecoveryTry(j) \/ RecoveryDelay(j) \/ ReconnectRouter(j) \/ RecoveryPublish(j)
             \/ GiveUpDrop(j) \/ GiveUpTeardown(j) \/ GiveUpPublish(j)
             \/ RecoveryEnd(j)
      PROVE  UNCHANGED tries
  BY <1>4 DEF RecoveryTry, RecoveryTo, osVars, uiVars, RecoveryDelay, ReconnectRouter, RecoveryPublish,
     GiveUpDrop, GiveUpTeardown, GiveUpPublish, RecoveryEnd, recVars
<1>5. ASSUME (\E p \in Proxies : ApplyStart(p)) \/ Traffic \/ TunReadFails
      PROVE  UNCHANGED tries
  BY <1>5 DEF ApplyStart, osVars, recVars, PumpFault, uiVars, PumpTunLost, Traffic,
     TunReadFails
<1>6. CASE UNCHANGED vars
  BY <1>6 DEF vars, FC!Count
<1>7. ASSUME NEW j \in Jobs, ProcessRestart(j) PROVE FC!Count
  BY <1>7 DEF ProcessRestart, FC!Count
<1>8. ASSUME NEW j \in Jobs, Observe(j) PROVE FC!Count
  BY <1>8 DEF Observe, FC!Count, ReportFault, recVars
<1>9. ASSUME NEW j \in Jobs, PumpReport(j) PROVE FC!Count
  <2>1. tries' = tries \/ tries' = [tries EXCEPT ![j] = 0]
    BY <1>9 DEF PumpReport, ReportFault, recVars
  <2> QED
    BY <2>1 DEF FC!Count
<1>10. ASSUME NEW j \in Jobs, ReconnectEngine(j) PROVE FC!Count
  BY <1>10 DEF ReconnectEngine, FC!Count, Failed, RecoveryTo
<1>11. ASSUME NEW j \in Jobs, ReconnectRoute(j) PROVE FC!Count
  BY <1>11 DEF ReconnectRoute, FC!Count, Failed, RecoveryTo
<1>12. ASSUME NEW j \in Jobs, ReconnectResult(j) PROVE FC!Count
  BY <1>12 DEF ReconnectResult, FC!Count, Failed, RecoveryTo
<1> QED
  BY <1>1, <1>2, <1>3, <1>4, <1>5, <1>6, <1>7, <1>8, <1>9, <1>10, <1>11, <1>12
     DEF Next, ApplyStep, BringUpStep, StopStep, RecoveryStep, WatchdogStep,
     Traffic, TunReadFails, FC!Count

\* A step that leaves the OS's tun alone leaves the phase alone, or cuts or
\* resumes the bridge.
LEMMA SameTun == osTun' = osTun => FC!Cut \/ FC!Resume \/ Phase' = Phase
  BY DEF Phase, FC!Cut, FC!Resume

\* The bounds on OS events never grow, and only a revocation or the death of
\* the process uses them; every other step that changes the OS's tun is a
\* bring-up establishing its own or a teardown letting go of it.
LEMMA TunChange ==
  IInv /\ [Next]_vars =>
     /\ budget'.revokes + budget'.kills =< budget.revokes + budget.kills
     /\ \/ osTun' = osTun
        \/ FC!Taken
        \/ \E j \in Jobs : Establish(j) /\ osTun' = j
        \/ osTun' = None /\ (FC!Exhausted \/ Requested)
<1> SUFFICES ASSUME IInv, [Next]_vars
             PROVE  /\ budget'.revokes + budget'.kills =< budget.revokes + budget.kills
                    /\ \/ osTun' = osTun
                       \/ FC!Taken
                       \/ \E j \in Jobs : Establish(j) /\ osTun' = j
                       \/ osTun' = None /\ (FC!Exhausted \/ Requested)
  OBVIOUS
<1> USE DEF IInv, TypeOK, TypeWorld
<1> DEFINE Goal == /\ budget'.revokes + budget'.kills =< budget.revokes + budget.kills
                   /\ \/ osTun' = osTun
                      \/ FC!Taken
                      \/ \E j \in Jobs : Establish(j) /\ osTun' = j
                      \/ osTun' = None /\ (FC!Exhausted \/ Requested)
<1>1. ASSUME ApplyFail \/ ApplyPass \/ ApplyReturn \/ StopTap \/ DispatchDrops
      PROVE  UNCHANGED <<osTun, budget>>
  BY <1>1 DEF ApplyFail, osVars, recVars, ApplyPass, ApplyReturn, StopTap, DispatchDrops
<1>2. ASSUME NEW j \in Jobs,
             \/ DispatchConnect(j) \/ Enter(j) \/ Begin(j) \/ PlumbEngine(j)
             \/ MakeWatchdog(j) \/ RouteUp(j) \/ RouterUp(j) \/ CheckEngine(j) \/ Probe(j) \/ GoUp(j)
             \/ PublishConnected(j) \/ FailDrop(j) \/ PublishError(j) \/ Finish(j)
             \/ EngineLost(j)
      PROVE  UNCHANGED <<osTun, budget>>
  BY <1>2 DEF DispatchConnect, osVars, recVars, Enter, uiVars, Begin, PlumbEngine,
     MakeWatchdog, RouteUp, RouterUp, CheckEngine, Probe, GoUp, PublishConnected, FailDrop,
     PublishError, Finish, EngineLost
<1>3. ASSUME NEW s \in StopJobs,
             DispatchStop(s) \/ StopDrop(s) \/ StopPublish(s)
      PROVE  UNCHANGED <<osTun, budget>>
  BY <1>3 DEF DispatchStop, osVars, recVars, StopDrop, uiVars, StopPublish
<1>4. ASSUME NEW j \in Jobs,
             \/ Observe(j) \/ PumpReport(j) \/ RecoveryTry(j) \/ RecoveryDelay(j)
             \/ ReconnectEngine(j) \/ ReconnectRoute(j) \/ ReconnectRouter(j) \/ ReconnectResult(j)
             \/ RecoveryPublish(j) \/ GiveUpDrop(j) \/ GiveUpPublish(j)
             \/ RecoveryEnd(j)
      PROVE  UNCHANGED <<osTun, budget>>
  BY <1>4 DEF Observe, osVars, recVars, uiVars, PumpReport, RecoveryTry, RecoveryDelay,
     ReconnectEngine, ReconnectRoute, ReconnectRouter, ReconnectResult, RecoveryPublish, GiveUpDrop,
     GiveUpPublish, RecoveryEnd
<1>5. ASSUME (\E p \in Proxies : ApplyStart(p)) \/ Traffic \/ TunReadFails
      PROVE  UNCHANGED <<osTun, budget>>
  BY <1>5 DEF ApplyStart, osVars, recVars, PumpFault, uiVars, PumpTunLost, Traffic,
     TunReadFails
<1>6. CASE UNCHANGED vars
  BY <1>6 DEF vars
<1>7. ASSUME NEW j \in Jobs, ProcessRestart(j) PROVE Goal
  BY <1>7 DEF ProcessRestart, FC!Taken, Phase
<1>8. ASSUME NEW j \in Jobs, Establish(j) PROVE Goal
  BY <1>8 DEF Establish, osVars
<1>9. ASSUME NEW j \in Jobs, FailTeardown(j) PROVE Goal
  BY <1>9 DEF FailTeardown, TeardownLocked, Requested
<1>10. ASSUME NEW j \in Jobs, GiveUpTeardown(j) PROVE Goal
  BY <1>10 DEF GiveUpTeardown, TeardownLocked, GiveUpsExhausted, FC!Exhausted
<1>11. ASSUME NEW j \in Jobs, EngineDies(j) PROVE Goal
  BY <1>11 DEF EngineDies, osVars
<1>12. ASSUME NEW s \in StopJobs, StopTeardown(s) PROVE Goal
  BY <1>12 DEF StopTeardown, TeardownLocked, Requested
<1>13. ASSUME NEW s \in StopJobs, Revoke(s) PROVE Goal
  BY <1>13 DEF Revoke, FC!Taken, Phase
<1> QED
  BY <1>1, <1>2, <1>3, <1>4, <1>5, <1>6, <1>7, <1>8, <1>9, <1>10, <1>11, <1>12,
     <1>13
     DEF Next, ApplyStep, BringUpStep, StopStep, RecoveryStep, WatchdogStep,
     Traffic, TunReadFails

\* Every step of the lifecycle is a step of FailClosed or a stutter.
LEMMA StepFailClosed == IInv /\ [Next]_vars => [FC!Next]_FC!vars
<1> SUFFICES ASSUME IInv, [Next]_vars PROVE FC!Next
  BY DEF FC!Next
<1>1. FC!Count /\ Requested' \in BOOLEAN
  BY CountStep DEF Requested
<1>2. FC!Hold \/ FC!Resume \/ FC!Cut \/ FC!Release \/ FC!Taken \/ Phase' = Phase
  <2>1. CASE osTun' = osTun
    BY <2>1, SameTun
  <2>2. CASE \E j \in Jobs : Establish(j) /\ osTun' = j
    <3>1. PICK j \in Jobs : Establish(j) /\ osTun' = j
      BY <2>2
    <3>2. \A r \in pumps' : r.tun # j
      BY <3>1 DEF Establish, IInv, TunsFresh
    <3>3. Phase' = "Blocked"
      BY <3>1, <3>2, JobsAssumption DEF Phase, Bridged
    <3> QED
      BY <3>3 DEF Phase, FC!Hold, FC!Cut
  <2>3. CASE osTun' = None /\ (FC!Exhausted \/ Requested)
    BY <2>3 DEF Phase, FC!Release
  <2> QED
    BY <2>1, <2>2, <2>3, TunChange
<1> QED
  BY <1>1, <1>2, TunChange DEF FC!Next

\* The lifecycle implements the fail-closed promise, for every number of
\* sessions, stops, attempts and faults, guarded or not: an engine loss only
\* ever blocks the device's traffic, and the routes are let go only on
\* request, after a watchdog's last attempt, or by the OS.
THEOREM FailsClosed == Spec => RefinesFailClosed
<1>1. Init => FC!Init
  BY BoundsAssumption DEF Init, FC!Init, Phase, Requested
<1> QED
  BY <1>1, AlwaysIInv, StepFailClosed, PTL DEF Spec, RefinesFailClosed, FC!Spec

-----------------------------------------------------------------------------
(***************************************************************************)
(* Sessions that do not overlap.  While Apart holds every step preserves   *)
(* SessionInv, from which the two properties of a service at rest follow.  *)
(***************************************************************************)

\* The locked part of teardown takes everything the fields hold.
LEMMA TeardownFacts ==
  ASSUME TypeOK, OneWatchdog, Held, EngineHeld, TeardownLocked
  PROVE  /\ svc'.tun = None /\ svc'.engine = None /\ svc'.watchdog = None
         /\ openTuns' = {} /\ osTun' = None
         /\ pumps' \subseteq pumps /\ (~Assigning => pumps' = {})
         /\ \A e \in Jobs : eng'[e].pair = NoPair
         /\ \A w \in Jobs : ~wd'[w].observing /\ wd'[w].reconnecting = wd[w].reconnecting
<1>1. /\ svc \in SvcRec /\ wd \in [Jobs -> WatchdogRec] /\ eng \in [Jobs -> EngineRec]
      /\ openTuns \subseteq Jobs
  BY DEF TypeOK, TypeSvc, TypeWatchdogs, TypeWorld
<1>2. svc.watchdog \in Jobs \cup {None} /\ svc.engine \in Jobs \cup {None}
  BY <1>1 DEF SvcRec
<1>3. svc'.tun = None /\ svc'.engine = None /\ svc'.watchdog = None
  BY DEF TeardownLocked, NoSvc
<1>4. /\ openTuns' = {} /\ osTun' = None
      /\ pumps' \subseteq pumps /\ (~Assigning => pumps' = {})
  BY <1>1, JobsAssumption DEF TeardownLocked, Held
<1>5. ASSUME NEW e \in Jobs PROVE eng'[e].pair = NoPair
  <2>1. CASE e = svc.engine
    BY <2>1, <1>1, JobsAssumption DEF TeardownLocked, NoEng
  <2>2. CASE e # svc.engine
    <3>1. eng'[e] = eng[e]
      BY <2>2, <1>1, <1>2 DEF TeardownLocked
    <3> QED
      BY <2>2, <3>1 DEF EngineHeld
  <2> QED
    BY <2>1, <2>2
<1>6. ASSUME NEW w \in Jobs PROVE ~wd'[w].observing /\ wd'[w].reconnecting = wd[w].reconnecting
  <2>1. CASE w = svc.watchdog
    <3>1. wd'[w] = [wd[w] EXCEPT !.observing = FALSE, !.cancelled = TRUE]
      BY <2>1, <1>1, JobsAssumption DEF TeardownLocked
    <3>2. wd[w] \in WatchdogRec
      BY <1>1
    <3> QED
      BY <3>1, <3>2 DEF WatchdogRec
  <2>2. CASE w # svc.watchdog
    <3>1. wd'[w] = wd[w]
      BY <2>2, <1>1, <1>2 DEF TeardownLocked
    <3> QED
      BY <2>2, <3>1 DEF OneWatchdog
  <2> QED
    BY <2>1, <2>2
<1> QED
  BY <1>3, <1>4, <1>5, <1>6

\* reportFault starts a recovery, not cancelled, of a watchdog that has none.
LEMMA FaultFacts ==
  ASSUME TypeWatchdogs, NEW w \in Jobs, NEW d \in [Jobs -> WatchdogRec], ReportFault(w, d),
         d[w].reconnecting = wd[w].reconnecting, rpc[w] # "none" => wd[w].reconnecting
  PROVE  /\ wd'[w].reconnecting /\ wd'[w].observing = d[w].observing
         /\ rpc'[w] # rpc[w] => rpc'[w] = "try" /\ rpc[w] = "none" /\ ~wd'[w].cancelled
         /\ rpc'[w] = rpc[w] => wd'[w].cancelled = d[w].cancelled
         /\ \A v \in Jobs : v # w => wd'[v] = d[v] /\ rpc'[v] = rpc[v]
<1>1. rpc \in [Jobs -> RecoveryPcs]
  BY DEF TypeWatchdogs
<1>2. CASE d[w].reconnecting
  BY <1>2 DEF ReportFault, recVars
<1>3. CASE ~d[w].reconnecting
  <2> DEFINE reported == [d[w] EXCEPT !.reconnecting = TRUE, !.cancelled = FALSE]
  <2>1. wd' = [d EXCEPT ![w] = reported] /\ rpc' = [rpc EXCEPT ![w] = "try"]
    BY <1>3 DEF ReportFault
  <2>2. d[w] \in WatchdogRec
    OBVIOUS
  <2>3. reported.reconnecting /\ reported.observing = d[w].observing /\ ~reported.cancelled
    BY <2>2 DEF WatchdogRec
  <2> HIDE DEF reported
  <2>4. wd'[w] = reported /\ \A v \in Jobs : v # w => wd'[v] = d[v]
    BY <2>1
  <2>5. rpc'[w] = "try" /\ \A v \in Jobs : v # w => rpc'[v] = rpc[v]
    BY <1>1, <2>1
  <2>6. rpc[w] = "none"
    BY <1>3
  <2> QED
    BY <2>3, <2>4, <2>5, <2>6
<1> QED
  BY <1>2, <1>3

\* While sessions do not overlap every step preserves SessionInv.
LEMMA StepSessionInv == IInv /\ SessionInv /\ Apart /\ Apart' /\ [Next]_vars => SessionInv'
<1> SUFFICES ASSUME IInv, SessionInv, Apart, Apart', [Next]_vars PROVE SessionInv'
  OBVIOUS
<1>0. /\ OpeningAlone /\ TornDown /\ StageHonest /\ OneWatchdog
      /\ Held /\ EngineHeld /\ Carried /\ ConnectedKept
      /\ Apart /\ Apart' /\ TypeOK /\ WatchdogsBuilt /\ TunsFresh
      /\ bpc \in [Jobs -> BringUpPcs] /\ spc \in [StopJobs -> StopPcs]
      /\ rpc \in [Jobs -> RecoveryPcs] /\ wd \in [Jobs -> WatchdogRec]
      /\ svc \in SvcRec /\ eng \in [Jobs -> EngineRec] /\ pending \subseteq Jobs
      /\ pumps \subseteq Routers /\ openTuns \subseteq Jobs /\ pairs \in Nat
      /\ osTun \in Jobs \cup {None} /\ made \in [Starters -> Routers \cup {None}]
      /\ None \notin Jobs
  BY JobsAssumption DEF SessionInv, IInv, TypeOK, TypeSvc, TypeJobs, TypeWatchdogs, TypeWorld
<1>1. ASSUME NEW p \in Proxies, ApplyStart(p) PROVE SessionInv'
  <2> USE <1>1 DEF ApplyStart, recVars, uiVars, osVars
  <2>a1. stage' = "VALIDATING" /\ apply'.pc = "validate"
         /\ UNCHANGED <<connected, svc, bpc, spc, wd, rpc, eng, pending, pumps, openTuns, osTun, made>>
    OBVIOUS
  <2>a2. \A j \in Jobs : bpc[j] # "establish"
    BY <1>0, <2>a1 DEF Apart
  <2> HIDE <1>1 DEF ApplyStart, recVars, uiVars, osVars
  <2>1. OpeningAlone'
    BY <1>0, <2>a1, <2>a2 DEF OpeningAlone, Opening
  <2>2. TornDown'
    BY <1>0, <2>a1, <2>a2 DEF TornDown
  <2>3. StageHonest'
    BY <1>0, <2>a1, <2>a2 DEF StageHonest
  <2>4. OneWatchdog'
    BY <1>0, <2>a1, <2>a2 DEF OneWatchdog, Watching
  <2>5. Held'
    BY <1>0, <2>a1, <2>a2 DEF Held, Assigning
  <2>6. EngineHeld'
    BY <1>0, <2>a1, <2>a2 DEF EngineHeld
  <2>7. Carried'
    BY <1>0, <2>a1, <2>a2 DEF Carried, OnTun, Settled
  <2>8. ConnectedKept'
    BY <1>0, <2>a1, <2>a2 DEF ConnectedKept
  <2> QED
    BY <2>1, <2>2, <2>3, <2>4, <2>5, <2>6, <2>7, <2>8 DEF SessionInv
<1>2. ASSUME ApplyFail PROVE SessionInv'
  <2> USE <1>2 DEF ApplyFail, recVars, uiVars, osVars
  <2>a1. stage' = "IDLE" /\ UNCHANGED <<connected, svc, bpc, spc, wd, rpc, eng, pending, pumps, openTuns, osTun, made>>
    OBVIOUS
  <2>a2. svc.tun = None /\ \A j \in Jobs : bpc[j] # "establish"
    BY <1>0 DEF Apart, Asked, Rested
  <2> HIDE <1>2 DEF ApplyFail, recVars, uiVars, osVars
  <2>1. OpeningAlone'
    BY <1>0, <2>a1, <2>a2 DEF OpeningAlone, Opening
  <2>2. TornDown'
    BY <1>0, <2>a1, <2>a2 DEF TornDown
  <2>3. StageHonest'
    BY <1>0, <2>a1, <2>a2 DEF StageHonest
  <2>4. OneWatchdog'
    BY <1>0, <2>a1, <2>a2 DEF OneWatchdog, Watching
  <2>5. Held'
    BY <1>0, <2>a1, <2>a2 DEF Held, Assigning
  <2>6. EngineHeld'
    BY <1>0, <2>a1, <2>a2 DEF EngineHeld
  <2>7. Carried'
    BY <1>0, <2>a1, <2>a2 DEF Carried, OnTun, Settled
  <2>8. ConnectedKept'
    BY <1>0, <2>a1, <2>a2 DEF ConnectedKept
  <2> QED
    BY <2>1, <2>2, <2>3, <2>4, <2>5, <2>6, <2>7, <2>8 DEF SessionInv
<1>3. ASSUME ApplyPass PROVE SessionInv'
  <2> USE <1>3 DEF ApplyPass, recVars, uiVars, osVars
  <2>a1. stage' = "CONNECTING"
         /\ UNCHANGED <<connected, svc, bpc, spc, wd, rpc, eng, pending, pumps, openTuns, osTun, made>>
    OBVIOUS
  <2> HIDE <1>3 DEF ApplyPass, recVars, uiVars, osVars
  <2>1. OpeningAlone'
    BY <1>0, <2>a1 DEF OpeningAlone, Opening
  <2>2. TornDown'
    BY <1>0, <2>a1 DEF TornDown
  <2>3. StageHonest'
    BY <1>0, <2>a1 DEF StageHonest
  <2>4. OneWatchdog'
    BY <1>0, <2>a1 DEF OneWatchdog, Watching
  <2>5. Held'
    BY <1>0, <2>a1 DEF Held, Assigning
  <2>6. EngineHeld'
    BY <1>0, <2>a1 DEF EngineHeld
  <2>7. Carried'
    BY <1>0, <2>a1 DEF Carried, OnTun, Settled
  <2>8. ConnectedKept'
    BY <1>0, <2>a1 DEF ConnectedKept
  <2> QED
    BY <2>1, <2>2, <2>3, <2>4, <2>5, <2>6, <2>7, <2>8 DEF SessionInv
<1>4. ASSUME ApplyReturn PROVE SessionInv'
  <2> USE <1>4 DEF ApplyReturn, recVars, uiVars, osVars
  <2>a1. UNCHANGED <<stage, connected, svc, bpc, spc, wd, rpc, eng, pending, pumps, openTuns, osTun, made>>
    OBVIOUS
  <2> HIDE <1>4 DEF ApplyReturn, recVars, uiVars, osVars
  <2>1. OpeningAlone'
    BY <1>0, <2>a1 DEF OpeningAlone, Opening
  <2>2. TornDown'
    BY <1>0, <2>a1 DEF TornDown
  <2>3. StageHonest'
    BY <1>0, <2>a1 DEF StageHonest
  <2>4. OneWatchdog'
    BY <1>0, <2>a1 DEF OneWatchdog, Watching
  <2>5. Held'
    BY <1>0, <2>a1 DEF Held, Assigning
  <2>6. EngineHeld'
    BY <1>0, <2>a1 DEF EngineHeld
  <2>7. Carried'
    BY <1>0, <2>a1 DEF Carried, OnTun, Settled
  <2>8. ConnectedKept'
    BY <1>0, <2>a1 DEF ConnectedKept
  <2> QED
    BY <2>1, <2>2, <2>3, <2>4, <2>5, <2>6, <2>7, <2>8 DEF SessionInv
<1>5. ASSUME StopTap PROVE SessionInv'
  <2> USE <1>5 DEF StopTap, recVars, uiVars, osVars
  <2>a1. UNCHANGED <<stage, connected, svc, bpc, spc, wd, rpc, eng, pending, pumps, openTuns, osTun, made>>
    OBVIOUS
  <2> HIDE <1>5 DEF StopTap, recVars, uiVars, osVars
  <2>1. OpeningAlone'
    BY <1>0, <2>a1 DEF OpeningAlone, Opening
  <2>2. TornDown'
    BY <1>0, <2>a1 DEF TornDown
  <2>3. StageHonest'
    BY <1>0, <2>a1 DEF StageHonest
  <2>4. OneWatchdog'
    BY <1>0, <2>a1 DEF OneWatchdog, Watching
  <2>5. Held'
    BY <1>0, <2>a1 DEF Held, Assigning
  <2>6. EngineHeld'
    BY <1>0, <2>a1 DEF EngineHeld
  <2>7. Carried'
    BY <1>0, <2>a1 DEF Carried, OnTun, Settled
  <2>8. ConnectedKept'
    BY <1>0, <2>a1 DEF ConnectedKept
  <2> QED
    BY <2>1, <2>2, <2>3, <2>4, <2>5, <2>6, <2>7, <2>8 DEF SessionInv
<1>6. ASSUME NEW j \in Jobs, DispatchConnect(j) PROVE SessionInv'
  <2> USE <1>6 DEF DispatchConnect, Launch, recVars, uiVars, osVars
  <2>a1. UNCHANGED <<stage, connected, svc, spc, wd, rpc, eng, pending, pumps, openTuns, osTun, made>>
    OBVIOUS
  <2>a2. bpc[j] = "none"
    OBVIOUS
  <2>a3. bpc'[j] = "enter" /\ \A k \in Jobs : k # j => bpc'[k] = bpc[k]
    BY <1>0
  <2> HIDE <1>6 DEF DispatchConnect, Launch, recVars, uiVars, osVars
  <2>1. OpeningAlone'
    BY <1>0, <2>a1, <2>a2, <2>a3 DEF OpeningAlone, Opening
  <2>2. TornDown'
    BY <1>0, <2>a1, <2>a2, <2>a3 DEF TornDown
  <2>3. StageHonest'
    BY <1>0, <2>a1, <2>a2, <2>a3 DEF StageHonest
  <2>4. OneWatchdog'
    BY <1>0, <2>a1, <2>a2, <2>a3 DEF OneWatchdog, Watching
  <2>5. Held'
    BY <1>0, <2>a1, <2>a2, <2>a3 DEF Held, Assigning
  <2>6. EngineHeld'
    BY <1>0, <2>a1, <2>a2, <2>a3 DEF EngineHeld
  <2>7. Carried'
    BY <1>0, <2>a1, <2>a2, <2>a3 DEF Carried, OnTun, Settled, TunsFresh
  <2>8. ConnectedKept'
    BY <1>0, <2>a1, <2>a2, <2>a3 DEF ConnectedKept, TunsFresh
  <2> QED
    BY <2>1, <2>2, <2>3, <2>4, <2>5, <2>6, <2>7, <2>8 DEF SessionInv
<1>7. ASSUME NEW s \in StopJobs, DispatchStop(s) PROVE SessionInv'
  <2> USE <1>7 DEF DispatchStop, recVars, uiVars, osVars
  <2>a1. UNCHANGED <<stage, connected, svc, bpc, wd, rpc, eng, pending, pumps, openTuns, osTun, made>>
    OBVIOUS
  <2>a2. spc[s] = "none"
    OBVIOUS
  <2>a3. spc'[s] = "drop" /\ \A t \in StopJobs : t # s => spc'[t] = spc[t]
    BY <1>0
  <2> HIDE <1>7 DEF DispatchStop, recVars, uiVars, osVars
  <2>1. OpeningAlone'
    BY <1>0, <2>a1, <2>a2, <2>a3 DEF OpeningAlone, Opening
  <2>2. TornDown'
    BY <1>0, <2>a1, <2>a2, <2>a3 DEF TornDown
  <2>3. StageHonest'
    BY <1>0, <2>a1, <2>a2, <2>a3 DEF StageHonest
  <2>4. OneWatchdog'
    BY <1>0, <2>a1, <2>a2, <2>a3 DEF OneWatchdog, Watching
  <2>5. Held'
    BY <1>0, <2>a1, <2>a2, <2>a3 DEF Held, Assigning
  <2>6. EngineHeld'
    BY <1>0, <2>a1, <2>a2, <2>a3 DEF EngineHeld
  <2>7. Carried'
    BY <1>0, <2>a1, <2>a2, <2>a3 DEF Carried, OnTun, Settled
  <2>8. ConnectedKept'
    BY <1>0, <2>a1, <2>a2, <2>a3 DEF ConnectedKept
  <2> QED
    BY <2>1, <2>2, <2>3, <2>4, <2>5, <2>6, <2>7, <2>8 DEF SessionInv
<1>8. ASSUME NEW j \in Jobs, ProcessRestart(j) PROVE SessionInv'
  <2> USE <1>8 DEF ProcessRestart, recVars, uiVars, osVars
  <2>a1. /\ svc'.tun = None /\ svc'.engine = None /\ svc'.watchdog = None
         /\ pumps' = {} /\ openTuns' = {} /\ osTun' = None /\ pending' = {} /\ connected' = FALSE
    BY DEF NoSvc
  <2>a2. \A k \in Jobs : bpc'[k] \in {"none", "enter", "done"}
    OBVIOUS
  <2>a3. \A s \in StopJobs : spc'[s] \in {"none", "done"}
    OBVIOUS
  <2>a4. \A w \in Jobs : rpc'[w] = "none" /\ ~wd'[w].observing
    BY DEF NoWd
  <2>a5. \A e \in Jobs : eng'[e].pair = NoPair
    BY DEF NoEng
  <2> HIDE <1>8 DEF ProcessRestart, recVars, uiVars, osVars
  <2>1. OpeningAlone'
    BY <1>0, <2>a1, <2>a2, <2>a3, <2>a4, <2>a5 DEF OpeningAlone, Opening
  <2>2. TornDown'
    BY <1>0, <2>a1, <2>a2, <2>a3, <2>a4, <2>a5 DEF TornDown
  <2>3. StageHonest'
    BY <1>0, <2>a1, <2>a2, <2>a3, <2>a4, <2>a5 DEF StageHonest
  <2>4. OneWatchdog'
    BY <1>0, <2>a1, <2>a2, <2>a3, <2>a4, <2>a5 DEF OneWatchdog, Watching
  <2>5. Held'
    BY <1>0, <2>a1, <2>a2, <2>a3, <2>a4, <2>a5 DEF Held, Assigning
  <2>6. EngineHeld'
    BY <1>0, <2>a1, <2>a2, <2>a3, <2>a4, <2>a5 DEF EngineHeld
  <2>7. Carried'
    BY <1>0, <2>a1, <2>a2, <2>a3, <2>a4, <2>a5 DEF Carried, OnTun, Settled
  <2>8. ConnectedKept'
    BY <1>0, <2>a1, <2>a2, <2>a3, <2>a4, <2>a5 DEF ConnectedKept
  <2> QED
    BY <2>1, <2>2, <2>3, <2>4, <2>5, <2>6, <2>7, <2>8 DEF SessionInv
<1>9. ASSUME NEW s \in StopJobs, StopDrop(s) PROVE SessionInv'
  <2> USE <1>9 DEF StopDrop, DropConnected, recVars, uiVars, osVars
  <2>a1. UNCHANGED <<stage, svc, bpc, wd, rpc, eng, pending, pumps, openTuns, osTun, made>>
    OBVIOUS
  <2>a2. connected' = FALSE
    OBVIOUS
  <2>a3. spc[s] = "drop"
    OBVIOUS
  <2>a4. spc'[s] = "lock" /\ \A t \in StopJobs : t # s => spc'[t] = spc[t]
    BY <1>0
  <2> HIDE <1>9 DEF StopDrop, DropConnected, recVars, uiVars, osVars
  <2>1. OpeningAlone'
    BY <1>0, <2>a1, <2>a2, <2>a3, <2>a4 DEF OpeningAlone, Opening
  <2>2. TornDown'
    BY <1>0, <2>a1, <2>a2, <2>a3, <2>a4 DEF TornDown
  <2>3. StageHonest'
    BY <1>0, <2>a1, <2>a2, <2>a3, <2>a4 DEF StageHonest
  <2>4. OneWatchdog'
    BY <1>0, <2>a1, <2>a2, <2>a3, <2>a4 DEF OneWatchdog, Watching
  <2>5. Held'
    BY <1>0, <2>a1, <2>a2, <2>a3, <2>a4 DEF Held, Assigning
  <2>6. EngineHeld'
    BY <1>0, <2>a1, <2>a2, <2>a3, <2>a4 DEF EngineHeld
  <2>7. Carried'
    BY <1>0, <2>a1, <2>a2, <2>a3, <2>a4 DEF Carried, OnTun, Settled
  <2>8. ConnectedKept'
    BY <1>0, <2>a1, <2>a2, <2>a3, <2>a4 DEF ConnectedKept
  <2> QED
    BY <2>1, <2>2, <2>3, <2>4, <2>5, <2>6, <2>7, <2>8 DEF SessionInv
<1>10. ASSUME NEW s \in StopJobs, StopTeardown(s) PROVE SessionInv'
  <2> USE <1>10 DEF StopTeardown, recVars, uiVars, osVars
  <2>a1. UNCHANGED <<stage, connected, bpc, rpc, pending, made>>
    OBVIOUS
  <2>a2. /\ svc'.tun = None /\ svc'.engine = None /\ svc'.watchdog = None
         /\ openTuns' = {} /\ osTun' = None
         /\ pumps' \subseteq pumps /\ (~Assigning => pumps' = {})
         /\ \A e \in Jobs : eng'[e].pair = NoPair
         /\ \A v \in Jobs : ~wd'[v].observing /\ wd'[v].reconnecting = wd[v].reconnecting
    BY <1>0, TeardownFacts
  <2>a3. spc'[s] = "idle" /\ \A t \in StopJobs : t # s => spc'[t] = spc[t]
    BY <1>0
  <2> HIDE <1>10 DEF StopTeardown, recVars, uiVars, osVars
  <2>1. OpeningAlone'
    BY <1>0, <2>a1, <2>a2, <2>a3 DEF OpeningAlone, Opening
  <2>2. TornDown'
    BY <1>0, <2>a1, <2>a2, <2>a3 DEF TornDown
  <2>3. StageHonest'
    BY <1>0, <2>a1, <2>a2, <2>a3 DEF StageHonest
  <2>4. OneWatchdog'
    BY <1>0, <2>a1, <2>a2, <2>a3 DEF OneWatchdog, Watching
  <2>5. Held'
    BY <1>0, <2>a1, <2>a2, <2>a3 DEF Held, Assigning
  <2>6. EngineHeld'
    BY <1>0, <2>a1, <2>a2, <2>a3 DEF EngineHeld
  <2>7. Carried'
    BY <1>0, <2>a1, <2>a2, <2>a3 DEF Carried, OnTun, Settled
  <2>8. ConnectedKept'
    BY <1>0, <2>a1, <2>a2, <2>a3 DEF ConnectedKept
  <2> QED
    BY <2>1, <2>2, <2>3, <2>4, <2>5, <2>6, <2>7, <2>8 DEF SessionInv
<1>11. ASSUME NEW s \in StopJobs, StopPublish(s) PROVE SessionInv'
  <2> USE <1>11 DEF StopPublish, recVars, uiVars, osVars
  <2>a1. UNCHANGED <<connected, svc, bpc, wd, rpc, eng, pending, pumps, openTuns, osTun, made>>
    OBVIOUS
  <2>a2. stage' = "IDLE" /\ spc[s] = "idle"
    OBVIOUS
  <2>a3. spc'[s] = "done" /\ \A t \in StopJobs : t # s => spc'[t] = spc[t]
    BY <1>0
  <2>a4. \A j \in Jobs : bpc[j] # "establish"
    BY <1>0, <2>a2 DEF Apart, Asked, Rested, Starting
  <2>a5. svc.tun = None
    BY <1>0, <2>a2 DEF TornDown
  <2> HIDE <1>11 DEF StopPublish, recVars, uiVars, osVars
  <2>1. OpeningAlone'
    BY <1>0, <2>a1, <2>a2, <2>a3, <2>a4, <2>a5 DEF OpeningAlone, Opening
  <2>2. TornDown'
    BY <1>0, <2>a1, <2>a2, <2>a3, <2>a4, <2>a5 DEF TornDown
  <2>3. StageHonest'
    BY <1>0, <2>a1, <2>a2, <2>a3, <2>a4, <2>a5 DEF StageHonest
  <2>4. OneWatchdog'
    BY <1>0, <2>a1, <2>a2, <2>a3, <2>a4, <2>a5 DEF OneWatchdog, Watching
  <2>5. Held'
    BY <1>0, <2>a1, <2>a2, <2>a3, <2>a4, <2>a5 DEF Held, Assigning
  <2>6. EngineHeld'
    BY <1>0, <2>a1, <2>a2, <2>a3, <2>a4, <2>a5 DEF EngineHeld
  <2>7. Carried'
    BY <1>0, <2>a1, <2>a2, <2>a3, <2>a4, <2>a5 DEF Carried, OnTun, Settled
  <2>8. ConnectedKept'
    BY <1>0, <2>a1, <2>a2, <2>a3, <2>a4, <2>a5 DEF ConnectedKept
  <2> QED
    BY <2>1, <2>2, <2>3, <2>4, <2>5, <2>6, <2>7, <2>8 DEF SessionInv
<1>12. ASSUME NEW j \in Jobs, Enter(j) PROVE SessionInv'
  <2> USE <1>12 DEF Enter, To, recVars, uiVars, osVars
  <2>a1. UNCHANGED <<stage, connected, svc, spc, wd, rpc, eng, pending, pumps, openTuns, osTun, made>>
    OBVIOUS
  <2>a2. bpc[j] = "enter" /\ svc.tun # j
    BY <1>0 DEF TunsFresh
  <2>a3. bpc'[j] \in {"begin", "done"} /\ \A k \in Jobs : k # j => bpc'[k] = bpc[k]
    BY <1>0
  <2> HIDE <1>12 DEF Enter, To, recVars, uiVars, osVars
  <2>1. OpeningAlone'
    BY <1>0, <2>a1, <2>a2, <2>a3 DEF OpeningAlone, Opening
  <2>2. TornDown'
    BY <1>0, <2>a1, <2>a2, <2>a3 DEF TornDown
  <2>3. StageHonest'
    BY <1>0, <2>a1, <2>a2, <2>a3 DEF StageHonest
  <2>4. OneWatchdog'
    BY <1>0, <2>a1, <2>a2, <2>a3 DEF OneWatchdog, Watching
  <2>5. Held'
    BY <1>0, <2>a1, <2>a2, <2>a3 DEF Held, Assigning
  <2>6. EngineHeld'
    BY <1>0, <2>a1, <2>a2, <2>a3 DEF EngineHeld
  <2>7. Carried'
    BY <1>0, <2>a1, <2>a2, <2>a3 DEF Carried, OnTun, Settled
  <2>8. ConnectedKept'
    BY <1>0, <2>a1, <2>a2, <2>a3 DEF ConnectedKept
  <2> QED
    BY <2>1, <2>2, <2>3, <2>4, <2>5, <2>6, <2>7, <2>8 DEF SessionInv
<1>13. ASSUME NEW j \in Jobs, Begin(j) PROVE SessionInv'
  <2> USE <1>13 DEF Begin, To, recVars, uiVars, osVars
  <2>a1. UNCHANGED <<connected, svc, spc, wd, rpc, eng, pending, pumps, openTuns, osTun, made>>
    OBVIOUS
  <2>a2. stage' = "CONNECTING"
    OBVIOUS
  <2>a3. bpc[j] = "begin" /\ svc.tun # j
    BY <1>0 DEF TunsFresh
  <2>a4. bpc'[j] = "establish" /\ \A k \in Jobs : k # j => bpc'[k] = bpc[k]
    BY <1>0
  <2> HIDE <1>13 DEF Begin, To, recVars, uiVars, osVars
  <2>1. OpeningAlone'
    BY <1>0, <2>a1, <2>a2, <2>a3, <2>a4 DEF OpeningAlone, Opening
  <2>2. TornDown'
    BY <1>0, <2>a1, <2>a2, <2>a3, <2>a4 DEF TornDown
  <2>3. StageHonest'
    BY <1>0, <2>a1, <2>a2, <2>a3, <2>a4 DEF StageHonest
  <2>4. OneWatchdog'
    BY <1>0, <2>a1, <2>a2, <2>a3, <2>a4 DEF OneWatchdog, Watching
  <2>5. Held'
    BY <1>0, <2>a1, <2>a2, <2>a3, <2>a4 DEF Held, Assigning
  <2>6. EngineHeld'
    BY <1>0, <2>a1, <2>a2, <2>a3, <2>a4 DEF EngineHeld
  <2>7. Carried'
    BY <1>0, <2>a1, <2>a2, <2>a3, <2>a4 DEF Carried, OnTun, Settled
  <2>8. ConnectedKept'
    BY <1>0, <2>a1, <2>a2, <2>a3, <2>a4 DEF ConnectedKept
  <2> QED
    BY <2>1, <2>2, <2>3, <2>4, <2>5, <2>6, <2>7, <2>8 DEF SessionInv
<1>14. ASSUME NEW j \in Jobs, Establish(j), svc' = [svc EXCEPT !.tun = j],
            openTuns' = openTuns \cup {j}, To(j, "plumb") PROVE SessionInv'
  <2> USE <1>14 DEF Establish, To, recVars, uiVars, osVars
  <2>a1. UNCHANGED <<stage, connected, spc, wd, rpc, eng, pending, pumps>>
    OBVIOUS
  <2>a2. /\ stage = "CONNECTING" /\ svc.tun = None /\ ~connected /\ pending = {}
         /\ \A w \in Jobs : rpc[w] = "none" /\ ~wd[w].observing
         /\ \A s \in StopJobs : spc[s] \in {"none", "done"}
         /\ \A k \in Jobs : k # j => bpc[k] \in {"none", "done"}
         /\ pumps = {}
    <3>1. bpc[j] = "establish"
      OBVIOUS
    <3>2. Rested /\ \A k \in Jobs : k # j => bpc[k] \in {"none", "done"}
      BY <1>0, <3>1 DEF Apart, Asked, Starting
    <3> QED
      BY <1>0, <3>1, <3>2 DEF Rested, OneWatchdog, StageHonest
  <2>a3. bpc'[j] = "plumb" /\ \A k \in Jobs : k # j => bpc'[k] = bpc[k]
    BY <1>0
  <2>a4. svc'.tun = j /\ svc'.watchdog = svc.watchdog /\ svc'.engine = svc.engine /\ svc'.router = svc.router
    BY <1>0 DEF SvcRec
  <2>a5. openTuns' = {j} /\ osTun' = j
    BY <1>0, <2>a2 DEF Held
  <2> HIDE <1>14 DEF Establish, To, recVars, uiVars, osVars
  <2>1. OpeningAlone'
    BY <1>0, <2>a1, <2>a2, <2>a3, <2>a4, <2>a5 DEF OpeningAlone, Opening
  <2>2. TornDown'
    BY <1>0, <2>a1, <2>a2, <2>a3, <2>a4, <2>a5 DEF TornDown
  <2>3. StageHonest'
    BY <1>0, <2>a1, <2>a2, <2>a3, <2>a4, <2>a5 DEF StageHonest
  <2>4. OneWatchdog'
    BY <1>0, <2>a1, <2>a2, <2>a3, <2>a4, <2>a5 DEF OneWatchdog, Watching
  <2>5. Held'
    BY <1>0, <2>a1, <2>a2, <2>a3, <2>a4, <2>a5 DEF Held, Assigning
  <2>6. EngineHeld'
    BY <1>0, <2>a1, <2>a2, <2>a3, <2>a4, <2>a5 DEF EngineHeld
  <2>7. Carried'
    BY <1>0, <2>a1, <2>a2, <2>a3, <2>a4, <2>a5 DEF Carried, OnTun, Settled
  <2>8. ConnectedKept'
    BY <1>0, <2>a1, <2>a2, <2>a3, <2>a4, <2>a5 DEF ConnectedKept
  <2> QED
    BY <2>1, <2>2, <2>3, <2>4, <2>5, <2>6, <2>7, <2>8 DEF SessionInv
<1>15. ASSUME NEW j \in Jobs, Establish(j), UNCHANGED <<svc, osVars>>, To(j, "drop") PROVE SessionInv'
  <2> USE <1>15 DEF Establish, To, recVars, uiVars, osVars
  <2>a1. UNCHANGED <<stage, connected, svc, spc, wd, rpc, eng, pending, pumps, openTuns, osTun, made>>
    OBVIOUS
  <2>a2. /\ stage = "CONNECTING" /\ svc.tun = None /\ ~connected /\ pending = {}
         /\ \A w \in Jobs : rpc[w] = "none" /\ ~wd[w].observing
         /\ \A s \in StopJobs : spc[s] \in {"none", "done"}
         /\ \A k \in Jobs : k # j => bpc[k] \in {"none", "done"}
         /\ pumps = {}
    <3>1. bpc[j] = "establish"
      OBVIOUS
    <3>2. Rested /\ \A k \in Jobs : k # j => bpc[k] \in {"none", "done"}
      BY <1>0, <3>1 DEF Apart, Asked, Starting
    <3> QED
      BY <1>0, <3>1, <3>2 DEF Rested, OneWatchdog, StageHonest
  <2>a3. bpc'[j] = "drop" /\ \A k \in Jobs : k # j => bpc'[k] = bpc[k]
    BY <1>0
  <2> HIDE <1>15 DEF Establish, To, recVars, uiVars, osVars
  <2>1. OpeningAlone'
    BY <1>0, <2>a1, <2>a2, <2>a3 DEF OpeningAlone, Opening
  <2>2. TornDown'
    BY <1>0, <2>a1, <2>a2, <2>a3 DEF TornDown
  <2>3. StageHonest'
    BY <1>0, <2>a1, <2>a2, <2>a3 DEF StageHonest
  <2>4. OneWatchdog'
    BY <1>0, <2>a1, <2>a2, <2>a3 DEF OneWatchdog, Watching
  <2>5. Held'
    BY <1>0, <2>a1, <2>a2, <2>a3 DEF Held, Assigning
  <2>6. EngineHeld'
    BY <1>0, <2>a1, <2>a2, <2>a3 DEF EngineHeld
  <2>7. Carried'
    BY <1>0, <2>a1, <2>a2, <2>a3 DEF Carried, OnTun, Settled
  <2>8. ConnectedKept'
    BY <1>0, <2>a1, <2>a2, <2>a3 DEF ConnectedKept
  <2> QED
    BY <2>1, <2>2, <2>3, <2>4, <2>5, <2>6, <2>7, <2>8 DEF SessionInv
<1>16. ASSUME NEW j \in Jobs, PlumbEngine(j), NEW ok \in BOOLEAN,
            NEW e \in Jobs, e = IF svc.engine = None THEN j ELSE svc.engine,
            svc' = [svc EXCEPT !.routerEnd = pairs + 1, !.loopback = j, !.engine = e],
            StartRemote(e, pairs + 1, ok), To(j, IF ok THEN "watch" ELSE "drop") PROVE SessionInv'
  <2> USE <1>16 DEF PlumbEngine, To, StartRemote, recVars, uiVars, osVars
  <2>a1. UNCHANGED <<stage, connected, spc, wd, rpc, pending, pumps, openTuns, osTun, made>>
    OBVIOUS
  <2>a2. bpc[j] = "plumb" /\ pairs + 1 # NoPair /\ \A k \in Jobs : k # j => bpc[k] \in {"none", "done"}
    BY <1>0 DEF NoPair, Apart
  <2>a3. bpc'[j] \in {"watch", "drop"} /\ \A k \in Jobs : k # j => bpc'[k] = bpc[k]
    BY <1>0
  <2>a4. /\ svc'.tun = svc.tun /\ svc'.watchdog = svc.watchdog /\ svc'.router = svc.router
         /\ svc'.engine = e
    BY <1>0 DEF SvcRec
  <2>a5. /\ eng'[e].pair # NoPair => eng'[e].state = "Running"
         /\ \A d \in Jobs : d # e => eng'[d].pair = NoPair
    <3>1. \A d \in Jobs : d # e => eng'[d] = eng[d]
      BY <1>0
    <3>2. \A d \in Jobs : d # e => eng[d].pair = NoPair
      BY <1>0 DEF EngineHeld
    <3>3. eng'[e].pair # NoPair => eng'[e].state = "Running"
      BY <1>0 DEF NoEng
    <3> QED
      BY <3>1, <3>2, <3>3
  <2>a6. svc.tun \in {None, j} /\ pumps = {} /\ \A w \in Jobs : rpc[w] = "none"
    BY <1>0, <2>a2 DEF OpeningAlone, Opening, Held
  <2> HIDE <1>16 DEF PlumbEngine, To, StartRemote, recVars, uiVars, osVars
  <2>1. OpeningAlone'
    BY <1>0, <2>a1, <2>a2, <2>a3, <2>a4, <2>a5, <2>a6 DEF OpeningAlone, Opening
  <2>2. TornDown'
    BY <1>0, <2>a1, <2>a2, <2>a3, <2>a4, <2>a5, <2>a6 DEF TornDown
  <2>3. StageHonest'
    BY <1>0, <2>a1, <2>a2, <2>a3, <2>a4, <2>a5, <2>a6 DEF StageHonest
  <2>4. OneWatchdog'
    BY <1>0, <2>a1, <2>a2, <2>a3, <2>a4, <2>a5, <2>a6 DEF OneWatchdog, Watching
  <2>5. Held'
    BY <1>0, <2>a1, <2>a2, <2>a3, <2>a4, <2>a5, <2>a6 DEF Held, Assigning
  <2>6. EngineHeld'
    BY <1>0, <2>a1, <2>a2, <2>a3, <2>a4, <2>a5, <2>a6 DEF EngineHeld
  <2>7. Carried'
    BY <1>0, <2>a1, <2>a2, <2>a3, <2>a4, <2>a5, <2>a6 DEF Carried, OnTun, Settled
  <2>8. ConnectedKept'
    BY <1>0, <2>a1, <2>a2, <2>a3, <2>a4, <2>a5, <2>a6 DEF ConnectedKept
  <2> QED
    BY <2>1, <2>2, <2>3, <2>4, <2>5, <2>6, <2>7, <2>8 DEF SessionInv
<1>17. ASSUME NEW j \in Jobs, PlumbEngine(j), svc' = [svc EXCEPT !.routerEnd = pairs + 1],
            To(j, "drop"), UNCHANGED eng PROVE SessionInv'
  <2> USE <1>17 DEF PlumbEngine, To, recVars, uiVars, osVars
  <2>a1. UNCHANGED <<stage, connected, spc, wd, rpc, eng, pending, pumps, openTuns, osTun, made>>
    OBVIOUS
  <2>a2. bpc[j] = "plumb" /\ pairs + 1 # NoPair /\ \A k \in Jobs : k # j => bpc[k] \in {"none", "done"}
    BY <1>0 DEF NoPair, Apart
  <2>a3. bpc'[j] = "drop" /\ \A k \in Jobs : k # j => bpc'[k] = bpc[k]
    BY <1>0
  <2>a4. /\ svc'.tun = svc.tun /\ svc'.watchdog = svc.watchdog /\ svc'.router = svc.router
         /\ svc'.engine = svc.engine
    BY <1>0 DEF SvcRec
  <2>a5. svc.tun \in {None, j} /\ pumps = {} /\ \A w \in Jobs : rpc[w] = "none"
    BY <1>0, <2>a2 DEF OpeningAlone, Opening, Held
  <2> HIDE <1>17 DEF PlumbEngine, To, recVars, uiVars, osVars
  <2>1. OpeningAlone'
    BY <1>0, <2>a1, <2>a2, <2>a3, <2>a4, <2>a5 DEF OpeningAlone, Opening
  <2>2. TornDown'
    BY <1>0, <2>a1, <2>a2, <2>a3, <2>a4, <2>a5 DEF TornDown
  <2>3. StageHonest'
    BY <1>0, <2>a1, <2>a2, <2>a3, <2>a4, <2>a5 DEF StageHonest
  <2>4. OneWatchdog'
    BY <1>0, <2>a1, <2>a2, <2>a3, <2>a4, <2>a5 DEF OneWatchdog, Watching
  <2>5. Held'
    BY <1>0, <2>a1, <2>a2, <2>a3, <2>a4, <2>a5 DEF Held, Assigning
  <2>6. EngineHeld'
    BY <1>0, <2>a1, <2>a2, <2>a3, <2>a4, <2>a5 DEF EngineHeld
  <2>7. Carried'
    BY <1>0, <2>a1, <2>a2, <2>a3, <2>a4, <2>a5 DEF Carried, OnTun, Settled
  <2>8. ConnectedKept'
    BY <1>0, <2>a1, <2>a2, <2>a3, <2>a4, <2>a5 DEF ConnectedKept
  <2> QED
    BY <2>1, <2>2, <2>3, <2>4, <2>5, <2>6, <2>7, <2>8 DEF SessionInv
<1>18. ASSUME NEW j \in Jobs, MakeWatchdog(j), svc.engine = None PROVE SessionInv'
  <2> USE <1>18 DEF MakeWatchdog, To, recVars, uiVars, osVars
  <2>a1. UNCHANGED <<stage, connected, svc, spc, wd, rpc, eng, pending, pumps, openTuns, osTun, made>>
    OBVIOUS
  <2>a2. bpc[j] = "watch" /\ \A k \in Jobs : k # j => bpc[k] \in {"none", "done"}
    BY <1>0 DEF Apart
  <2>a3. bpc'[j] = "drop" /\ \A k \in Jobs : k # j => bpc'[k] = bpc[k]
    BY <1>0
  <2> HIDE <1>18 DEF MakeWatchdog, To, recVars, uiVars, osVars
  <2>1. OpeningAlone'
    BY <1>0, <2>a1, <2>a2, <2>a3 DEF OpeningAlone, Opening
  <2>2. TornDown'
    BY <1>0, <2>a1, <2>a2, <2>a3 DEF TornDown
  <2>3. StageHonest'
    BY <1>0, <2>a1, <2>a2, <2>a3 DEF StageHonest
  <2>4. OneWatchdog'
    BY <1>0, <2>a1, <2>a2, <2>a3 DEF OneWatchdog, Watching
  <2>5. Held'
    BY <1>0, <2>a1, <2>a2, <2>a3 DEF Held, Assigning
  <2>6. EngineHeld'
    BY <1>0, <2>a1, <2>a2, <2>a3 DEF EngineHeld
  <2>7. Carried'
    BY <1>0, <2>a1, <2>a2, <2>a3 DEF Carried, OnTun, Settled
  <2>8. ConnectedKept'
    BY <1>0, <2>a1, <2>a2, <2>a3 DEF ConnectedKept
  <2> QED
    BY <2>1, <2>2, <2>3, <2>4, <2>5, <2>6, <2>7, <2>8 DEF SessionInv
<1>19. ASSUME NEW j \in Jobs, MakeWatchdog(j), svc.engine # None PROVE SessionInv'
  <2> USE <1>19 DEF MakeWatchdog, To, recVars, uiVars, osVars
  <2>a1. UNCHANGED <<stage, connected, spc, rpc, eng, pending, pumps, openTuns, osTun, made>>
    OBVIOUS
  <2>a2. bpc[j] = "watch" /\ \A k \in Jobs : k # j => bpc[k] \in {"none", "done"}
    BY <1>0 DEF Apart
  <2>a3. bpc'[j] = "route" /\ \A k \in Jobs : k # j => bpc'[k] = bpc[k]
    BY <1>0
  <2>a4. /\ svc'.tun = svc.tun /\ svc'.watchdog = j /\ svc'.router = svc.router
         /\ svc'.engine = svc.engine /\ svc'.routerEnd = svc.routerEnd
    BY <1>0 DEF SvcRec
  <2>a5. svc.engine # None /\ svc.engine \in Jobs
    BY <1>0 DEF SvcRec
  <2>a6. ~wd'[j].observing /\ \A w \in Jobs : w # j => wd'[w] = wd[w]
    <3>1. [NoWd EXCEPT !.engine = svc.engine].observing = FALSE
      BY DEF NoWd
    <3> QED
      BY <1>0, <3>1
  <2>a7. ~connected /\ pending = {} /\ \A w \in Jobs : rpc[w] = "none" /\ ~wd[w].observing
    BY <1>0, <2>a2 DEF OpeningAlone, Opening
  <2> HIDE <1>19 DEF MakeWatchdog, To, recVars, uiVars, osVars
  <2>1. OpeningAlone'
    BY <1>0, <2>a1, <2>a2, <2>a3, <2>a4, <2>a5, <2>a6, <2>a7 DEF OpeningAlone, Opening
  <2>2. TornDown'
    BY <1>0, <2>a1, <2>a2, <2>a3, <2>a4, <2>a5, <2>a6, <2>a7 DEF TornDown
  <2>3. StageHonest'
    BY <1>0, <2>a1, <2>a2, <2>a3, <2>a4, <2>a5, <2>a6, <2>a7 DEF StageHonest
  <2>4. OneWatchdog'
    BY <1>0, <2>a1, <2>a2, <2>a3, <2>a4, <2>a5, <2>a6, <2>a7 DEF OneWatchdog, Watching
  <2>5. Held'
    BY <1>0, <2>a1, <2>a2, <2>a3, <2>a4, <2>a5, <2>a6, <2>a7 DEF Held, Assigning
  <2>6. EngineHeld'
    BY <1>0, <2>a1, <2>a2, <2>a3, <2>a4, <2>a5, <2>a6, <2>a7 DEF EngineHeld
  <2>7. Carried'
    BY <1>0, <2>a1, <2>a2, <2>a3, <2>a4, <2>a5, <2>a6, <2>a7 DEF Carried, OnTun, Settled
  <2>8. ConnectedKept'
    BY <1>0, <2>a1, <2>a2, <2>a3, <2>a4, <2>a5, <2>a6, <2>a7 DEF ConnectedKept
  <2> QED
    BY <2>1, <2>2, <2>3, <2>4, <2>5, <2>6, <2>7, <2>8 DEF SessionInv
<1>20. ASSUME NEW j \in Jobs, RouteUp(j), CanRoute PROVE SessionInv'
  <2> USE <1>20 DEF RouteUp, CanRoute, StartRouter, To, recVars, uiVars, osVars
  <2>a1. UNCHANGED <<stage, connected, svc, spc, wd, rpc, eng, pending, openTuns, osTun>>
    OBVIOUS
  <2>a2. bpc[j] = "route" /\ \A k \in Jobs : k # j => bpc[k] \in {"none", "done"}
    BY <1>0 DEF Apart
  <2>a3. bpc'[j] = "assign" /\ \A k \in Jobs : k # j => bpc'[k] = bpc[k]
    BY <1>0
  <2> DEFINE r == [tun |-> svc.tun, pair |-> svc.routerEnd, by |-> <<"bringUp", j>>]
  <2>a4. /\ made'[<<"bringUp", j>>] = r /\ r.tun = svc.tun /\ r.pair = svc.routerEnd
         /\ svc.tun # None /\ svc.routerEnd # NoPair /\ svc.engine # None
    BY <1>0, <2>a2 DEF Starters, Carried
  <2>a5. pumps' = {r}
    BY <1>0, <2>a2 DEF Held
  <2> HIDE DEF r
  <2>a6. svc.tun \in {None, j} /\ ~connected /\ pending = {} /\ \A w \in Jobs : rpc[w] = "none" /\ ~wd[w].observing
    BY <1>0, <2>a2 DEF OpeningAlone, Opening
  <2> HIDE <1>20 DEF RouteUp, CanRoute, StartRouter, To, recVars, uiVars, osVars
  <2>1. OpeningAlone'
    BY <1>0, <2>a1, <2>a2, <2>a3, <2>a4, <2>a5, <2>a6 DEF OpeningAlone, Opening
  <2>2. TornDown'
    BY <1>0, <2>a1, <2>a2, <2>a3, <2>a4, <2>a5, <2>a6 DEF TornDown
  <2>3. StageHonest'
    BY <1>0, <2>a1, <2>a2, <2>a3, <2>a4, <2>a5, <2>a6 DEF StageHonest
  <2>4. OneWatchdog'
    BY <1>0, <2>a1, <2>a2, <2>a3, <2>a4, <2>a5, <2>a6 DEF OneWatchdog, Watching
  <2>5. Held'
    BY <1>0, <2>a1, <2>a2, <2>a3, <2>a4, <2>a5, <2>a6 DEF Held, Assigning
  <2>6. EngineHeld'
    BY <1>0, <2>a1, <2>a2, <2>a3, <2>a4, <2>a5, <2>a6 DEF EngineHeld
  <2>7. Carried'
    BY <1>0, <2>a1, <2>a2, <2>a3, <2>a4, <2>a5, <2>a6 DEF Carried, OnTun, Settled
  <2>8. ConnectedKept'
    BY <1>0, <2>a1, <2>a2, <2>a3, <2>a4, <2>a5, <2>a6 DEF ConnectedKept
  <2> QED
    BY <2>1, <2>2, <2>3, <2>4, <2>5, <2>6, <2>7, <2>8 DEF SessionInv
<1>21. ASSUME NEW j \in Jobs, RouteUp(j), ~CanRoute PROVE SessionInv'
  <2> USE <1>21 DEF RouteUp, To, recVars, uiVars, osVars
  <2>a1. UNCHANGED <<stage, connected, svc, spc, wd, rpc, eng, pending, pumps, openTuns, osTun, made>>
    OBVIOUS
  <2>a2. bpc[j] = "route" /\ \A k \in Jobs : k # j => bpc[k] \in {"none", "done"}
    BY <1>0 DEF Apart
  <2>a3. bpc'[j] = "drop" /\ \A k \in Jobs : k # j => bpc'[k] = bpc[k]
    BY <1>0
  <2> HIDE <1>21 DEF RouteUp, To, recVars, uiVars, osVars
  <2>1. OpeningAlone'
    BY <1>0, <2>a1, <2>a2, <2>a3 DEF OpeningAlone, Opening
  <2>2. TornDown'
    BY <1>0, <2>a1, <2>a2, <2>a3 DEF TornDown
  <2>3. StageHonest'
    BY <1>0, <2>a1, <2>a2, <2>a3 DEF StageHonest
  <2>4. OneWatchdog'
    BY <1>0, <2>a1, <2>a2, <2>a3 DEF OneWatchdog, Watching
  <2>5. Held'
    BY <1>0, <2>a1, <2>a2, <2>a3 DEF Held, Assigning
  <2>6. EngineHeld'
    BY <1>0, <2>a1, <2>a2, <2>a3 DEF EngineHeld
  <2>7. Carried'
    BY <1>0, <2>a1, <2>a2, <2>a3 DEF Carried, OnTun, Settled
  <2>8. ConnectedKept'
    BY <1>0, <2>a1, <2>a2, <2>a3 DEF ConnectedKept
  <2> QED
    BY <2>1, <2>2, <2>3, <2>4, <2>5, <2>6, <2>7, <2>8 DEF SessionInv
<1>22. ASSUME NEW j \in Jobs, CheckEngine(j) PROVE SessionInv'
  <2> USE <1>22 DEF CheckEngine, To, recVars, uiVars, osVars
  <2>a1. UNCHANGED <<stage, connected, svc, spc, wd, rpc, eng, pending, pumps, openTuns, osTun, made>>
    OBVIOUS
  <2>a2. bpc[j] = "check" /\ \A k \in Jobs : k # j => bpc[k] \in {"none", "done"}
    BY <1>0 DEF Apart
  <2>a3. bpc'[j] \in {"probe", "drop"} /\ \A k \in Jobs : k # j => bpc'[k] = bpc[k]
    BY <1>0
  <2> HIDE <1>22 DEF CheckEngine, To, recVars, uiVars, osVars
  <2>1. OpeningAlone'
    BY <1>0, <2>a1, <2>a2, <2>a3 DEF OpeningAlone, Opening
  <2>2. TornDown'
    BY <1>0, <2>a1, <2>a2, <2>a3 DEF TornDown
  <2>3. StageHonest'
    BY <1>0, <2>a1, <2>a2, <2>a3 DEF StageHonest
  <2>4. OneWatchdog'
    BY <1>0, <2>a1, <2>a2, <2>a3 DEF OneWatchdog, Watching
  <2>5. Held'
    BY <1>0, <2>a1, <2>a2, <2>a3 DEF Held, Assigning
  <2>6. EngineHeld'
    BY <1>0, <2>a1, <2>a2, <2>a3 DEF EngineHeld
  <2>7. Carried'
    BY <1>0, <2>a1, <2>a2, <2>a3 DEF Carried, OnTun, Settled
  <2>8. ConnectedKept'
    BY <1>0, <2>a1, <2>a2, <2>a3 DEF ConnectedKept
  <2> QED
    BY <2>1, <2>2, <2>3, <2>4, <2>5, <2>6, <2>7, <2>8 DEF SessionInv
<1>23. ASSUME NEW j \in Jobs, Probe(j) PROVE SessionInv'
  <2> USE <1>23 DEF Probe, To, recVars, uiVars, osVars
  <2>a1. UNCHANGED <<stage, connected, svc, spc, wd, rpc, eng, pending, pumps, openTuns, osTun, made>>
    OBVIOUS
  <2>a2. bpc[j] = "probe" /\ \A k \in Jobs : k # j => bpc[k] \in {"none", "done"}
    BY <1>0 DEF Apart
  <2>a3. bpc'[j] = "up" /\ \A k \in Jobs : k # j => bpc'[k] = bpc[k]
    BY <1>0
  <2> HIDE <1>23 DEF Probe, To, recVars, uiVars, osVars
  <2>1. OpeningAlone'
    BY <1>0, <2>a1, <2>a2, <2>a3 DEF OpeningAlone, Opening
  <2>2. TornDown'
    BY <1>0, <2>a1, <2>a2, <2>a3 DEF TornDown
  <2>3. StageHonest'
    BY <1>0, <2>a1, <2>a2, <2>a3 DEF StageHonest
  <2>4. OneWatchdog'
    BY <1>0, <2>a1, <2>a2, <2>a3 DEF OneWatchdog, Watching
  <2>5. Held'
    BY <1>0, <2>a1, <2>a2, <2>a3 DEF Held, Assigning
  <2>6. EngineHeld'
    BY <1>0, <2>a1, <2>a2, <2>a3 DEF EngineHeld
  <2>7. Carried'
    BY <1>0, <2>a1, <2>a2, <2>a3 DEF Carried, OnTun, Settled
  <2>8. ConnectedKept'
    BY <1>0, <2>a1, <2>a2, <2>a3 DEF ConnectedKept
  <2> QED
    BY <2>1, <2>2, <2>3, <2>4, <2>5, <2>6, <2>7, <2>8 DEF SessionInv
<1>24. ASSUME NEW j \in Jobs, GoUp(j) PROVE SessionInv'
  <2> USE <1>24 DEF GoUp, To, recVars, uiVars, osVars
  <2>a1. UNCHANGED <<stage, svc, spc, rpc, eng, pending, pumps, openTuns, osTun, made>>
    OBVIOUS
  <2>a2. bpc[j] = "up" /\ \A k \in Jobs : k # j => bpc[k] \in {"none", "done"}
    BY <1>0 DEF Apart
  <2>a3. connected'
    OBVIOUS
  <2>a4. bpc'[j] = "publish" /\ \A k \in Jobs : k # j => bpc'[k] = bpc[k]
    BY <1>0
  <2>a5. /\ \A w \in Jobs : wd'[w].observing => svc.watchdog = w
         /\ \A w \in Jobs : wd'[w].reconnecting = wd[w].reconnecting /\ wd'[w].cancelled = wd[w].cancelled
    <3>1. CASE svc.watchdog = None
      <4>1. wd' = wd
        BY <3>1
      <4> QED
        BY <1>0, <4>1 DEF OneWatchdog
    <3>2. CASE svc.watchdog # None
      <4> DEFINE b == svc.watchdog
                 up == [wd[b] EXCEPT !.observing = TRUE, !.seen = "Stopped"]
      <4>1. b \in Jobs
        BY <1>0, <3>2 DEF SvcRec
      <4>2. wd' = [wd EXCEPT ![b] = up]
        BY <3>2
      <4>3. wd[b] \in WatchdogRec
        BY <1>0, <4>1
      <4>4. up.reconnecting = wd[b].reconnecting /\ up.cancelled = wd[b].cancelled
        BY <4>3 DEF WatchdogRec
      <4> HIDE DEF up
      <4>5. wd'[b] = up /\ \A w \in Jobs : w # b => wd'[w] = wd[w]
        BY <1>0, <4>1, <4>2
      <4> QED
        BY <1>0, <4>4, <4>5 DEF OneWatchdog
    <3> QED
      BY <3>1, <3>2
  <2> HIDE <1>24 DEF GoUp, To, recVars, uiVars, osVars
  <2>1. OpeningAlone'
    BY <1>0, <2>a1, <2>a2, <2>a3, <2>a4, <2>a5 DEF OpeningAlone, Opening
  <2>2. TornDown'
    BY <1>0, <2>a1, <2>a2, <2>a3, <2>a4, <2>a5 DEF TornDown
  <2>3. StageHonest'
    BY <1>0, <2>a1, <2>a2, <2>a3, <2>a4, <2>a5 DEF StageHonest
  <2>4. OneWatchdog'
    BY <1>0, <2>a1, <2>a2, <2>a3, <2>a4, <2>a5 DEF OneWatchdog, Watching
  <2>5. Held'
    BY <1>0, <2>a1, <2>a2, <2>a3, <2>a4, <2>a5 DEF Held, Assigning
  <2>6. EngineHeld'
    BY <1>0, <2>a1, <2>a2, <2>a3, <2>a4, <2>a5 DEF EngineHeld
  <2>7. Carried'
    BY <1>0, <2>a1, <2>a2, <2>a3, <2>a4, <2>a5 DEF Carried, OnTun, Settled
  <2>8. ConnectedKept'
    BY <1>0, <2>a1, <2>a2, <2>a3, <2>a4, <2>a5 DEF ConnectedKept
  <2> QED
    BY <2>1, <2>2, <2>3, <2>4, <2>5, <2>6, <2>7, <2>8 DEF SessionInv
<1>25. ASSUME NEW j \in Jobs, PublishConnected(j) PROVE SessionInv'
  <2> USE <1>25 DEF PublishConnected, To, recVars, uiVars, osVars
  <2>a1. UNCHANGED <<connected, svc, spc, wd, rpc, eng, pending, pumps, openTuns, osTun, made>>
    OBVIOUS
  <2>a2. bpc[j] = "publish" /\ \A k \in Jobs : k # j => bpc[k] \in {"none", "done"}
    BY <1>0 DEF Apart
  <2>a3. stage' = "CONNECTED"
    OBVIOUS
  <2>a4. bpc'[j] = "finish" /\ \A k \in Jobs : k # j => bpc'[k] = bpc[k]
    BY <1>0
  <2> HIDE <1>25 DEF PublishConnected, To, recVars, uiVars, osVars
  <2>1. OpeningAlone'
    BY <1>0, <2>a1, <2>a2, <2>a3, <2>a4 DEF OpeningAlone, Opening
  <2>2. TornDown'
    BY <1>0, <2>a1, <2>a2, <2>a3, <2>a4 DEF TornDown
  <2>3. StageHonest'
    BY <1>0, <2>a1, <2>a2, <2>a3, <2>a4 DEF StageHonest
  <2>4. OneWatchdog'
    BY <1>0, <2>a1, <2>a2, <2>a3, <2>a4 DEF OneWatchdog, Watching
  <2>5. Held'
    BY <1>0, <2>a1, <2>a2, <2>a3, <2>a4 DEF Held, Assigning
  <2>6. EngineHeld'
    BY <1>0, <2>a1, <2>a2, <2>a3, <2>a4 DEF EngineHeld
  <2>7. Carried'
    BY <1>0, <2>a1, <2>a2, <2>a3, <2>a4 DEF Carried, OnTun, Settled
  <2>8. ConnectedKept'
    BY <1>0, <2>a1, <2>a2, <2>a3, <2>a4 DEF ConnectedKept
  <2> QED
    BY <2>1, <2>2, <2>3, <2>4, <2>5, <2>6, <2>7, <2>8 DEF SessionInv
<1>26. ASSUME NEW j \in Jobs, FailDrop(j) PROVE SessionInv'
  <2> USE <1>26 DEF FailDrop, DropConnected, To, recVars, uiVars, osVars
  <2>a1. UNCHANGED <<stage, svc, spc, wd, rpc, eng, pending, pumps, openTuns, osTun, made>>
    OBVIOUS
  <2>a2. bpc[j] = "drop" /\ \A k \in Jobs : k # j => bpc[k] \in {"none", "done"}
    BY <1>0 DEF Apart
  <2>a3. connected' = FALSE
    OBVIOUS
  <2>a4. bpc'[j] = "lock" /\ \A k \in Jobs : k # j => bpc'[k] = bpc[k]
    BY <1>0
  <2>a5. svc.tun \in {None, j}
    BY <1>0, <2>a2 DEF OpeningAlone, Opening
  <2> HIDE <1>26 DEF FailDrop, DropConnected, To, recVars, uiVars, osVars
  <2>1. OpeningAlone'
    BY <1>0, <2>a1, <2>a2, <2>a3, <2>a4, <2>a5 DEF OpeningAlone, Opening
  <2>2. TornDown'
    BY <1>0, <2>a1, <2>a2, <2>a3, <2>a4, <2>a5 DEF TornDown
  <2>3. StageHonest'
    BY <1>0, <2>a1, <2>a2, <2>a3, <2>a4, <2>a5 DEF StageHonest
  <2>4. OneWatchdog'
    BY <1>0, <2>a1, <2>a2, <2>a3, <2>a4, <2>a5 DEF OneWatchdog, Watching
  <2>5. Held'
    BY <1>0, <2>a1, <2>a2, <2>a3, <2>a4, <2>a5 DEF Held, Assigning
  <2>6. EngineHeld'
    BY <1>0, <2>a1, <2>a2, <2>a3, <2>a4, <2>a5 DEF EngineHeld
  <2>7. Carried'
    BY <1>0, <2>a1, <2>a2, <2>a3, <2>a4, <2>a5 DEF Carried, OnTun, Settled
  <2>8. ConnectedKept'
    BY <1>0, <2>a1, <2>a2, <2>a3, <2>a4, <2>a5 DEF ConnectedKept
  <2> QED
    BY <2>1, <2>2, <2>3, <2>4, <2>5, <2>6, <2>7, <2>8 DEF SessionInv
<1>27. ASSUME NEW j \in Jobs, FailTeardown(j) PROVE SessionInv'
  <2> USE <1>27 DEF FailTeardown, To, recVars, uiVars, osVars
  <2>a1. UNCHANGED <<stage, connected, spc, rpc, pending>>
    OBVIOUS
  <2>a2. bpc[j] = "lock" /\ \A k \in Jobs : k # j => bpc[k] \in {"none", "done"}
    BY <1>0 DEF Apart
  <2>a3. /\ svc'.tun = None /\ svc'.engine = None /\ svc'.watchdog = None
         /\ openTuns' = {} /\ osTun' = None /\ pumps' = {}
         /\ \A e \in Jobs : eng'[e].pair = NoPair
         /\ \A v \in Jobs : ~wd'[v].observing /\ wd'[v].reconnecting = wd[v].reconnecting
    <3>1. ~Assigning
      BY <1>0, <2>a2 DEF Assigning, OpeningAlone, Opening
    <3> QED
      BY <1>0, <3>1, TeardownFacts
  <2>a4. bpc'[j] = "error" /\ \A k \in Jobs : k # j => bpc'[k] = bpc[k]
    BY <1>0
  <2> HIDE <1>27 DEF FailTeardown, To, recVars, uiVars, osVars
  <2>1. OpeningAlone'
    BY <1>0, <2>a1, <2>a2, <2>a3, <2>a4 DEF OpeningAlone, Opening
  <2>2. TornDown'
    BY <1>0, <2>a1, <2>a2, <2>a3, <2>a4 DEF TornDown
  <2>3. StageHonest'
    BY <1>0, <2>a1, <2>a2, <2>a3, <2>a4 DEF StageHonest
  <2>4. OneWatchdog'
    BY <1>0, <2>a1, <2>a2, <2>a3, <2>a4 DEF OneWatchdog, Watching
  <2>5. Held'
    BY <1>0, <2>a1, <2>a2, <2>a3, <2>a4 DEF Held, Assigning
  <2>6. EngineHeld'
    BY <1>0, <2>a1, <2>a2, <2>a3, <2>a4 DEF EngineHeld
  <2>7. Carried'
    BY <1>0, <2>a1, <2>a2, <2>a3, <2>a4 DEF Carried, OnTun, Settled
  <2>8. ConnectedKept'
    BY <1>0, <2>a1, <2>a2, <2>a3, <2>a4 DEF ConnectedKept
  <2> QED
    BY <2>1, <2>2, <2>3, <2>4, <2>5, <2>6, <2>7, <2>8 DEF SessionInv
<1>28. ASSUME NEW j \in Jobs, PublishError(j) PROVE SessionInv'
  <2> USE <1>28 DEF PublishError, To, recVars, uiVars, osVars
  <2>a1. UNCHANGED <<connected, svc, spc, wd, rpc, eng, pending, pumps, openTuns, osTun, made>>
    OBVIOUS
  <2>a2. bpc[j] = "error" /\ \A k \in Jobs : k # j => bpc[k] \in {"none", "done"}
    BY <1>0 DEF Apart
  <2>a3. stage' = "ERROR" /\ svc.tun = None
    BY <1>0, <2>a2 DEF TornDown
  <2>a4. bpc'[j] = "finish" /\ \A k \in Jobs : k # j => bpc'[k] = bpc[k]
    BY <1>0
  <2> HIDE <1>28 DEF PublishError, To, recVars, uiVars, osVars
  <2>1. OpeningAlone'
    BY <1>0, <2>a1, <2>a2, <2>a3, <2>a4 DEF OpeningAlone, Opening
  <2>2. TornDown'
    BY <1>0, <2>a1, <2>a2, <2>a3, <2>a4 DEF TornDown
  <2>3. StageHonest'
    BY <1>0, <2>a1, <2>a2, <2>a3, <2>a4 DEF StageHonest
  <2>4. OneWatchdog'
    BY <1>0, <2>a1, <2>a2, <2>a3, <2>a4 DEF OneWatchdog, Watching
  <2>5. Held'
    BY <1>0, <2>a1, <2>a2, <2>a3, <2>a4 DEF Held, Assigning
  <2>6. EngineHeld'
    BY <1>0, <2>a1, <2>a2, <2>a3, <2>a4 DEF EngineHeld
  <2>7. Carried'
    BY <1>0, <2>a1, <2>a2, <2>a3, <2>a4 DEF Carried, OnTun, Settled
  <2>8. ConnectedKept'
    BY <1>0, <2>a1, <2>a2, <2>a3, <2>a4 DEF ConnectedKept
  <2> QED
    BY <2>1, <2>2, <2>3, <2>4, <2>5, <2>6, <2>7, <2>8 DEF SessionInv
<1>29. ASSUME NEW j \in Jobs, Finish(j) PROVE SessionInv'
  <2> USE <1>29 DEF Finish, To, recVars, uiVars, osVars
  <2>a1. UNCHANGED <<stage, connected, svc, spc, wd, rpc, eng, pending, pumps, openTuns, osTun, made>>
    OBVIOUS
  <2>a2. bpc[j] = "finish" /\ \A k \in Jobs : k # j => bpc[k] \in {"none", "done"}
    BY <1>0 DEF Apart
  <2>a3. bpc'[j] = "done" /\ \A k \in Jobs : k # j => bpc'[k] = bpc[k]
    BY <1>0
  <2> HIDE <1>29 DEF Finish, To, recVars, uiVars, osVars
  <2>1. OpeningAlone'
    BY <1>0, <2>a1, <2>a2, <2>a3 DEF OpeningAlone, Opening
  <2>2. TornDown'
    BY <1>0, <2>a1, <2>a2, <2>a3 DEF TornDown
  <2>3. StageHonest'
    BY <1>0, <2>a1, <2>a2, <2>a3 DEF StageHonest
  <2>4. OneWatchdog'
    BY <1>0, <2>a1, <2>a2, <2>a3 DEF OneWatchdog, Watching
  <2>5. Held'
    BY <1>0, <2>a1, <2>a2, <2>a3 DEF Held, Assigning
  <2>6. EngineHeld'
    BY <1>0, <2>a1, <2>a2, <2>a3 DEF EngineHeld
  <2>7. Carried'
    BY <1>0, <2>a1, <2>a2, <2>a3 DEF Carried, OnTun, Settled
  <2>8. ConnectedKept'
    BY <1>0, <2>a1, <2>a2, <2>a3 DEF ConnectedKept
  <2> QED
    BY <2>1, <2>2, <2>3, <2>4, <2>5, <2>6, <2>7, <2>8 DEF SessionInv
<1>30. ASSUME NEW w \in Jobs, Observe(w) PROVE SessionInv'
  <2> USE <1>30 DEF Observe, recVars, uiVars, osVars
  <2>a1. UNCHANGED <<stage, connected, svc, bpc, spc, eng, pending, pumps, openTuns, osTun, made>>
    OBVIOUS
  <2>a2. wd[w].observing /\ svc.watchdog = w /\ svc.tun # None
    BY <1>0 DEF OneWatchdog
  <2>a3. \A j \in Jobs : bpc[j] \notin Opening
    BY <1>0, <2>a2 DEF OpeningAlone
  <2>a4. /\ rpc'[w] # "none" => wd'[w].reconnecting
         /\ wd'[w].observing = wd[w].observing
         /\ rpc'[w] # rpc[w] => rpc'[w] = "try" /\ rpc[w] = "none" /\ ~wd'[w].cancelled
         /\ rpc'[w] = rpc[w] => wd'[w].cancelled = wd[w].cancelled
         /\ \A v \in Jobs : v # w => wd'[v] = wd[v] /\ rpc'[v] = rpc[v]
    <3> DEFINE st == eng[wd[w].engine].state
               seen == [wd[w] EXCEPT !.seen = st]
               d == [wd EXCEPT ![w].seen = st]
    <3>1. wd[w].engine \in Jobs
      BY <1>0, <2>a2 DEF WatchdogsBuilt, WatchdogRec
    <3>2. st \in EngineStates
      BY <1>0, <3>1 DEF EngineRec
    <3> HIDE DEF st
    <3>r. wd[w] \in WatchdogRec
      BY <1>0
    <3>3. seen \in WatchdogRec /\ seen.reconnecting = wd[w].reconnecting
          /\ seen.observing = wd[w].observing /\ seen.cancelled = wd[w].cancelled
      BY <3>r, <3>2 DEF WatchdogRec
    <3>4. d = [wd EXCEPT ![w] = seen]
      OBVIOUS
    <3> HIDE DEF seen
    <3>5. d \in [Jobs -> WatchdogRec] /\ d[w] = seen /\ \A v \in Jobs : v # w => d[v] = wd[v]
      BY <1>0, <3>3, <3>4
    <3>6. \/ ReportFault(w, d)
          \/ wd' = d /\ rpc' = rpc
      BY DEF st
    <3> HIDE DEF d
    <3>7. rpc[w] # "none" => wd[w].reconnecting
      BY <1>0 DEF OneWatchdog
    <3>8. CASE ReportFault(w, d)
      <4>1. d[w].reconnecting = wd[w].reconnecting
        BY <3>3, <3>5
      <4>2. TypeWatchdogs
        BY <1>0 DEF TypeOK
      <4>3. /\ wd'[w].reconnecting /\ wd'[w].observing = d[w].observing
            /\ rpc'[w] # rpc[w] => rpc'[w] = "try" /\ rpc[w] = "none" /\ ~wd'[w].cancelled
            /\ rpc'[w] = rpc[w] => wd'[w].cancelled = d[w].cancelled
            /\ \A v \in Jobs : v # w => wd'[v] = d[v] /\ rpc'[v] = rpc[v]
        BY <3>5, <3>7, <3>8, <4>1, <4>2, FaultFacts
      <4> QED
        BY <3>3, <3>5, <4>3
    <3>9. CASE wd' = d /\ rpc' = rpc
      BY <3>3, <3>5, <3>7, <3>9
    <3> QED
      BY <3>6, <3>8, <3>9
  <2> HIDE <1>30 DEF Observe, recVars, uiVars, osVars
  <2>1. OpeningAlone'
    BY <1>0, <2>a1, <2>a2, <2>a3, <2>a4 DEF OpeningAlone, Opening
  <2>2. TornDown'
    BY <1>0, <2>a1, <2>a2, <2>a3, <2>a4 DEF TornDown
  <2>3. StageHonest'
    BY <1>0, <2>a1, <2>a2, <2>a3, <2>a4 DEF StageHonest
  <2>4. OneWatchdog'
    BY <1>0, <2>a1, <2>a2, <2>a3, <2>a4 DEF OneWatchdog, Watching
  <2>5. Held'
    BY <1>0, <2>a1, <2>a2, <2>a3, <2>a4 DEF Held, Assigning
  <2>6. EngineHeld'
    BY <1>0, <2>a1, <2>a2, <2>a3, <2>a4 DEF EngineHeld
  <2>7. Carried'
    BY <1>0, <2>a1, <2>a2, <2>a3, <2>a4 DEF Carried, OnTun, Settled
  <2>8. ConnectedKept'
    BY <1>0, <2>a1, <2>a2, <2>a3, <2>a4 DEF ConnectedKept
  <2> QED
    BY <2>1, <2>2, <2>3, <2>4, <2>5, <2>6, <2>7, <2>8 DEF SessionInv
<1>31. ASSUME NEW w \in Jobs, PumpReport(w) PROVE SessionInv'
  <2> USE <1>31 DEF PumpReport, recVars, uiVars, osVars
  <2>a1. UNCHANGED <<stage, connected, svc, bpc, spc, eng, pumps, openTuns, osTun, made>>
    OBVIOUS
  <2>a2. w \in pending /\ pending' = pending \ {w}
    OBVIOUS
  <2>a3. \A j \in Jobs : bpc[j] \notin Opening
    BY <1>0, <2>a2 DEF OpeningAlone
  <2>a4. /\ wd'[w].reconnecting /\ wd'[w].observing = wd[w].observing
         /\ rpc'[w] # rpc[w] => rpc'[w] = "try" /\ rpc[w] = "none" /\ ~wd'[w].cancelled
         /\ rpc'[w] = rpc[w] => wd'[w].cancelled = wd[w].cancelled
         /\ \A v \in Jobs : v # w => wd'[v] = wd[v] /\ rpc'[v] = rpc[v]
    <3>1. TypeWatchdogs /\ wd \in [Jobs -> WatchdogRec] /\ (rpc[w] # "none" => wd[w].reconnecting)
      BY <1>0 DEF OneWatchdog, TypeOK
    <3>2. ReportFault(w, wd)
      OBVIOUS
    <3> QED
      BY <3>1, <3>2, FaultFacts
  <2> HIDE <1>31 DEF PumpReport, recVars, uiVars, osVars
  <2>1. OpeningAlone'
    BY <1>0, <2>a1, <2>a2, <2>a3, <2>a4 DEF OpeningAlone, Opening
  <2>2. TornDown'
    BY <1>0, <2>a1, <2>a2, <2>a3, <2>a4 DEF TornDown
  <2>3. StageHonest'
    BY <1>0, <2>a1, <2>a2, <2>a3, <2>a4 DEF StageHonest
  <2>4. OneWatchdog'
    BY <1>0, <2>a1, <2>a2, <2>a3, <2>a4 DEF OneWatchdog, Watching
  <2>5. Held'
    BY <1>0, <2>a1, <2>a2, <2>a3, <2>a4 DEF Held, Assigning
  <2>6. EngineHeld'
    BY <1>0, <2>a1, <2>a2, <2>a3, <2>a4 DEF EngineHeld
  <2>7. Carried'
    BY <1>0, <2>a1, <2>a2, <2>a3, <2>a4 DEF Carried, OnTun, Settled
  <2>8. ConnectedKept'
    BY <1>0, <2>a1, <2>a2, <2>a3, <2>a4 DEF ConnectedKept
  <2> QED
    BY <2>1, <2>2, <2>3, <2>4, <2>5, <2>6, <2>7, <2>8 DEF SessionInv
<1>32. ASSUME NEW w \in Jobs, RecoveryTry(w) PROVE SessionInv'
  <2> USE <1>32 DEF RecoveryTry, RecoveryTo, Failed, recVars, uiVars, osVars
  <2>a1. UNCHANGED <<connected, svc, bpc, spc, wd, eng, pending, pumps, openTuns, osTun, made>>
    OBVIOUS
  <2>a2. rpc[w] = "try"
    OBVIOUS
  <2>a3. \A j \in Jobs : bpc[j] \notin Opening
    BY <1>0, <2>a2 DEF OpeningAlone
  <2>a4. /\ rpc'[w] \in {"drop", "delay"} \/ (rpc'[w] = "end" /\ wd[w].cancelled)
         /\ \A v \in Jobs : v # w => rpc'[v] = rpc[v]
    BY <1>0
  <2>a5. \A v \in Jobs : v # w => rpc[v] = "none"
    BY <1>0, <2>a2 DEF OneWatchdog, Watching
  <2>a6. \A j \in Jobs : bpc[j] \notin Starting
    BY <1>0, <2>a2 DEF Apart, Asked, Rested
  <2>a7. stage' = stage \/ stage' = "RECONNECTING"
    OBVIOUS
  <2>a8. wd[w].cancelled => svc.tun = None
    BY <1>0, <2>a2 DEF TornDown
  <2> HIDE <1>32 DEF RecoveryTry, RecoveryTo, Failed, recVars, uiVars, osVars
  <2>1. OpeningAlone'
    BY <1>0, <2>a1, <2>a2, <2>a3, <2>a4, <2>a5, <2>a6, <2>a7, <2>a8 DEF OpeningAlone, Opening
  <2>2. TornDown'
    BY <1>0, <2>a1, <2>a2, <2>a3, <2>a4, <2>a5, <2>a6, <2>a7, <2>a8 DEF TornDown
  <2>3. StageHonest'
    BY <1>0, <2>a1, <2>a2, <2>a3, <2>a4, <2>a5, <2>a6, <2>a7, <2>a8 DEF StageHonest, Starting
  <2>4. OneWatchdog'
    BY <1>0, <2>a1, <2>a2, <2>a3, <2>a4, <2>a5, <2>a6, <2>a7, <2>a8 DEF OneWatchdog, Watching
  <2>5. Held'
    BY <1>0, <2>a1, <2>a2, <2>a3, <2>a4, <2>a5, <2>a6, <2>a7, <2>a8 DEF Held, Assigning
  <2>6. EngineHeld'
    BY <1>0, <2>a1, <2>a2, <2>a3, <2>a4, <2>a5, <2>a6, <2>a7, <2>a8 DEF EngineHeld
  <2>7. Carried'
    BY <1>0, <2>a1, <2>a2, <2>a3, <2>a4, <2>a5, <2>a6, <2>a7, <2>a8 DEF Carried, OnTun, Settled
  <2>8. ConnectedKept'
    BY <1>0, <2>a1, <2>a2, <2>a3, <2>a4, <2>a5, <2>a6, <2>a7, <2>a8 DEF ConnectedKept
  <2> QED
    BY <2>1, <2>2, <2>3, <2>4, <2>5, <2>6, <2>7, <2>8 DEF SessionInv
<1>33. ASSUME NEW w \in Jobs, RecoveryDelay(w) PROVE SessionInv'
  <2> USE <1>33 DEF RecoveryDelay, RecoveryTo, Failed, recVars, uiVars, osVars
  <2>a1. UNCHANGED <<stage, connected, svc, bpc, spc, wd, eng, pending, pumps, openTuns, osTun, made>>
    OBVIOUS
  <2>a2. rpc[w] = "delay"
    OBVIOUS
  <2>a3. \A j \in Jobs : bpc[j] \notin Opening
    BY <1>0, <2>a2 DEF OpeningAlone
  <2>a4. /\ rpc'[w] = "plumb" \/ (rpc'[w] = "end" /\ wd[w].cancelled)
         /\ \A v \in Jobs : v # w => rpc'[v] = rpc[v]
    BY <1>0
  <2>a5. \A v \in Jobs : v # w => rpc[v] = "none"
    BY <1>0, <2>a2 DEF OneWatchdog, Watching
  <2>a6. \A j \in Jobs : bpc[j] \notin Starting
    BY <1>0, <2>a2 DEF Apart, Asked, Rested
  <2>a7. wd[w].cancelled => svc.tun = None
    BY <1>0, <2>a2 DEF TornDown
  <2> HIDE <1>33 DEF RecoveryDelay, RecoveryTo, Failed, recVars, uiVars, osVars
  <2>1. OpeningAlone'
    BY <1>0, <2>a1, <2>a2, <2>a3, <2>a4, <2>a5, <2>a6, <2>a7 DEF OpeningAlone, Opening
  <2>2. TornDown'
    BY <1>0, <2>a1, <2>a2, <2>a3, <2>a4, <2>a5, <2>a6, <2>a7 DEF TornDown
  <2>3. StageHonest'
    BY <1>0, <2>a1, <2>a2, <2>a3, <2>a4, <2>a5, <2>a6, <2>a7 DEF StageHonest
  <2>4. OneWatchdog'
    BY <1>0, <2>a1, <2>a2, <2>a3, <2>a4, <2>a5, <2>a6, <2>a7 DEF OneWatchdog, Watching
  <2>5. Held'
    BY <1>0, <2>a1, <2>a2, <2>a3, <2>a4, <2>a5, <2>a6, <2>a7 DEF Held, Assigning
  <2>6. EngineHeld'
    BY <1>0, <2>a1, <2>a2, <2>a3, <2>a4, <2>a5, <2>a6, <2>a7 DEF EngineHeld
  <2>7. Carried'
    BY <1>0, <2>a1, <2>a2, <2>a3, <2>a4, <2>a5, <2>a6, <2>a7 DEF Carried, OnTun, Settled
  <2>8. ConnectedKept'
    BY <1>0, <2>a1, <2>a2, <2>a3, <2>a4, <2>a5, <2>a6, <2>a7 DEF ConnectedKept
  <2> QED
    BY <2>1, <2>2, <2>3, <2>4, <2>5, <2>6, <2>7, <2>8 DEF SessionInv
<1>34. ASSUME NEW w \in Jobs, ReconnectEngine(w), svc.loopback = None,
            svc' = [svc EXCEPT !.router = None, !.routerEnd = pairs + 1],
            Failed(w), UNCHANGED eng
      PROVE SessionInv'
  <2> USE <1>34 DEF ReconnectEngine, Failed, recVars, uiVars, osVars
  <2>a1. UNCHANGED <<stage, connected, bpc, spc, wd, eng, pending, openTuns, osTun, made>>
    OBVIOUS
  <2>a2. rpc[w] = "plumb"
    OBVIOUS
  <2>a3. \A j \in Jobs : bpc[j] \notin Opening
    BY <1>0, <2>a2 DEF OpeningAlone
  <2>a4. rpc'[w] = "try" /\ \A v \in Jobs : v # w => rpc'[v] = rpc[v]
    BY <1>0
  <2>a5. \A v \in Jobs : v # w => rpc[v] = "none"
    BY <1>0, <2>a2 DEF OneWatchdog, Watching
  <2>a6. /\ svc'.tun = svc.tun /\ svc'.watchdog = svc.watchdog /\ svc'.engine = svc.engine
         /\ pumps' = {}
    BY <1>0, <2>a2, <2>a3, <2>a5 DEF SvcRec, Held, Assigning, Opening
  <2> HIDE <1>34 DEF ReconnectEngine, Failed, recVars, uiVars, osVars
  <2>1. OpeningAlone'
    BY <1>0, <2>a1, <2>a2, <2>a3, <2>a4, <2>a5, <2>a6 DEF OpeningAlone, Opening
  <2>2. TornDown'
    BY <1>0, <2>a1, <2>a2, <2>a3, <2>a4, <2>a5, <2>a6 DEF TornDown
  <2>3. StageHonest'
    BY <1>0, <2>a1, <2>a2, <2>a3, <2>a4, <2>a5, <2>a6 DEF StageHonest
  <2>4. OneWatchdog'
    BY <1>0, <2>a1, <2>a2, <2>a3, <2>a4, <2>a5, <2>a6 DEF OneWatchdog, Watching
  <2>5. Held'
    BY <1>0, <2>a1, <2>a2, <2>a3, <2>a4, <2>a5, <2>a6 DEF Held, Assigning
  <2>6. EngineHeld'
    BY <1>0, <2>a1, <2>a2, <2>a3, <2>a4, <2>a5, <2>a6 DEF EngineHeld
  <2>7. Carried'
    BY <1>0, <2>a1, <2>a2, <2>a3, <2>a4, <2>a5, <2>a6 DEF Carried, OnTun, Settled, Opening
  <2>8. ConnectedKept'
    BY <1>0, <2>a1, <2>a2, <2>a3, <2>a4, <2>a5, <2>a6 DEF ConnectedKept
  <2> QED
    BY <2>1, <2>2, <2>3, <2>4, <2>5, <2>6, <2>7, <2>8 DEF SessionInv
<1>35. ASSUME NEW w \in Jobs, ReconnectEngine(w), NEW ok \in BOOLEAN,
            NEW e \in Jobs, e = IF svc.engine = None THEN w ELSE svc.engine,
            svc' = [[svc EXCEPT !.router = None, !.routerEnd = pairs + 1] EXCEPT !.engine = e],
            StartRemote(e, pairs + 1, ok),
            IF ok THEN RecoveryTo(w, "route") ELSE Failed(w) PROVE SessionInv'
  <2> USE <1>35 DEF ReconnectEngine, StartRemote, RecoveryTo, Failed, recVars, uiVars, osVars
  <2>a1. UNCHANGED <<stage, connected, bpc, spc, wd, pending, openTuns, osTun, made>>
    OBVIOUS
  <2>a2. rpc[w] = "plumb" /\ e # None
    BY <1>0
  <2>a3. \A j \in Jobs : bpc[j] \notin Opening
    BY <1>0, <2>a2 DEF OpeningAlone
  <2>a4. rpc'[w] \in {"route", "try"} /\ \A v \in Jobs : v # w => rpc'[v] = rpc[v]
    BY <1>0
  <2>a5. \A v \in Jobs : v # w => rpc[v] = "none"
    BY <1>0, <2>a2 DEF OneWatchdog, Watching
  <2>a6. /\ svc'.tun = svc.tun /\ svc'.watchdog = svc.watchdog /\ svc'.engine = e
         /\ pumps' = {}
    BY <1>0, <2>a2, <2>a3, <2>a5 DEF SvcRec, Held, Assigning, Opening
  <2>a7. /\ eng'[e].pair # NoPair => eng'[e].state = "Running"
         /\ \A d \in Jobs : d # e => eng'[d].pair = NoPair
    <3>1. \A d \in Jobs : d # e => eng'[d] = eng[d]
      BY <1>0
    <3>2. \A d \in Jobs : d # e => eng[d].pair = NoPair
      BY <1>0 DEF EngineHeld
    <3>3. eng'[e].pair # NoPair => eng'[e].state = "Running"
      BY <1>0 DEF NoEng
    <3> QED
      BY <3>1, <3>2, <3>3
  <2> HIDE <1>35 DEF ReconnectEngine, StartRemote, RecoveryTo, Failed, recVars, uiVars, osVars
  <2>1. OpeningAlone'
    BY <1>0, <2>a1, <2>a2, <2>a3, <2>a4, <2>a5, <2>a6, <2>a7 DEF OpeningAlone, Opening
  <2>2. TornDown'
    BY <1>0, <2>a1, <2>a2, <2>a3, <2>a4, <2>a5, <2>a6, <2>a7 DEF TornDown
  <2>3. StageHonest'
    BY <1>0, <2>a1, <2>a2, <2>a3, <2>a4, <2>a5, <2>a6, <2>a7 DEF StageHonest
  <2>4. OneWatchdog'
    BY <1>0, <2>a1, <2>a2, <2>a3, <2>a4, <2>a5, <2>a6, <2>a7 DEF OneWatchdog, Watching
  <2>5. Held'
    BY <1>0, <2>a1, <2>a2, <2>a3, <2>a4, <2>a5, <2>a6, <2>a7 DEF Held, Assigning
  <2>6. EngineHeld'
    BY <1>0, <2>a1, <2>a2, <2>a3, <2>a4, <2>a5, <2>a6, <2>a7 DEF EngineHeld
  <2>7. Carried'
    BY <1>0, <2>a1, <2>a2, <2>a3, <2>a4, <2>a5, <2>a6, <2>a7 DEF Carried, OnTun, Settled, Opening
  <2>8. ConnectedKept'
    BY <1>0, <2>a1, <2>a2, <2>a3, <2>a4, <2>a5, <2>a6, <2>a7 DEF ConnectedKept
  <2> QED
    BY <2>1, <2>2, <2>3, <2>4, <2>5, <2>6, <2>7, <2>8 DEF SessionInv
<1>36. ASSUME NEW w \in Jobs, ReconnectRoute(w), CanRoute PROVE SessionInv'
  <2> USE <1>36 DEF ReconnectRoute, CanRoute, StartRouter, RecoveryTo, recVars, uiVars, osVars
  <2>a1. UNCHANGED <<stage, connected, svc, bpc, spc, wd, eng, pending, openTuns, osTun>>
    OBVIOUS
  <2>a2. rpc[w] = "route"
    OBVIOUS
  <2>a3. \A j \in Jobs : bpc[j] \notin Opening
    BY <1>0, <2>a2 DEF OpeningAlone
  <2>a4. rpc'[w] = "assign" /\ \A v \in Jobs : v # w => rpc'[v] = rpc[v]
    BY <1>0
  <2> DEFINE r == [tun |-> svc.tun, pair |-> svc.routerEnd, by |-> <<"reconnectEngine", w>>]
  <2>a5. /\ made'[<<"reconnectEngine", w>>] = r /\ r.tun = svc.tun /\ r.pair = svc.routerEnd
         /\ svc.tun # None /\ svc.routerEnd # NoPair /\ svc.engine # None
    BY <1>0, <2>a2 DEF Starters, Carried
  <2>a6. pumps' = {r}
    BY <1>0, <2>a2 DEF Held
  <2> HIDE DEF r
  <2>a7. \A v \in Jobs : v # w => rpc[v] = "none"
    BY <1>0, <2>a2 DEF OneWatchdog, Watching
  <2> HIDE <1>36 DEF ReconnectRoute, CanRoute, StartRouter, RecoveryTo, recVars, uiVars, osVars
  <2>1. OpeningAlone'
    BY <1>0, <2>a1, <2>a2, <2>a3, <2>a4, <2>a5, <2>a6, <2>a7 DEF OpeningAlone, Opening
  <2>2. TornDown'
    BY <1>0, <2>a1, <2>a2, <2>a3, <2>a4, <2>a5, <2>a6, <2>a7 DEF TornDown
  <2>3. StageHonest'
    BY <1>0, <2>a1, <2>a2, <2>a3, <2>a4, <2>a5, <2>a6, <2>a7 DEF StageHonest
  <2>4. OneWatchdog'
    BY <1>0, <2>a1, <2>a2, <2>a3, <2>a4, <2>a5, <2>a6, <2>a7 DEF OneWatchdog, Watching
  <2>5. Held'
    BY <1>0, <2>a1, <2>a2, <2>a3, <2>a4, <2>a5, <2>a6, <2>a7 DEF Held, Assigning, Opening
  <2>6. EngineHeld'
    BY <1>0, <2>a1, <2>a2, <2>a3, <2>a4, <2>a5, <2>a6, <2>a7 DEF EngineHeld
  <2>7. Carried'
    BY <1>0, <2>a1, <2>a2, <2>a3, <2>a4, <2>a5, <2>a6, <2>a7 DEF Carried, OnTun, Settled, Opening
  <2>8. ConnectedKept'
    BY <1>0, <2>a1, <2>a2, <2>a3, <2>a4, <2>a5, <2>a6, <2>a7 DEF ConnectedKept
  <2> QED
    BY <2>1, <2>2, <2>3, <2>4, <2>5, <2>6, <2>7, <2>8 DEF SessionInv
<1>37. ASSUME NEW w \in Jobs, ReconnectRoute(w), ~CanRoute PROVE SessionInv'
  <2> USE <1>37 DEF ReconnectRoute, Failed, recVars, uiVars, osVars
  <2>a1. UNCHANGED <<stage, connected, svc, bpc, spc, wd, eng, pending, pumps, openTuns, osTun, made>>
    OBVIOUS
  <2>a2. rpc[w] = "route"
    OBVIOUS
  <2>a3. \A j \in Jobs : bpc[j] \notin Opening
    BY <1>0, <2>a2 DEF OpeningAlone
  <2>a4. rpc'[w] = "try" /\ \A v \in Jobs : v # w => rpc'[v] = rpc[v]
    BY <1>0
  <2> HIDE <1>37 DEF ReconnectRoute, Failed, recVars, uiVars, osVars
  <2>1. OpeningAlone'
    BY <1>0, <2>a1, <2>a2, <2>a3, <2>a4 DEF OpeningAlone, Opening
  <2>2. TornDown'
    BY <1>0, <2>a1, <2>a2, <2>a3, <2>a4 DEF TornDown
  <2>3. StageHonest'
    BY <1>0, <2>a1, <2>a2, <2>a3, <2>a4 DEF StageHonest
  <2>4. OneWatchdog'
    BY <1>0, <2>a1, <2>a2, <2>a3, <2>a4 DEF OneWatchdog, Watching
  <2>5. Held'
    BY <1>0, <2>a1, <2>a2, <2>a3, <2>a4 DEF Held, Assigning
  <2>6. EngineHeld'
    BY <1>0, <2>a1, <2>a2, <2>a3, <2>a4 DEF EngineHeld
  <2>7. Carried'
    BY <1>0, <2>a1, <2>a2, <2>a3, <2>a4 DEF Carried, OnTun, Settled
  <2>8. ConnectedKept'
    BY <1>0, <2>a1, <2>a2, <2>a3, <2>a4 DEF ConnectedKept
  <2> QED
    BY <2>1, <2>2, <2>3, <2>4, <2>5, <2>6, <2>7, <2>8 DEF SessionInv
<1>38. ASSUME NEW w \in Jobs, ReconnectResult(w) PROVE SessionInv'
  <2> USE <1>38 DEF ReconnectResult, RecoveryTo, Failed, recVars, uiVars, osVars
  <2>a1. UNCHANGED <<stage, connected, svc, bpc, spc, wd, eng, pending, pumps, openTuns, osTun, made>>
    OBVIOUS
  <2>a2. rpc[w] = "result"
    OBVIOUS
  <2>a3. \A j \in Jobs : bpc[j] \notin Opening
    BY <1>0, <2>a2 DEF OpeningAlone
  <2>a4. rpc'[w] \in {"publish", "try"} /\ \A v \in Jobs : v # w => rpc'[v] = rpc[v]
    BY <1>0
  <2>a5. \A v \in Jobs : v # w => rpc[v] = "none"
    BY <1>0, <2>a2 DEF OneWatchdog, Watching
  <2>a6. \A j \in Jobs : bpc[j] \notin Starting
    BY <1>0, <2>a2 DEF Apart, Asked, Rested
  <2> HIDE <1>38 DEF ReconnectResult, RecoveryTo, Failed, recVars, uiVars, osVars
  <2>1. OpeningAlone'
    BY <1>0, <2>a1, <2>a2, <2>a3, <2>a4, <2>a5, <2>a6 DEF OpeningAlone, Opening
  <2>2. TornDown'
    BY <1>0, <2>a1, <2>a2, <2>a3, <2>a4, <2>a5, <2>a6 DEF TornDown
  <2>3. StageHonest'
    BY <1>0, <2>a1, <2>a2, <2>a3, <2>a4, <2>a5, <2>a6 DEF StageHonest
  <2>4. OneWatchdog'
    BY <1>0, <2>a1, <2>a2, <2>a3, <2>a4, <2>a5, <2>a6 DEF OneWatchdog, Watching
  <2>5. Held'
    BY <1>0, <2>a1, <2>a2, <2>a3, <2>a4, <2>a5, <2>a6 DEF Held, Assigning
  <2>6. EngineHeld'
    BY <1>0, <2>a1, <2>a2, <2>a3, <2>a4, <2>a5, <2>a6 DEF EngineHeld
  <2>7. Carried'
    BY <1>0, <2>a1, <2>a2, <2>a3, <2>a4, <2>a5, <2>a6 DEF Carried, OnTun, Settled
  <2>8. ConnectedKept'
    BY <1>0, <2>a1, <2>a2, <2>a3, <2>a4, <2>a5, <2>a6 DEF ConnectedKept
  <2> QED
    BY <2>1, <2>2, <2>3, <2>4, <2>5, <2>6, <2>7, <2>8 DEF SessionInv
<1>39. ASSUME NEW w \in Jobs, RecoveryPublish(w) PROVE SessionInv'
  <2> USE <1>39 DEF RecoveryPublish, RecoveryTo, Failed, recVars, uiVars, osVars
  <2>a1. UNCHANGED <<connected, svc, bpc, spc, wd, eng, pending, pumps, openTuns, osTun, made>>
    OBVIOUS
  <2>a2. rpc[w] = "publish"
    OBVIOUS
  <2>a3. \A j \in Jobs : bpc[j] \notin Opening
    BY <1>0, <2>a2 DEF OpeningAlone
  <2>a4. rpc'[w] = "end" /\ \A v \in Jobs : v # w => rpc'[v] = rpc[v]
    BY <1>0
  <2>a5. \A v \in Jobs : v # w => rpc[v] = "none"
    BY <1>0, <2>a2 DEF OneWatchdog, Watching
  <2>a6. \A j \in Jobs : bpc[j] \notin Starting
    BY <1>0, <2>a2 DEF Apart, Asked, Rested
  <2>a7. stage' = "CONNECTED"
    OBVIOUS
  <2> HIDE <1>39 DEF RecoveryPublish, RecoveryTo, Failed, recVars, uiVars, osVars
  <2>1. OpeningAlone'
    BY <1>0, <2>a1, <2>a2, <2>a3, <2>a4, <2>a5, <2>a6, <2>a7 DEF OpeningAlone, Opening
  <2>2. TornDown'
    BY <1>0, <2>a1, <2>a2, <2>a3, <2>a4, <2>a5, <2>a6, <2>a7 DEF TornDown
  <2>3. StageHonest'
    BY <1>0, <2>a1, <2>a2, <2>a3, <2>a4, <2>a5, <2>a6, <2>a7 DEF StageHonest, Starting
  <2>4. OneWatchdog'
    BY <1>0, <2>a1, <2>a2, <2>a3, <2>a4, <2>a5, <2>a6, <2>a7 DEF OneWatchdog, Watching
  <2>5. Held'
    BY <1>0, <2>a1, <2>a2, <2>a3, <2>a4, <2>a5, <2>a6, <2>a7 DEF Held, Assigning
  <2>6. EngineHeld'
    BY <1>0, <2>a1, <2>a2, <2>a3, <2>a4, <2>a5, <2>a6, <2>a7 DEF EngineHeld
  <2>7. Carried'
    BY <1>0, <2>a1, <2>a2, <2>a3, <2>a4, <2>a5, <2>a6, <2>a7 DEF Carried, OnTun, Settled
  <2>8. ConnectedKept'
    BY <1>0, <2>a1, <2>a2, <2>a3, <2>a4, <2>a5, <2>a6, <2>a7 DEF ConnectedKept
  <2> QED
    BY <2>1, <2>2, <2>3, <2>4, <2>5, <2>6, <2>7, <2>8 DEF SessionInv
<1>40. ASSUME NEW w \in Jobs, GiveUpDrop(w) PROVE SessionInv'
  <2> USE <1>40 DEF GiveUpDrop, RecoveryTo, Failed, recVars, uiVars, osVars, DropConnected
  <2>a1. UNCHANGED <<stage, svc, bpc, spc, wd, eng, pending, pumps, openTuns, osTun, made>>
    OBVIOUS
  <2>a2. rpc[w] = "drop"
    OBVIOUS
  <2>a3. \A j \in Jobs : bpc[j] \notin Opening
    BY <1>0, <2>a2 DEF OpeningAlone
  <2>a4. rpc'[w] = "lock" /\ \A v \in Jobs : v # w => rpc'[v] = rpc[v]
    BY <1>0
  <2>a5. \A v \in Jobs : v # w => rpc[v] = "none"
    BY <1>0, <2>a2 DEF OneWatchdog, Watching
  <2>a6. \A j \in Jobs : bpc[j] \notin Starting
    BY <1>0, <2>a2 DEF Apart, Asked, Rested
  <2>a7. connected' = FALSE
    OBVIOUS
  <2> HIDE <1>40 DEF GiveUpDrop, RecoveryTo, Failed, recVars, uiVars, osVars, DropConnected
  <2>1. OpeningAlone'
    BY <1>0, <2>a1, <2>a2, <2>a3, <2>a4, <2>a5, <2>a6, <2>a7 DEF OpeningAlone, Opening
  <2>2. TornDown'
    BY <1>0, <2>a1, <2>a2, <2>a3, <2>a4, <2>a5, <2>a6, <2>a7 DEF TornDown
  <2>3. StageHonest'
    BY <1>0, <2>a1, <2>a2, <2>a3, <2>a4, <2>a5, <2>a6, <2>a7 DEF StageHonest
  <2>4. OneWatchdog'
    BY <1>0, <2>a1, <2>a2, <2>a3, <2>a4, <2>a5, <2>a6, <2>a7 DEF OneWatchdog, Watching
  <2>5. Held'
    BY <1>0, <2>a1, <2>a2, <2>a3, <2>a4, <2>a5, <2>a6, <2>a7 DEF Held, Assigning
  <2>6. EngineHeld'
    BY <1>0, <2>a1, <2>a2, <2>a3, <2>a4, <2>a5, <2>a6, <2>a7 DEF EngineHeld
  <2>7. Carried'
    BY <1>0, <2>a1, <2>a2, <2>a3, <2>a4, <2>a5, <2>a6, <2>a7 DEF Carried, OnTun, Settled
  <2>8. ConnectedKept'
    BY <1>0, <2>a1, <2>a2, <2>a3, <2>a4, <2>a5, <2>a6, <2>a7 DEF ConnectedKept
  <2> QED
    BY <2>1, <2>2, <2>3, <2>4, <2>5, <2>6, <2>7, <2>8 DEF SessionInv
<1>41. ASSUME NEW w \in Jobs, GiveUpTeardown(w) PROVE SessionInv'
  <2> USE <1>41 DEF GiveUpTeardown, RecoveryTo, recVars, uiVars, osVars
  <2>a1. UNCHANGED <<stage, connected, bpc, spc, pending>>
    OBVIOUS
  <2>a2. rpc[w] = "lock"
    OBVIOUS
  <2>a3. \A j \in Jobs : bpc[j] \notin Opening
    BY <1>0, <2>a2 DEF OpeningAlone
  <2>a4. /\ svc'.tun = None /\ svc'.engine = None /\ svc'.watchdog = None
         /\ openTuns' = {} /\ osTun' = None /\ pumps' = {}
         /\ \A e \in Jobs : eng'[e].pair = NoPair
         /\ \A v \in Jobs : ~wd'[v].observing /\ wd'[v].reconnecting = wd[v].reconnecting
    <3>1. ~Assigning
      BY <1>0, <2>a2, <2>a3 DEF Assigning, OneWatchdog, Watching, Opening
    <3> QED
      BY <1>0, <3>1, TeardownFacts
  <2>a5. rpc'[w] = "error" /\ \A v \in Jobs : v # w => rpc'[v] = rpc[v]
    BY <1>0
  <2> HIDE <1>41 DEF GiveUpTeardown, RecoveryTo, recVars, uiVars, osVars
  <2>1. OpeningAlone'
    BY <1>0, <2>a1, <2>a2, <2>a3, <2>a4, <2>a5 DEF OpeningAlone, Opening
  <2>2. TornDown'
    BY <1>0, <2>a1, <2>a2, <2>a3, <2>a4, <2>a5 DEF TornDown
  <2>3. StageHonest'
    BY <1>0, <2>a1, <2>a2, <2>a3, <2>a4, <2>a5 DEF StageHonest
  <2>4. OneWatchdog'
    BY <1>0, <2>a1, <2>a2, <2>a3, <2>a4, <2>a5 DEF OneWatchdog, Watching
  <2>5. Held'
    BY <1>0, <2>a1, <2>a2, <2>a3, <2>a4, <2>a5 DEF Held, Assigning
  <2>6. EngineHeld'
    BY <1>0, <2>a1, <2>a2, <2>a3, <2>a4, <2>a5 DEF EngineHeld
  <2>7. Carried'
    BY <1>0, <2>a1, <2>a2, <2>a3, <2>a4, <2>a5 DEF Carried, OnTun, Settled
  <2>8. ConnectedKept'
    BY <1>0, <2>a1, <2>a2, <2>a3, <2>a4, <2>a5 DEF ConnectedKept
  <2> QED
    BY <2>1, <2>2, <2>3, <2>4, <2>5, <2>6, <2>7, <2>8 DEF SessionInv
<1>42. ASSUME NEW w \in Jobs, GiveUpPublish(w) PROVE SessionInv'
  <2> USE <1>42 DEF GiveUpPublish, RecoveryTo, Failed, recVars, uiVars, osVars
  <2>a1. UNCHANGED <<connected, svc, bpc, spc, wd, eng, pending, pumps, openTuns, osTun, made>>
    OBVIOUS
  <2>a2. rpc[w] = "error"
    OBVIOUS
  <2>a3. \A j \in Jobs : bpc[j] \notin Opening
    BY <1>0, <2>a2 DEF OpeningAlone
  <2>a4. rpc'[w] = "end" /\ \A v \in Jobs : v # w => rpc'[v] = rpc[v]
    BY <1>0
  <2>a5. \A v \in Jobs : v # w => rpc[v] = "none"
    BY <1>0, <2>a2 DEF OneWatchdog, Watching
  <2>a6. \A j \in Jobs : bpc[j] \notin Starting
    BY <1>0, <2>a2 DEF Apart, Asked, Rested
  <2>a7. stage' = "ERROR"
    OBVIOUS
  <2>a8. svc.tun = None
    BY <1>0, <2>a2 DEF TornDown
  <2> HIDE <1>42 DEF GiveUpPublish, RecoveryTo, Failed, recVars, uiVars, osVars
  <2>1. OpeningAlone'
    BY <1>0, <2>a1, <2>a2, <2>a3, <2>a4, <2>a5, <2>a6, <2>a7, <2>a8 DEF OpeningAlone, Opening
  <2>2. TornDown'
    BY <1>0, <2>a1, <2>a2, <2>a3, <2>a4, <2>a5, <2>a6, <2>a7, <2>a8 DEF TornDown
  <2>3. StageHonest'
    BY <1>0, <2>a1, <2>a2, <2>a3, <2>a4, <2>a5, <2>a6, <2>a7, <2>a8 DEF StageHonest, Starting
  <2>4. OneWatchdog'
    BY <1>0, <2>a1, <2>a2, <2>a3, <2>a4, <2>a5, <2>a6, <2>a7, <2>a8 DEF OneWatchdog, Watching
  <2>5. Held'
    BY <1>0, <2>a1, <2>a2, <2>a3, <2>a4, <2>a5, <2>a6, <2>a7, <2>a8 DEF Held, Assigning
  <2>6. EngineHeld'
    BY <1>0, <2>a1, <2>a2, <2>a3, <2>a4, <2>a5, <2>a6, <2>a7, <2>a8 DEF EngineHeld
  <2>7. Carried'
    BY <1>0, <2>a1, <2>a2, <2>a3, <2>a4, <2>a5, <2>a6, <2>a7, <2>a8 DEF Carried, OnTun, Settled
  <2>8. ConnectedKept'
    BY <1>0, <2>a1, <2>a2, <2>a3, <2>a4, <2>a5, <2>a6, <2>a7, <2>a8 DEF ConnectedKept
  <2> QED
    BY <2>1, <2>2, <2>3, <2>4, <2>5, <2>6, <2>7, <2>8 DEF SessionInv
<1>43. ASSUME NEW w \in Jobs, RecoveryEnd(w) PROVE SessionInv'
  <2> USE <1>43 DEF RecoveryEnd, RecoveryTo, recVars, uiVars, osVars
  <2>a1. UNCHANGED <<stage, connected, svc, bpc, spc, eng, pending, pumps, openTuns, osTun, made>>
    OBVIOUS
  <2>a2. rpc[w] = "end"
    OBVIOUS
  <2>a3. \A j \in Jobs : bpc[j] \notin Opening
    BY <1>0, <2>a2 DEF OpeningAlone
  <2>a4. rpc'[w] = "none" /\ \A v \in Jobs : v # w => rpc'[v] = rpc[v]
    BY <1>0
  <2>a5. /\ wd'[w].observing = wd[w].observing
         /\ \A v \in Jobs : v # w => wd'[v] = wd[v]
    <3> DEFINE ended == [wd[w] EXCEPT !.reconnecting = FALSE]
    <3>1. wd' = [wd EXCEPT ![w] = ended] /\ wd[w] \in WatchdogRec
      BY <1>0
    <3>2. ended.observing = wd[w].observing
      BY <3>1 DEF WatchdogRec
    <3> HIDE DEF ended
    <3> QED
      BY <1>0, <3>1, <3>2
  <2> HIDE <1>43 DEF RecoveryEnd, RecoveryTo, recVars, uiVars, osVars
  <2>1. OpeningAlone'
    BY <1>0, <2>a1, <2>a2, <2>a3, <2>a4, <2>a5 DEF OpeningAlone, Opening
  <2>2. TornDown'
    BY <1>0, <2>a1, <2>a2, <2>a3, <2>a4, <2>a5 DEF TornDown
  <2>3. StageHonest'
    BY <1>0, <2>a1, <2>a2, <2>a3, <2>a4, <2>a5 DEF StageHonest
  <2>4. OneWatchdog'
    BY <1>0, <2>a1, <2>a2, <2>a3, <2>a4, <2>a5 DEF OneWatchdog, Watching
  <2>5. Held'
    BY <1>0, <2>a1, <2>a2, <2>a3, <2>a4, <2>a5 DEF Held, Assigning
  <2>6. EngineHeld'
    BY <1>0, <2>a1, <2>a2, <2>a3, <2>a4, <2>a5 DEF EngineHeld
  <2>7. Carried'
    BY <1>0, <2>a1, <2>a2, <2>a3, <2>a4, <2>a5 DEF Carried, OnTun, Settled
  <2>8. ConnectedKept'
    BY <1>0, <2>a1, <2>a2, <2>a3, <2>a4, <2>a5 DEF ConnectedKept
  <2> QED
    BY <2>1, <2>2, <2>3, <2>4, <2>5, <2>6, <2>7, <2>8 DEF SessionInv
<1>44. ASSUME NEW e \in Jobs, EngineDies(e) PROVE SessionInv'
  <2> USE <1>44 DEF EngineDies, recVars, uiVars, osVars
  <2>a1. UNCHANGED <<stage, connected, svc, bpc, spc, wd, rpc, pending, pumps, openTuns, osTun, made>>
    OBVIOUS
  <2>a2. /\ eng'[e].pair = NoPair
         /\ \A d \in Jobs : d # e => eng'[d] = eng[d]
    <3> DEFINE dead == [eng[e] EXCEPT !.pair = NoPair, !.loop = NoPair]
    <3>1. eng' = [eng EXCEPT ![e] = dead] /\ eng[e] \in EngineRec
      BY <1>0
    <3>2. dead.pair = NoPair
      BY <3>1 DEF EngineRec
    <3> HIDE DEF dead
    <3> QED
      BY <1>0, <3>1, <3>2
  <2> HIDE <1>44 DEF EngineDies, recVars, uiVars, osVars
  <2>1. OpeningAlone'
    BY <1>0, <2>a1, <2>a2 DEF OpeningAlone, Opening
  <2>2. TornDown'
    BY <1>0, <2>a1, <2>a2 DEF TornDown
  <2>3. StageHonest'
    BY <1>0, <2>a1, <2>a2 DEF StageHonest
  <2>4. OneWatchdog'
    BY <1>0, <2>a1, <2>a2 DEF OneWatchdog, Watching
  <2>5. Held'
    BY <1>0, <2>a1, <2>a2 DEF Held, Assigning
  <2>6. EngineHeld'
    BY <1>0, <2>a1, <2>a2 DEF EngineHeld
  <2>7. Carried'
    BY <1>0, <2>a1, <2>a2 DEF Carried, OnTun, Settled
  <2>8. ConnectedKept'
    BY <1>0, <2>a1, <2>a2 DEF ConnectedKept
  <2> QED
    BY <2>1, <2>2, <2>3, <2>4, <2>5, <2>6, <2>7, <2>8 DEF SessionInv
<1>45. ASSUME NEW e \in Jobs, EngineLost(e) PROVE SessionInv'
  <2> USE <1>45 DEF EngineLost, recVars, uiVars, osVars
  <2>a1. UNCHANGED <<stage, connected, svc, bpc, spc, wd, rpc, pending, pumps, openTuns, osTun, made>>
    OBVIOUS
  <2>a2. /\ eng'[e].pair = NoPair
         /\ \A d \in Jobs : d # e => eng'[d] = eng[d]
    <3> DEFINE lost == [eng[e] EXCEPT !.state = "Crashed"]
    <3>1. eng' = [eng EXCEPT ![e] = lost] /\ eng[e] \in EngineRec /\ eng[e].pair = NoPair
      BY <1>0
    <3>2. lost.pair = NoPair
      BY <3>1 DEF EngineRec
    <3> HIDE DEF lost
    <3> QED
      BY <1>0, <3>1, <3>2
  <2> HIDE <1>45 DEF EngineLost, recVars, uiVars, osVars
  <2>1. OpeningAlone'
    BY <1>0, <2>a1, <2>a2 DEF OpeningAlone, Opening
  <2>2. TornDown'
    BY <1>0, <2>a1, <2>a2 DEF TornDown
  <2>3. StageHonest'
    BY <1>0, <2>a1, <2>a2 DEF StageHonest
  <2>4. OneWatchdog'
    BY <1>0, <2>a1, <2>a2 DEF OneWatchdog, Watching
  <2>5. Held'
    BY <1>0, <2>a1, <2>a2 DEF Held, Assigning
  <2>6. EngineHeld'
    BY <1>0, <2>a1, <2>a2 DEF EngineHeld
  <2>7. Carried'
    BY <1>0, <2>a1, <2>a2 DEF Carried, OnTun, Settled
  <2>8. ConnectedKept'
    BY <1>0, <2>a1, <2>a2 DEF ConnectedKept
  <2> QED
    BY <2>1, <2>2, <2>3, <2>4, <2>5, <2>6, <2>7, <2>8 DEF SessionInv
<1>46. ASSUME NEW s \in StopJobs, Revoke(s) PROVE SessionInv'
  <2> USE <1>46 DEF Revoke, recVars, uiVars, osVars
  <2>a1. UNCHANGED <<stage, connected, svc, bpc, wd, rpc, eng, pending, pumps, openTuns, made>> /\ osTun' = None
    OBVIOUS
  <2>a2. spc[s] = "none"
    OBVIOUS
  <2>a3. spc'[s] = "drop" /\ \A t \in StopJobs : t # s => spc'[t] = spc[t]
    BY <1>0
  <2> HIDE <1>46 DEF Revoke, recVars, uiVars, osVars
  <2>1. OpeningAlone'
    BY <1>0, <2>a1, <2>a2, <2>a3 DEF OpeningAlone, Opening
  <2>2. TornDown'
    BY <1>0, <2>a1, <2>a2, <2>a3 DEF TornDown
  <2>3. StageHonest'
    BY <1>0, <2>a1, <2>a2, <2>a3 DEF StageHonest
  <2>4. OneWatchdog'
    BY <1>0, <2>a1, <2>a2, <2>a3 DEF OneWatchdog, Watching
  <2>5. Held'
    BY <1>0, <2>a1, <2>a2, <2>a3 DEF Held, Assigning
  <2>6. EngineHeld'
    BY <1>0, <2>a1, <2>a2, <2>a3 DEF EngineHeld
  <2>7. Carried'
    BY <1>0, <2>a1, <2>a2, <2>a3 DEF Carried, OnTun, Settled
  <2>8. ConnectedKept'
    BY <1>0, <2>a1, <2>a2, <2>a3 DEF ConnectedKept
  <2> QED
    BY <2>1, <2>2, <2>3, <2>4, <2>5, <2>6, <2>7, <2>8 DEF SessionInv
<1>47. ASSUME NEW r \in pumps, PumpFault(r) PROVE SessionInv'
  <2> USE <1>47 DEF PumpFault, recVars, uiVars, osVars
  <2>a1. UNCHANGED <<stage, connected, svc, bpc, spc, wd, rpc, eng, pumps, openTuns, osTun, made>>
    OBVIOUS
  <2>a2. connected /\ svc.watchdog \in Jobs /\ pending' = pending \cup {svc.watchdog}
    BY <1>0 DEF SvcRec
  <2> HIDE <1>47 DEF PumpFault, recVars, uiVars, osVars
  <2>1. OpeningAlone'
    BY <1>0, <2>a1, <2>a2 DEF OpeningAlone, Opening
  <2>2. TornDown'
    BY <1>0, <2>a1, <2>a2 DEF TornDown
  <2>3. StageHonest'
    BY <1>0, <2>a1, <2>a2 DEF StageHonest
  <2>4. OneWatchdog'
    BY <1>0, <2>a1, <2>a2 DEF OneWatchdog, Watching
  <2>5. Held'
    BY <1>0, <2>a1, <2>a2 DEF Held, Assigning
  <2>6. EngineHeld'
    BY <1>0, <2>a1, <2>a2 DEF EngineHeld
  <2>7. Carried'
    BY <1>0, <2>a1, <2>a2 DEF Carried, OnTun, Settled
  <2>8. ConnectedKept'
    BY <1>0, <2>a1, <2>a2 DEF ConnectedKept
  <2> QED
    BY <2>1, <2>2, <2>3, <2>4, <2>5, <2>6, <2>7, <2>8 DEF SessionInv
<1>48. ASSUME NEW r \in pumps, NEW s \in StopJobs, PumpTunLost(r, s) PROVE SessionInv'
  <2> USE <1>48 DEF PumpTunLost, recVars, uiVars, osVars
  <2>a1. UNCHANGED <<stage, connected, svc, bpc, wd, rpc, eng, pending, openTuns, osTun, made>>
    OBVIOUS
  <2>a2. pumps' = pumps \ {r} /\ spc[s] = "none"
    OBVIOUS
  <2>a3. spc'[s] = "drop" /\ \A t \in StopJobs : t # s => spc'[t] = spc[t]
    BY <1>0
  <2> HIDE <1>48 DEF PumpTunLost, recVars, uiVars, osVars
  <2>1. OpeningAlone'
    BY <1>0, <2>a1, <2>a2, <2>a3 DEF OpeningAlone, Opening
  <2>2. TornDown'
    BY <1>0, <2>a1, <2>a2, <2>a3 DEF TornDown
  <2>3. StageHonest'
    BY <1>0, <2>a1, <2>a2, <2>a3 DEF StageHonest
  <2>4. OneWatchdog'
    BY <1>0, <2>a1, <2>a2, <2>a3 DEF OneWatchdog, Watching
  <2>5. Held'
    BY <1>0, <2>a1, <2>a2, <2>a3 DEF Held, Assigning
  <2>6. EngineHeld'
    BY <1>0, <2>a1, <2>a2, <2>a3 DEF EngineHeld
  <2>7. Carried'
    BY <1>0, <2>a1, <2>a2, <2>a3 DEF Carried, OnTun, Settled
  <2>8. ConnectedKept'
    BY <1>0, <2>a1, <2>a2, <2>a3 DEF ConnectedKept
  <2> QED
    BY <2>1, <2>2, <2>3, <2>4, <2>5, <2>6, <2>7, <2>8 DEF SessionInv
<1>49. ASSUME UNCHANGED vars PROVE SessionInv'
  <2> USE <1>49 DEF vars
  <2>a1. UNCHANGED <<stage, connected, svc, bpc, spc, wd, rpc, eng, pending, pumps, openTuns, osTun, made>>
    OBVIOUS
  <2> HIDE <1>49 DEF vars
  <2>1. OpeningAlone'
    BY <1>0, <2>a1 DEF OpeningAlone, Opening
  <2>2. TornDown'
    BY <1>0, <2>a1 DEF TornDown
  <2>3. StageHonest'
    BY <1>0, <2>a1 DEF StageHonest
  <2>4. OneWatchdog'
    BY <1>0, <2>a1 DEF OneWatchdog, Watching
  <2>5. Held'
    BY <1>0, <2>a1 DEF Held, Assigning
  <2>6. EngineHeld'
    BY <1>0, <2>a1 DEF EngineHeld
  <2>7. Carried'
    BY <1>0, <2>a1 DEF Carried, OnTun, Settled
  <2>8. ConnectedKept'
    BY <1>0, <2>a1 DEF ConnectedKept
  <2> QED
    BY <2>1, <2>2, <2>3, <2>4, <2>5, <2>6, <2>7, <2>8 DEF SessionInv
<1>50. ASSUME NEW j \in Jobs, Establish(j) PROVE SessionInv'
  BY <1>50, <1>14, <1>15 DEF Establish
<1>51. ASSUME NEW j \in Jobs, PlumbEngine(j) PROVE SessionInv'
  <2> DEFINE e == IF svc.engine = None THEN j ELSE svc.engine
  <2>1. e \in Jobs
    BY <1>0 DEF SvcRec
  <2> QED
    BY <1>51, <2>1, <1>16, <1>17 DEF PlumbEngine
<1>55. ASSUME DispatchDrops PROVE SessionInv'
  <2> USE <1>55 DEF DispatchDrops, recVars, uiVars, osVars
  <2>a1. UNCHANGED <<stage, connected, svc, bpc, spc, wd, rpc, eng, pending, pumps, openTuns, osTun, made>>
    OBVIOUS
  <2> HIDE <1>55 DEF DispatchDrops, recVars, uiVars, osVars
  <2>1. OpeningAlone'
    BY <1>0, <2>a1 DEF OpeningAlone, Opening
  <2>2. TornDown'
    BY <1>0, <2>a1 DEF TornDown
  <2>3. StageHonest'
    BY <1>0, <2>a1 DEF StageHonest
  <2>4. OneWatchdog'
    BY <1>0, <2>a1 DEF OneWatchdog, Watching
  <2>5. Held'
    BY <1>0, <2>a1 DEF Held, Assigning
  <2>6. EngineHeld'
    BY <1>0, <2>a1 DEF EngineHeld
  <2>7. Carried'
    BY <1>0, <2>a1 DEF Carried, OnTun, Settled
  <2>8. ConnectedKept'
    BY <1>0, <2>a1 DEF ConnectedKept
  <2> QED
    BY <2>1, <2>2, <2>3, <2>4, <2>5, <2>6, <2>7, <2>8 DEF SessionInv
<1>56. ASSUME NEW j \in Jobs, RouterUp(j) PROVE SessionInv'
  <2> USE <1>56 DEF RouterUp, To, recVars, uiVars, osVars
  <2>a1. UNCHANGED <<stage, connected, spc, wd, rpc, eng, pending, pumps, openTuns, osTun>>
    OBVIOUS
  <2>a2. bpc[j] = "assign" /\ \A k \in Jobs : k # j => bpc[k] \in {"none", "done"}
    BY <1>0 DEF Apart
  <2>a3. bpc'[j] = "check" /\ \A k \in Jobs : k # j => bpc'[k] = bpc[k]
    BY <1>0
  <2>a4. /\ svc'.tun = svc.tun /\ svc'.watchdog = svc.watchdog /\ svc'.engine = svc.engine
         /\ svc'.routerEnd = svc.routerEnd /\ svc'.router = made[<<"bringUp", j>>]
    BY <1>0, AssignTyped DEF Starters
  <2>a5. ~connected /\ pending = {} /\ \A w \in Jobs : rpc[w] = "none" /\ ~wd[w].observing
    BY <1>0, <2>a2 DEF OpeningAlone, Opening
  <2>a6. svc.tun \in {None, j}
    BY <1>0, <2>a2 DEF OpeningAlone, Opening
  <2> HIDE <1>56 DEF RouterUp, To, recVars, uiVars, osVars
  <2>1. OpeningAlone'
    BY <1>0, <2>a1, <2>a2, <2>a3, <2>a4, <2>a5, <2>a6 DEF OpeningAlone, Opening
  <2>2. TornDown'
    BY <1>0, <2>a1, <2>a2, <2>a3, <2>a4, <2>a5, <2>a6 DEF TornDown
  <2>3. StageHonest'
    BY <1>0, <2>a1, <2>a2, <2>a3, <2>a4, <2>a5, <2>a6 DEF StageHonest
  <2>4. OneWatchdog'
    BY <1>0, <2>a1, <2>a2, <2>a3, <2>a4, <2>a5, <2>a6 DEF OneWatchdog, Watching
  <2>5. Held'
    BY <1>0, <2>a1, <2>a2, <2>a3, <2>a4, <2>a5, <2>a6 DEF Held, Assigning
  <2>6. EngineHeld'
    BY <1>0, <2>a1, <2>a2, <2>a3, <2>a4, <2>a5, <2>a6 DEF EngineHeld
  <2>7. Carried'
    BY <1>0, <2>a1, <2>a2, <2>a3, <2>a4, <2>a5, <2>a6 DEF Carried, OnTun, Settled
  <2>8. ConnectedKept'
    BY <1>0, <2>a1, <2>a2, <2>a3, <2>a4, <2>a5, <2>a6 DEF ConnectedKept
  <2> QED
    BY <2>1, <2>2, <2>3, <2>4, <2>5, <2>6, <2>7, <2>8 DEF SessionInv
<1>57. ASSUME NEW w \in Jobs, ReconnectRouter(w) PROVE SessionInv'
  <2> USE <1>57 DEF ReconnectRouter, RecoveryTo, recVars, uiVars, osVars
  <2>a1. UNCHANGED <<stage, connected, bpc, spc, wd, eng, pending, pumps, openTuns, osTun>>
    OBVIOUS
  <2>a2. rpc[w] = "assign"
    OBVIOUS
  <2>a3. \A j \in Jobs : bpc[j] \notin Opening
    BY <1>0, <2>a2 DEF OpeningAlone
  <2>a4. rpc'[w] = "result" /\ \A v \in Jobs : v # w => rpc'[v] = rpc[v]
    BY <1>0
  <2>a5. /\ svc'.tun = svc.tun /\ svc'.watchdog = svc.watchdog /\ svc'.engine = svc.engine
         /\ svc'.routerEnd = svc.routerEnd /\ svc'.router = made[<<"reconnectEngine", w>>]
    BY <1>0, AssignTyped DEF Starters
  <2>a6. \A v \in Jobs : v # w => rpc[v] = "none"
    BY <1>0, <2>a2 DEF OneWatchdog, Watching
  <2> HIDE <1>57 DEF ReconnectRouter, RecoveryTo, recVars, uiVars, osVars
  <2>1. OpeningAlone'
    BY <1>0, <2>a1, <2>a2, <2>a3, <2>a4, <2>a5, <2>a6 DEF OpeningAlone, Opening
  <2>2. TornDown'
    BY <1>0, <2>a1, <2>a2, <2>a3, <2>a4, <2>a5, <2>a6 DEF TornDown
  <2>3. StageHonest'
    BY <1>0, <2>a1, <2>a2, <2>a3, <2>a4, <2>a5, <2>a6 DEF StageHonest
  <2>4. OneWatchdog'
    BY <1>0, <2>a1, <2>a2, <2>a3, <2>a4, <2>a5, <2>a6 DEF OneWatchdog, Watching
  <2>5. Held'
    BY <1>0, <2>a1, <2>a2, <2>a3, <2>a4, <2>a5, <2>a6 DEF Held, Assigning, Opening
  <2>6. EngineHeld'
    BY <1>0, <2>a1, <2>a2, <2>a3, <2>a4, <2>a5, <2>a6 DEF EngineHeld
  <2>7. Carried'
    BY <1>0, <2>a1, <2>a2, <2>a3, <2>a4, <2>a5, <2>a6 DEF Carried, OnTun, Settled, Opening
  <2>8. ConnectedKept'
    BY <1>0, <2>a1, <2>a2, <2>a3, <2>a4, <2>a5, <2>a6 DEF ConnectedKept
  <2> QED
    BY <2>1, <2>2, <2>3, <2>4, <2>5, <2>6, <2>7, <2>8 DEF SessionInv
<1>52. ASSUME NEW j \in Jobs, BringUpStep(j) PROVE SessionInv'
  BY <1>52, <1>50, <1>51, <1>12, <1>13, <1>23, <1>22, <1>24, <1>25, <1>26, <1>27, <1>28, <1>29,
     <1>18, <1>19, <1>20, <1>21, <1>56
     DEF BringUpStep
<1>53. ASSUME NEW w \in Jobs, ReconnectEngine(w) PROVE SessionInv'
  <2> DEFINE e == IF svc.engine = None THEN w ELSE svc.engine
  <2>1. e \in Jobs
    BY <1>0 DEF SvcRec
  <2> QED
    BY <1>53, <2>1, <1>34, <1>35 DEF ReconnectEngine
<1>54. ASSUME NEW w \in Jobs, WatchdogStep(w) PROVE SessionInv'
  BY <1>54, <1>53, <1>30, <1>31, <1>32, <1>33, <1>36, <1>37, <1>38, <1>39, <1>40, <1>41, <1>42,
     <1>43, <1>57
     DEF WatchdogStep, RecoveryStep
<1> QED
  BY <1>52, <1>54, <1>1, <1>2, <1>3, <1>4, <1>5, <1>6, <1>8, <1>44, <1>45, <1>7, <1>9, <1>10,
     <1>11, <1>46, <1>47, <1>48, <1>49, <1>55
     DEF Next, ApplyStep, StopStep, Traffic, TunReadFails

\* The initial states satisfy SessionInv.
LEMMA InitSessionInv == Init => SessionInv
<1> SUFFICES ASSUME Init PROVE SessionInv
  OBVIOUS
<1>1. /\ svc.tun = None /\ svc.watchdog = None /\ pumps = {} /\ openTuns = {} /\ pending = {}
      /\ osTun = None
      /\ \A j \in Jobs : bpc[j] = "none" /\ rpc[j] = "none" /\ ~wd[j].observing
      /\ \A j \in Jobs : eng[j].pair = NoPair
      /\ \A s \in StopJobs : spc[s] = "none"
  BY DEF Init, NoSvc, NoWd, NoEng
<1>2. OpeningAlone /\ TornDown /\ StageHonest
  BY <1>1 DEF OpeningAlone, Opening, TornDown, StageHonest
<1>3. OneWatchdog /\ Held /\ EngineHeld
  BY <1>1, JobsAssumption DEF OneWatchdog, Watching, Held, EngineHeld
<1>4. Carried /\ ConnectedKept
  BY <1>1, JobsAssumption DEF Carried, OnTun, ConnectedKept
<1> QED
  BY <1>2, <1>3, <1>4 DEF SessionInv

\* SessionInv holds as long as sessions do not overlap.
LEMMA AlwaysSessionInv == Spec /\ []Apart => [](IInv /\ SessionInv)
  BY InitSessionInv, StepSessionInv, AlwaysIInv, PTL DEF Spec

\* Nothing open is outside the fields, no field is set under a resting stage,
\* and a router at rest is on the tun the OS routes through.
LEMMA RestHolds == IInv /\ SessionInv => DownMeansUnrouted
<1> SUFFICES ASSUME IInv, SessionInv, Quiet, stage \in {"IDLE", "ERROR"}
             PROVE  svc.tun = None /\ openTuns = {} /\ pumps = {}
  BY DEF DownMeansUnrouted
<1>1. svc.tun = None
  BY DEF SessionInv, StageHonest
<1>2. openTuns = {} /\ osTun = None
  BY <1>1, JobsAssumption DEF SessionInv, Held, IInv, TypeOK, TypeWorld
<1>3. \A r \in pumps : r.tun = None /\ r.tun \in Jobs
  BY <1>2 DEF Quiet, IInv, TypeOK, TypeWorld, Routers
<1> QED
  BY <1>1, <1>2, <1>3, JobsAssumption

\* At rest the router of the tun is there, since no stop is under way, and so
\* is the engine's end of its socketpair, since no fault is left to report.
LEMMA BridgeHolds == IInv /\ SessionInv => BridgeWhole
<1> SUFFICES ASSUME IInv, SessionInv, Quiet, svc.tun # None
             PROVE  /\ pumps = {svc.router}
                    /\ svc.router.tun = svc.tun /\ svc.router.pair = svc.routerEnd
                    /\ svc.engine # None
                    /\ eng[svc.engine].state = "Running" /\ eng[svc.engine].pair = svc.routerEnd
  BY DEF BridgeWhole
<1>1. svc.tun \in Jobs /\ eng \in [Jobs -> EngineRec]
  BY DEF IInv, TypeOK, TypeSvc, SvcRec, TypeWorld
<1>2. /\ \A j \in Jobs : bpc[j] \in {"none", "done"} /\ rpc[j] = "none"
      /\ \A s \in StopJobs : spc[s] \in {"none", "done"}
      /\ \A q \in pumps : ~(connected /\ Severed(q.pair))
  BY DEF Quiet
<1>3. bpc[svc.tun] = "done"
  BY <1>1, <1>2 DEF IInv, TunsFresh
<1>4. /\ svc.engine # None /\ svc.routerEnd # NoPair /\ svc.router \in pumps
      /\ svc.router.tun = svc.tun /\ svc.router.pair = svc.routerEnd
  BY <1>1, <1>2, <1>3 DEF SessionInv, Carried, Settled, OnTun
<1>5. connected
  BY <1>1, <1>2, <1>3 DEF SessionInv, ConnectedKept
<1>6. pumps = {svc.router}
  BY <1>2, <1>4 DEF SessionInv, Held, Assigning
<1>7. ~Severed(svc.routerEnd)
  BY <1>2, <1>4, <1>5
<1>8. PICK e \in Jobs : eng[e].pair = svc.routerEnd
  BY <1>7 DEF Severed
<1>9. e = svc.engine /\ eng[e].state = "Running"
  BY <1>4, <1>8 DEF SessionInv, EngineHeld
<1> QED
  BY <1>4, <1>6, <1>8, <1>9

\* While sessions do not overlap IDLE and ERROR at rest mean what they say,
\* however stops, revocations, failures and give-ups of a session interleave:
\* each of them publishes after it has torn down.
THEOREM DownMeansUnroutedApart == Spec /\ []Apart => []DownMeansUnrouted
  BY AlwaysSessionInv, RestHolds, PTL

\* While sessions do not overlap a tun at rest is bridged: one router runs, on
\* the socketpair whose other end the running engine holds, whatever number of
\* engine losses and re-plumbings came before.
THEOREM BridgeWholeApart == Spec /\ []Apart => []BridgeWhole
  BY AlwaysSessionInv, BridgeHolds, PTL

-----------------------------------------------------------------------------
(***************************************************************************)
(* One session under the stage guards is apart from others.                *)
(***************************************************************************)

\* With one bring-up, a connect is let through only before it, and only once.
LEMMA OneConnect ==
  ASSUME NEW j0, Jobs = {j0}, inbox \in Seq({"CONNECT", "STOP"}), MoreConnects
  PROVE  bpc[j0] = "none" /\ ~ConnectQueued
<1> DEFINE Q == {i \in DOMAIN inbox : inbox[i] = "CONNECT"}
           U == {j \in Jobs : bpc[j] = "none"}
<1>1. Cardinality(U) > Cardinality(Q)
  BY DEF MoreConnects, Queued
<1>2. IsFiniteSet(Q)
  <2>1. Q \subseteq 1 .. Len(inbox) /\ Len(inbox) \in Nat
    OBVIOUS
  <2>2. IsFiniteSet(1 .. Len(inbox))
    BY <2>1, FS_Interval
  <2> QED
    BY <2>1, <2>2, FS_Subset
<1>3. Cardinality(Q) \in Nat /\ (Cardinality(Q) = 0 <=> Q = {})
  BY <1>2, FS_CardinalityType, FS_EmptySet
<1>4. U = {} \/ U = {j0}
  OBVIOUS
<1>5. Cardinality({}) = 0 /\ Cardinality({j0}) = 1
  BY FS_EmptySet, FS_Singleton
<1> HIDE DEF Q, U
<1>6. (U = {} => Cardinality(U) = 0) /\ (U = {j0} => Cardinality(U) = 1)
  BY <1>5
<1>7. U = {j0} /\ Q = {}
  BY <1>1, <1>3, <1>4, <1>6
<1> QED
  BY <1>7 DEF Q, U, ConnectQueued

\* What a command adds to the queue ...
LEMMA Sent ==
  ASSUME NEW c \in {"CONNECT", "STOP"}, inbox \in Seq({"CONNECT", "STOP"}),
         inbox' = Append(inbox, c)
  PROVE  \A i \in DOMAIN inbox' :
            \/ i \in DOMAIN inbox /\ inbox'[i] = inbox[i]
            \/ i = Len(inbox) + 1 /\ inbox'[i] = c
  OBVIOUS

\* ... and the main thread takes from it.
LEMMA Taken ==
  ASSUME inbox \in Seq({"CONNECT", "STOP"}), inbox # <<>>, inbox' = Tail(inbox)
  PROVE  /\ 1 \in DOMAIN inbox /\ Head(inbox) = inbox[1]
         /\ \A i \in DOMAIN inbox' :
               i \in Nat /\ i # 0 /\ i + 1 \in DOMAIN inbox /\ inbox'[i] = inbox[i + 1]
  OBVIOUS

\* With one bring-up and the stage guards every step preserves LoneSession.
LEMMA StepLoneSession ==
  ASSUME Guarded, NEW j0, Jobs = {j0}
  PROVE  IInv /\ LoneSession /\ [Next]_vars => LoneSession'
<1> SUFFICES ASSUME IInv, LoneSession, [Next]_vars PROVE LoneSession'
  OBVIOUS
<1>0. /\ Guarded /\ Jobs = {j0} /\ LoneQuiet /\ LoneQueue /\ TunsFresh
      /\ inbox \in Seq({"CONNECT", "STOP"}) /\ bpc \in [Jobs -> BringUpPcs]
      /\ apply \in [pc : {"idle", "validate", "wait"}, cfg : Cfg \cup {None}]
      /\ osTun \in Jobs \cup {None} /\ pumps \subseteq Routers
  BY DEF LoneSession, IInv, TypeOK, TypeUi, TypeJobs, TypeWorld
<1>1. ASSUME NEW p \in Proxies, ApplyStart(p) PROVE LoneSession'
  <2> USE <1>1 DEF ApplyStart, recVars, uiVars, osVars
  <2>a1. UNCHANGED <<connected, svc, bpc, spc, wd, rpc, pending, inbox, pumps>>
    OBVIOUS
  <2>a2. stage' = "VALIDATING" /\ apply'.pc = "validate"
    OBVIOUS
  <2>a3. bpc[j0] = "none" /\ ~ConnectQueued
    BY <1>0, OneConnect
  <2> HIDE <1>1 DEF ApplyStart, recVars, uiVars, osVars
  <2>1. LoneQuiet'
    BY <1>0, <2>a1, <2>a2, <2>a3 DEF LoneQuiet, Rested, Starting, UpStages
  <2>2. LoneQueue'
    BY <1>0, <2>a1, <2>a2, <2>a3 DEF LoneQueue, ConnectQueued
  <2> QED
    BY <2>1, <2>2 DEF LoneSession
<1>2. ASSUME ApplyFail PROVE LoneSession'
  <2> USE <1>2 DEF ApplyFail, recVars, uiVars, osVars
  <2>a1. UNCHANGED <<connected, svc, bpc, spc, wd, rpc, pending, inbox, pumps>>
    OBVIOUS
  <2>a2. stage' = "IDLE" /\ apply'.pc = "idle"
    OBVIOUS
  <2> HIDE <1>2 DEF ApplyFail, recVars, uiVars, osVars
  <2>1. LoneQuiet'
    BY <1>0, <2>a1, <2>a2 DEF LoneQuiet, Rested, Starting, UpStages
  <2>2. LoneQueue'
    BY <1>0, <2>a1, <2>a2 DEF LoneQueue, ConnectQueued
  <2> QED
    BY <2>1, <2>2 DEF LoneSession
<1>3. ASSUME ApplyPass PROVE LoneSession'
  <2> USE <1>3 DEF ApplyPass, recVars, uiVars, osVars
  <2>a1. UNCHANGED <<connected, svc, bpc, spc, wd, rpc, pending, pumps>>
    OBVIOUS
  <2>a2. stage' = "CONNECTING" /\ apply.pc = "validate"
    OBVIOUS
  <2>a3. apply'.pc = "wait"
    BY <1>0
  <2>a4. \A i \in DOMAIN inbox' :
         \/ i \in DOMAIN inbox /\ inbox'[i] = inbox[i]
         \/ i = Len(inbox) + 1 /\ inbox'[i] = "CONNECT"
    BY <1>0, Sent
  <2> HIDE <1>3 DEF ApplyPass, recVars, uiVars, osVars
  <2>1. LoneQuiet'
    BY <1>0, <2>a1, <2>a2, <2>a3, <2>a4 DEF LoneQuiet, Rested, Starting, UpStages
  <2>2. LoneQueue'
    BY <1>0, <2>a1, <2>a2, <2>a3, <2>a4 DEF LoneQueue, ConnectQueued
  <2> QED
    BY <2>1, <2>2 DEF LoneSession
<1>4. ASSUME ApplyReturn PROVE LoneSession'
  <2> USE <1>4 DEF ApplyReturn, recVars, uiVars, osVars
  <2>a1. UNCHANGED <<stage, connected, svc, bpc, spc, wd, rpc, pending, inbox, pumps>>
    OBVIOUS
  <2>a2. apply'.pc = "idle"
    OBVIOUS
  <2> HIDE <1>4 DEF ApplyReturn, recVars, uiVars, osVars
  <2>1. LoneQuiet'
    BY <1>0, <2>a1, <2>a2 DEF LoneQuiet, Rested, Starting, UpStages
  <2>2. LoneQueue'
    BY <1>0, <2>a1, <2>a2 DEF LoneQueue, ConnectQueued
  <2> QED
    BY <2>1, <2>2 DEF LoneSession
<1>5. ASSUME StopTap PROVE LoneSession'
  <2> USE <1>5 DEF StopTap, MayStop, recVars, uiVars, osVars
  <2>a1. UNCHANGED <<stage, connected, svc, bpc, spc, wd, rpc, pending, apply>>
    OBVIOUS
  <2>a2. stage \in UpStages
    BY <1>0
  <2>a3. \A i \in DOMAIN inbox' :
         \/ i \in DOMAIN inbox /\ inbox'[i] = inbox[i]
         \/ i = Len(inbox) + 1 /\ inbox'[i] = "STOP"
    BY <1>0, Sent
  <2> HIDE <1>5 DEF StopTap, MayStop, recVars, uiVars, osVars
  <2>1. LoneQuiet'
    BY <1>0, <2>a1, <2>a2, <2>a3 DEF LoneQuiet, Rested, Starting, UpStages
  <2>2. LoneQueue'
    BY <1>0, <2>a1, <2>a2, <2>a3 DEF LoneQueue, ConnectQueued
  <2> QED
    BY <2>1, <2>2 DEF LoneSession
<1>6. ASSUME NEW j \in Jobs, DispatchConnect(j) PROVE LoneSession'
  <2> USE <1>6 DEF DispatchConnect, Launch, recVars, uiVars, osVars
  <2>a1. UNCHANGED <<stage, connected, svc, spc, wd, rpc, pending, apply, pumps>>
    OBVIOUS
  <2>a2. /\ 1 \in DOMAIN inbox /\ inbox[1] = "CONNECT"
         /\ \A i \in DOMAIN inbox' :
               i \in Nat /\ i # 0 /\ i + 1 \in DOMAIN inbox /\ inbox'[i] = inbox[i + 1]
    BY <1>0, Taken
  <2>a3. j = j0 /\ bpc[j0] = "none" /\ bpc'[j0] = "enter"
    BY <1>0
  <2> HIDE <1>6 DEF DispatchConnect, Launch, recVars, uiVars, osVars
  <2>1. LoneQuiet'
    BY <1>0, <2>a1, <2>a2, <2>a3 DEF LoneQuiet, Rested, Starting, UpStages
  <2>2. LoneQueue'
    BY <1>0, <2>a1, <2>a2, <2>a3 DEF LoneQueue, ConnectQueued
  <2> QED
    BY <2>1, <2>2 DEF LoneSession
<1>7. ASSUME NEW s \in StopJobs, DispatchStop(s) PROVE LoneSession'
  <2> USE <1>7 DEF DispatchStop, recVars, uiVars, osVars
  <2>a1. UNCHANGED <<stage, connected, svc, bpc, wd, rpc, pending, apply, pumps>>
    OBVIOUS
  <2>a2. /\ 1 \in DOMAIN inbox /\ inbox[1] = "STOP"
         /\ \A i \in DOMAIN inbox' :
               i \in Nat /\ i # 0 /\ i + 1 \in DOMAIN inbox /\ inbox'[i] = inbox[i + 1]
    BY <1>0, Taken
  <2> HIDE <1>7 DEF DispatchStop, recVars, uiVars, osVars
  <2>1. LoneQuiet'
    BY <1>0, <2>a1, <2>a2 DEF LoneQuiet, Rested, Starting, UpStages
  <2>2. LoneQueue'
    BY <1>0, <2>a1, <2>a2 DEF LoneQueue, ConnectQueued
  <2> QED
    BY <2>1, <2>2 DEF LoneSession
<1>8. ASSUME NEW j \in Jobs, ProcessRestart(j) PROVE LoneSession'
  <2> USE <1>8 DEF ProcessRestart, recVars, uiVars, osVars
  <2>a1. FALSE
    BY <1>0 DEF LoneQuiet, Rested
  <2> HIDE <1>8 DEF ProcessRestart, recVars, uiVars, osVars
  <2>1. LoneQuiet'
    BY <1>0, <2>a1 DEF LoneQuiet, Rested, Starting, UpStages
  <2>2. LoneQueue'
    BY <1>0, <2>a1 DEF LoneQueue, ConnectQueued
  <2> QED
    BY <2>1, <2>2 DEF LoneSession
<1>9. ASSUME NEW s \in StopJobs, StopDrop(s) PROVE LoneSession'
  <2> USE <1>9 DEF StopDrop, recVars, uiVars, osVars
  <2>a1. UNCHANGED <<stage, svc, bpc, wd, rpc, pending, inbox, apply>>
    OBVIOUS
  <2>a2. spc[s] \notin {"none", "done"}
    OBVIOUS
  <2> HIDE <1>9 DEF StopDrop, recVars, uiVars, osVars
  <2>1. LoneQuiet'
    BY <1>0, <2>a1, <2>a2 DEF LoneQuiet, Rested, Starting, UpStages
  <2>2. LoneQueue'
    BY <1>0, <2>a1, <2>a2 DEF LoneQueue, ConnectQueued
  <2> QED
    BY <2>1, <2>2 DEF LoneSession
<1>10. ASSUME NEW s \in StopJobs, StopTeardown(s) PROVE LoneSession'
  <2> USE <1>10 DEF StopTeardown, recVars, uiVars, osVars
  <2>a1. UNCHANGED <<stage, connected, bpc, rpc, pending, inbox, apply>>
    OBVIOUS
  <2>a2. spc[s] \notin {"none", "done"}
    OBVIOUS
  <2> HIDE <1>10 DEF StopTeardown, recVars, uiVars, osVars
  <2>1. LoneQuiet'
    BY <1>0, <2>a1, <2>a2 DEF LoneQuiet, Rested, Starting, UpStages
  <2>2. LoneQueue'
    BY <1>0, <2>a1, <2>a2 DEF LoneQueue, ConnectQueued
  <2> QED
    BY <2>1, <2>2 DEF LoneSession
<1>11. ASSUME NEW s \in StopJobs, StopPublish(s) PROVE LoneSession'
  <2> USE <1>11 DEF StopPublish, recVars, uiVars, osVars
  <2>a1. UNCHANGED <<connected, svc, bpc, wd, rpc, pending, inbox, apply>>
    OBVIOUS
  <2>a2. spc[s] \notin {"none", "done"}
    OBVIOUS
  <2> HIDE <1>11 DEF StopPublish, recVars, uiVars, osVars
  <2>1. LoneQuiet'
    BY <1>0, <2>a1, <2>a2 DEF LoneQuiet, Rested, Starting, UpStages
  <2>2. LoneQueue'
    BY <1>0, <2>a1, <2>a2 DEF LoneQueue, ConnectQueued
  <2> QED
    BY <2>1, <2>2 DEF LoneSession
<1>12. ASSUME NEW j \in Jobs, Enter(j) PROVE LoneSession'
  <2> USE <1>12 DEF Enter, To, recVars, uiVars, osVars
  <2>a1. UNCHANGED <<stage, connected, svc, spc, wd, rpc, pending, inbox, apply, pumps>>
    OBVIOUS
  <2>a2. j = j0 /\ bpc[j0] = "enter"
    BY <1>0
  <2>a3. bpc'[j0] \in {"begin", "done"}
    BY <1>0
  <2> HIDE <1>12 DEF Enter, To, recVars, uiVars, osVars
  <2>1. LoneQuiet'
    BY <1>0, <2>a1, <2>a2, <2>a3 DEF LoneQuiet, Rested, Starting, UpStages
  <2>2. LoneQueue'
    BY <1>0, <2>a1, <2>a2, <2>a3 DEF LoneQueue, ConnectQueued
  <2> QED
    BY <2>1, <2>2 DEF LoneSession
<1>13. ASSUME NEW j \in Jobs, Begin(j) PROVE LoneSession'
  <2> USE <1>13 DEF Begin, To, recVars, uiVars, osVars
  <2>a1. UNCHANGED <<connected, svc, spc, wd, rpc, pending, inbox, apply, pumps>>
    OBVIOUS
  <2>a2. j = j0 /\ bpc[j0] = "begin"
    BY <1>0
  <2>a3. bpc'[j0] \in {"establish"}
    BY <1>0
  <2>a4. stage' = "CONNECTING"
    OBVIOUS
  <2> HIDE <1>13 DEF Begin, To, recVars, uiVars, osVars
  <2>1. LoneQuiet'
    BY <1>0, <2>a1, <2>a2, <2>a3, <2>a4 DEF LoneQuiet, Rested, Starting, UpStages
  <2>2. LoneQueue'
    BY <1>0, <2>a1, <2>a2, <2>a3, <2>a4 DEF LoneQueue, ConnectQueued
  <2> QED
    BY <2>1, <2>2 DEF LoneSession
<1>14. ASSUME NEW j \in Jobs, Establish(j) PROVE LoneSession'
  <2> USE <1>14 DEF Establish, To, recVars, uiVars, osVars
  <2>a1. UNCHANGED <<stage, connected, spc, wd, rpc, pending, inbox, apply>>
    OBVIOUS
  <2>a2. j = j0 /\ bpc[j0] = "establish"
    BY <1>0
  <2>a3. bpc'[j0] \in {"plumb", "drop"}
    BY <1>0
  <2> HIDE <1>14 DEF Establish, To, recVars, uiVars, osVars
  <2>1. LoneQuiet'
    BY <1>0, <2>a1, <2>a2, <2>a3 DEF LoneQuiet, Rested, Starting, UpStages
  <2>2. LoneQueue'
    BY <1>0, <2>a1, <2>a2, <2>a3 DEF LoneQueue, ConnectQueued
  <2> QED
    BY <2>1, <2>2 DEF LoneSession
<1>15. ASSUME NEW j \in Jobs, PlumbEngine(j) PROVE LoneSession'
  <2> USE <1>15 DEF PlumbEngine, To, recVars, uiVars, osVars
  <2>a1. UNCHANGED <<stage, connected, spc, wd, rpc, pending, inbox, apply>>
    OBVIOUS
  <2>a2. j = j0 /\ bpc[j0] = "plumb"
    BY <1>0
  <2>a3. bpc'[j0] \in {"watch", "drop"}
    BY <1>0
  <2> HIDE <1>15 DEF PlumbEngine, To, recVars, uiVars, osVars
  <2>1. LoneQuiet'
    BY <1>0, <2>a1, <2>a2, <2>a3 DEF LoneQuiet, Rested, Starting, UpStages
  <2>2. LoneQueue'
    BY <1>0, <2>a1, <2>a2, <2>a3 DEF LoneQueue, ConnectQueued
  <2> QED
    BY <2>1, <2>2 DEF LoneSession
<1>16. ASSUME NEW j \in Jobs, MakeWatchdog(j) PROVE LoneSession'
  <2> USE <1>16 DEF MakeWatchdog, To, recVars, uiVars, osVars
  <2>a1. UNCHANGED <<stage, connected, spc, rpc, pending, inbox, apply>>
    OBVIOUS
  <2>a2. j = j0 /\ bpc[j0] = "watch"
    BY <1>0
  <2>a3. bpc'[j0] \in {"route", "drop"}
    BY <1>0
  <2> HIDE <1>16 DEF MakeWatchdog, To, recVars, uiVars, osVars
  <2>1. LoneQuiet'
    BY <1>0, <2>a1, <2>a2, <2>a3 DEF LoneQuiet, Rested, Starting, UpStages
  <2>2. LoneQueue'
    BY <1>0, <2>a1, <2>a2, <2>a3 DEF LoneQueue, ConnectQueued
  <2> QED
    BY <2>1, <2>2 DEF LoneSession
<1>17. ASSUME NEW j \in Jobs, RouteUp(j) PROVE LoneSession'
  <2> USE <1>17 DEF RouteUp, To, recVars, uiVars, osVars
  <2>a1. UNCHANGED <<stage, connected, spc, wd, rpc, pending, inbox, apply>>
    OBVIOUS
  <2>a2. j = j0 /\ bpc[j0] = "route"
    BY <1>0
  <2>a3. bpc'[j0] \in {"assign", "drop"}
    BY <1>0
  <2> HIDE <1>17 DEF RouteUp, To, recVars, uiVars, osVars
  <2>1. LoneQuiet'
    BY <1>0, <2>a1, <2>a2, <2>a3 DEF LoneQuiet, Rested, Starting, UpStages
  <2>2. LoneQueue'
    BY <1>0, <2>a1, <2>a2, <2>a3 DEF LoneQueue, ConnectQueued
  <2> QED
    BY <2>1, <2>2 DEF LoneSession
<1>18. ASSUME NEW j \in Jobs, CheckEngine(j) PROVE LoneSession'
  <2> USE <1>18 DEF CheckEngine, To, recVars, uiVars, osVars
  <2>a1. UNCHANGED <<stage, connected, svc, spc, wd, rpc, pending, inbox, apply>>
    OBVIOUS
  <2>a2. j = j0 /\ bpc[j0] = "check"
    BY <1>0
  <2>a3. bpc'[j0] \in {"probe", "drop"}
    BY <1>0
  <2> HIDE <1>18 DEF CheckEngine, To, recVars, uiVars, osVars
  <2>1. LoneQuiet'
    BY <1>0, <2>a1, <2>a2, <2>a3 DEF LoneQuiet, Rested, Starting, UpStages
  <2>2. LoneQueue'
    BY <1>0, <2>a1, <2>a2, <2>a3 DEF LoneQueue, ConnectQueued
  <2> QED
    BY <2>1, <2>2 DEF LoneSession
<1>19. ASSUME NEW j \in Jobs, Probe(j) PROVE LoneSession'
  <2> USE <1>19 DEF Probe, To, recVars, uiVars, osVars
  <2>a1. UNCHANGED <<stage, connected, svc, spc, wd, rpc, pending, inbox, apply>>
    OBVIOUS
  <2>a2. j = j0 /\ bpc[j0] = "probe"
    BY <1>0
  <2>a3. bpc'[j0] \in {"up"}
    BY <1>0
  <2> HIDE <1>19 DEF Probe, To, recVars, uiVars, osVars
  <2>1. LoneQuiet'
    BY <1>0, <2>a1, <2>a2, <2>a3 DEF LoneQuiet, Rested, Starting, UpStages
  <2>2. LoneQueue'
    BY <1>0, <2>a1, <2>a2, <2>a3 DEF LoneQueue, ConnectQueued
  <2> QED
    BY <2>1, <2>2 DEF LoneSession
<1>20. ASSUME NEW j \in Jobs, GoUp(j) PROVE LoneSession'
  <2> USE <1>20 DEF GoUp, To, recVars, uiVars, osVars
  <2>a1. UNCHANGED <<stage, svc, spc, rpc, pending, inbox, apply>>
    OBVIOUS
  <2>a2. j = j0 /\ bpc[j0] = "up"
    BY <1>0
  <2>a3. bpc'[j0] \in {"publish"}
    BY <1>0
  <2> HIDE <1>20 DEF GoUp, To, recVars, uiVars, osVars
  <2>1. LoneQuiet'
    BY <1>0, <2>a1, <2>a2, <2>a3 DEF LoneQuiet, Rested, Starting, UpStages
  <2>2. LoneQueue'
    BY <1>0, <2>a1, <2>a2, <2>a3 DEF LoneQueue, ConnectQueued
  <2> QED
    BY <2>1, <2>2 DEF LoneSession
<1>21. ASSUME NEW j \in Jobs, PublishConnected(j) PROVE LoneSession'
  <2> USE <1>21 DEF PublishConnected, To, recVars, uiVars, osVars
  <2>a1. UNCHANGED <<connected, svc, spc, wd, rpc, pending, inbox, apply>>
    OBVIOUS
  <2>a2. j = j0 /\ bpc[j0] = "publish"
    BY <1>0
  <2>a3. bpc'[j0] \in {"finish"}
    BY <1>0
  <2> HIDE <1>21 DEF PublishConnected, To, recVars, uiVars, osVars
  <2>1. LoneQuiet'
    BY <1>0, <2>a1, <2>a2, <2>a3 DEF LoneQuiet, Rested, Starting, UpStages
  <2>2. LoneQueue'
    BY <1>0, <2>a1, <2>a2, <2>a3 DEF LoneQueue, ConnectQueued
  <2> QED
    BY <2>1, <2>2 DEF LoneSession
<1>22. ASSUME NEW j \in Jobs, FailDrop(j) PROVE LoneSession'
  <2> USE <1>22 DEF FailDrop, To, recVars, uiVars, osVars
  <2>a1. UNCHANGED <<stage, svc, spc, wd, rpc, pending, inbox, apply>>
    OBVIOUS
  <2>a2. j = j0 /\ bpc[j0] = "drop"
    BY <1>0
  <2>a3. bpc'[j0] \in {"lock"}
    BY <1>0
  <2> HIDE <1>22 DEF FailDrop, To, recVars, uiVars, osVars
  <2>1. LoneQuiet'
    BY <1>0, <2>a1, <2>a2, <2>a3 DEF LoneQuiet, Rested, Starting, UpStages
  <2>2. LoneQueue'
    BY <1>0, <2>a1, <2>a2, <2>a3 DEF LoneQueue, ConnectQueued
  <2> QED
    BY <2>1, <2>2 DEF LoneSession
<1>23. ASSUME NEW j \in Jobs, FailTeardown(j) PROVE LoneSession'
  <2> USE <1>23 DEF FailTeardown, To, recVars, uiVars, osVars
  <2>a1. UNCHANGED <<stage, connected, spc, rpc, pending, inbox, apply>>
    OBVIOUS
  <2>a2. j = j0 /\ bpc[j0] = "lock"
    BY <1>0
  <2>a3. bpc'[j0] \in {"error"}
    BY <1>0
  <2> HIDE <1>23 DEF FailTeardown, To, recVars, uiVars, osVars
  <2>1. LoneQuiet'
    BY <1>0, <2>a1, <2>a2, <2>a3 DEF LoneQuiet, Rested, Starting, UpStages
  <2>2. LoneQueue'
    BY <1>0, <2>a1, <2>a2, <2>a3 DEF LoneQueue, ConnectQueued
  <2> QED
    BY <2>1, <2>2 DEF LoneSession
<1>24. ASSUME NEW j \in Jobs, PublishError(j) PROVE LoneSession'
  <2> USE <1>24 DEF PublishError, To, recVars, uiVars, osVars
  <2>a1. UNCHANGED <<connected, svc, spc, wd, rpc, pending, inbox, apply>>
    OBVIOUS
  <2>a2. j = j0 /\ bpc[j0] = "error"
    BY <1>0
  <2>a3. bpc'[j0] \in {"finish"}
    BY <1>0
  <2> HIDE <1>24 DEF PublishError, To, recVars, uiVars, osVars
  <2>1. LoneQuiet'
    BY <1>0, <2>a1, <2>a2, <2>a3 DEF LoneQuiet, Rested, Starting, UpStages
  <2>2. LoneQueue'
    BY <1>0, <2>a1, <2>a2, <2>a3 DEF LoneQueue, ConnectQueued
  <2> QED
    BY <2>1, <2>2 DEF LoneSession
<1>25. ASSUME NEW j \in Jobs, Finish(j) PROVE LoneSession'
  <2> USE <1>25 DEF Finish, To, recVars, uiVars, osVars
  <2>a1. UNCHANGED <<stage, connected, svc, spc, wd, rpc, pending, inbox, apply>>
    OBVIOUS
  <2>a2. j = j0 /\ bpc[j0] = "finish"
    BY <1>0
  <2>a3. bpc'[j0] \in {"done"}
    BY <1>0
  <2> HIDE <1>25 DEF Finish, To, recVars, uiVars, osVars
  <2>1. LoneQuiet'
    BY <1>0, <2>a1, <2>a2, <2>a3 DEF LoneQuiet, Rested, Starting, UpStages
  <2>2. LoneQueue'
    BY <1>0, <2>a1, <2>a2, <2>a3 DEF LoneQueue, ConnectQueued
  <2> QED
    BY <2>1, <2>2 DEF LoneSession
<1>26. ASSUME NEW w \in Jobs, Observe(w) PROVE LoneSession'
  <2> USE <1>26 DEF Observe, recVars, uiVars, osVars
  <2>a1. UNCHANGED <<stage, connected, svc, bpc, spc, pending, inbox, apply>>
    OBVIOUS
  <2>a2. wd[w].observing
    OBVIOUS
  <2> HIDE <1>26 DEF Observe, recVars, uiVars, osVars
  <2>1. LoneQuiet'
    BY <1>0, <2>a1, <2>a2 DEF LoneQuiet, Rested, Starting, UpStages
  <2>2. LoneQueue'
    BY <1>0, <2>a1, <2>a2 DEF LoneQueue, ConnectQueued
  <2> QED
    BY <2>1, <2>2 DEF LoneSession
<1>27. ASSUME NEW w \in Jobs, PumpReport(w) PROVE LoneSession'
  <2> USE <1>27 DEF PumpReport, recVars, uiVars, osVars
  <2>a1. UNCHANGED <<stage, connected, svc, bpc, spc, inbox, apply>>
    OBVIOUS
  <2>a2. w \in pending
    OBVIOUS
  <2> HIDE <1>27 DEF PumpReport, recVars, uiVars, osVars
  <2>1. LoneQuiet'
    BY <1>0, <2>a1, <2>a2 DEF LoneQuiet, Rested, Starting, UpStages
  <2>2. LoneQueue'
    BY <1>0, <2>a1, <2>a2 DEF LoneQueue, ConnectQueued
  <2> QED
    BY <2>1, <2>2 DEF LoneSession
<1>28. ASSUME NEW w \in Jobs, RecoveryStep(w) PROVE LoneSession'
  <2> USE <1>28 DEF RecoveryStep, RecoveryTry, RecoveryDelay, ReconnectEngine, ReconnectRoute,
     ReconnectRouter, ReconnectResult, RecoveryPublish, GiveUpDrop, GiveUpTeardown, GiveUpPublish, RecoveryEnd,
     recVars, uiVars, osVars
  <2>a1. UNCHANGED <<bpc, spc, pending, inbox, apply>>
    OBVIOUS
  <2>a2. rpc[w] # "none"
    OBVIOUS
  <2> HIDE <1>28 DEF RecoveryStep, RecoveryTry, RecoveryDelay, ReconnectEngine, ReconnectRoute,
     ReconnectRouter, ReconnectResult, RecoveryPublish, GiveUpDrop, GiveUpTeardown, GiveUpPublish, RecoveryEnd,
     recVars, uiVars, osVars
  <2>1. LoneQuiet'
    BY <1>0, <2>a1, <2>a2 DEF LoneQuiet, Rested, Starting, UpStages
  <2>2. LoneQueue'
    BY <1>0, <2>a1, <2>a2 DEF LoneQueue, ConnectQueued
  <2> QED
    BY <2>1, <2>2 DEF LoneSession
<1>29. ASSUME NEW e \in Jobs, EngineDies(e) PROVE LoneSession'
  <2> USE <1>29 DEF EngineDies, recVars, uiVars, osVars
  <2>a1. UNCHANGED <<stage, connected, svc, bpc, spc, wd, rpc, pending, inbox, apply, pumps>>
    OBVIOUS
  <2> HIDE <1>29 DEF EngineDies, recVars, uiVars, osVars
  <2>1. LoneQuiet'
    BY <1>0, <2>a1 DEF LoneQuiet, Rested, Starting, UpStages
  <2>2. LoneQueue'
    BY <1>0, <2>a1 DEF LoneQueue, ConnectQueued
  <2> QED
    BY <2>1, <2>2 DEF LoneSession
<1>30. ASSUME NEW e \in Jobs, EngineLost(e) PROVE LoneSession'
  <2> USE <1>30 DEF EngineLost, recVars, uiVars, osVars
  <2>a1. UNCHANGED <<stage, connected, svc, bpc, spc, wd, rpc, pending, inbox, apply, pumps>>
    OBVIOUS
  <2> HIDE <1>30 DEF EngineLost, recVars, uiVars, osVars
  <2>1. LoneQuiet'
    BY <1>0, <2>a1 DEF LoneQuiet, Rested, Starting, UpStages
  <2>2. LoneQueue'
    BY <1>0, <2>a1 DEF LoneQueue, ConnectQueued
  <2> QED
    BY <2>1, <2>2 DEF LoneSession
<1>31. ASSUME NEW s \in StopJobs, Revoke(s) PROVE LoneSession'
  <2> USE <1>31 DEF Revoke, recVars, uiVars, osVars
  <2>a1. UNCHANGED <<stage, connected, svc, bpc, wd, rpc, pending, inbox, apply>>
    OBVIOUS
  <2>a2. bpc[j0] \notin Starting \cup {"none"}
    BY <1>0 DEF TunsFresh, Starting
  <2> HIDE <1>31 DEF Revoke, recVars, uiVars, osVars
  <2>1. LoneQuiet'
    BY <1>0, <2>a1, <2>a2 DEF LoneQuiet, Rested, Starting, UpStages
  <2>2. LoneQueue'
    BY <1>0, <2>a1, <2>a2 DEF LoneQueue, ConnectQueued
  <2> QED
    BY <2>1, <2>2 DEF LoneSession
<1>32. ASSUME NEW r \in pumps, PumpFault(r) PROVE LoneSession'
  <2> USE <1>32 DEF PumpFault, recVars, uiVars, osVars
  <2>a1. UNCHANGED <<stage, connected, svc, bpc, spc, wd, rpc, inbox, apply>>
    OBVIOUS
  <2>a2. connected
    OBVIOUS
  <2> HIDE <1>32 DEF PumpFault, recVars, uiVars, osVars
  <2>1. LoneQuiet'
    BY <1>0, <2>a1, <2>a2 DEF LoneQuiet, Rested, Starting, UpStages
  <2>2. LoneQueue'
    BY <1>0, <2>a1, <2>a2 DEF LoneQueue, ConnectQueued
  <2> QED
    BY <2>1, <2>2 DEF LoneSession
<1>33. ASSUME NEW r \in pumps, NEW s \in StopJobs, PumpTunLost(r, s) PROVE LoneSession'
  <2> USE <1>33 DEF PumpTunLost, recVars, uiVars, osVars
  <2>a1. UNCHANGED <<stage, connected, svc, bpc, wd, rpc, pending, inbox, apply>>
    OBVIOUS
  <2>a2. bpc[j0] \notin Starting \cup {"none"}
    BY <1>0 DEF TunsFresh, Starting, Routers
  <2> HIDE <1>33 DEF PumpTunLost, recVars, uiVars, osVars
  <2>1. LoneQuiet'
    BY <1>0, <2>a1, <2>a2 DEF LoneQuiet, Rested, Starting, UpStages
  <2>2. LoneQueue'
    BY <1>0, <2>a1, <2>a2 DEF LoneQueue, ConnectQueued
  <2> QED
    BY <2>1, <2>2 DEF LoneSession
<1>34. ASSUME UNCHANGED vars PROVE LoneSession'
  <2> USE <1>34 DEF vars
  <2>a1. UNCHANGED <<stage, connected, svc, bpc, spc, wd, rpc, pending, inbox, apply, pumps>>
    OBVIOUS
  <2> HIDE <1>34 DEF vars
  <2>1. LoneQuiet'
    BY <1>0, <2>a1 DEF LoneQuiet, Rested, Starting, UpStages
  <2>2. LoneQueue'
    BY <1>0, <2>a1 DEF LoneQueue, ConnectQueued
  <2> QED
    BY <2>1, <2>2 DEF LoneSession
<1>35. ASSUME DispatchDrops PROVE LoneSession'
  <2> USE <1>35 DEF DispatchDrops, recVars, uiVars, osVars
  <2>a1. UNCHANGED <<stage, connected, svc, bpc, spc, wd, rpc, pending, pumps, apply>>
    OBVIOUS
  <2>a2. /\ 1 \in DOMAIN inbox
         /\ \A i \in DOMAIN inbox' :
               i \in Nat /\ i # 0 /\ i + 1 \in DOMAIN inbox /\ inbox'[i] = inbox[i + 1]
    BY <1>0, Taken
  <2> HIDE <1>35 DEF DispatchDrops, recVars, uiVars, osVars
  <2>1. LoneQuiet'
    BY <1>0, <2>a1, <2>a2 DEF LoneQuiet, Rested, Starting, UpStages
  <2>2. LoneQueue'
    BY <1>0, <2>a1, <2>a2 DEF LoneQueue, ConnectQueued
  <2> QED
    BY <2>1, <2>2 DEF LoneSession
<1>36. ASSUME NEW j \in Jobs, RouterUp(j) PROVE LoneSession'
  <2> USE <1>36 DEF RouterUp, AssignRouter, To, recVars, uiVars, osVars
  <2>a1. UNCHANGED <<stage, connected, spc, wd, rpc, pending, inbox, apply>>
    OBVIOUS
  <2>a2. j = j0 /\ bpc[j0] = "assign"
    BY <1>0
  <2>a3. bpc'[j0] \in {"check"}
    BY <1>0
  <2> HIDE <1>36 DEF RouterUp, AssignRouter, To, recVars, uiVars, osVars
  <2>1. LoneQuiet'
    BY <1>0, <2>a1, <2>a2, <2>a3 DEF LoneQuiet, Rested, Starting, UpStages
  <2>2. LoneQueue'
    BY <1>0, <2>a1, <2>a2, <2>a3 DEF LoneQueue, ConnectQueued
  <2> QED
    BY <2>1, <2>2 DEF LoneSession
<1> QED
  BY <1>1, <1>2, <1>3, <1>4, <1>5, <1>6, <1>7, <1>8, <1>9, <1>10, <1>11, <1>12, <1>13, <1>14,
     <1>15, <1>16, <1>17, <1>18, <1>19, <1>20, <1>21, <1>22, <1>23, <1>24, <1>25, <1>26, <1>27,
     <1>28, <1>29, <1>30, <1>31, <1>32, <1>33, <1>34, <1>35, <1>36
     DEF Next, ApplyStep, StopStep, BringUpStep, WatchdogStep, Traffic, TunReadFails

\* A session that is alone is apart.
LEMMA LoneApart == ASSUME NEW j0, Jobs = {j0} PROVE LoneSession => Apart
  BY DEF LoneSession, LoneQuiet, LoneQueue, Apart, Asked, Starting

\* One session, started and stopped from the surfaces that look at the stage,
\* with any number of stops, revocations, engine losses and attempts: it is
\* apart, so that the two properties above hold of it without a condition.
THEOREM OneSessionSound ==
  ASSUME Guarded, NEW j0, Jobs = {j0}
  PROVE  Spec => [](DownMeansUnrouted /\ BridgeWhole)
<1>1. Init => LoneSession
  BY DEF Init, NoSvc, NoWd, LoneSession, LoneQuiet, LoneQueue, Rested, ConnectQueued, UpStages
<1>2. IInv /\ LoneSession /\ [Next]_vars => LoneSession'
  BY StepLoneSession
<1>3. LoneSession => Apart
  BY LoneApart
<1>4. Spec => []Apart
  BY <1>1, <1>2, <1>3, AlwaysIInv, PTL DEF Spec
<1> QED
  BY <1>4, DownMeansUnroutedApart, BridgeWholeApart, PTL

-----------------------------------------------------------------------------
(***************************************************************************)
(* A busy stage has somebody who will end it.                              *)
(***************************************************************************)

\* Whoever will end a busy stage is still there after a step that neither
\* publishes nor drops a bring-up.
LEMMA OwnersStay ==
  ASSUME BusyOwned, stage' = stage, dropped => dropped',
         ConnectQueued => ConnectQueued' \/ dropped' \/ \E j \in Jobs : Bringing(j)',
         \A j \in Jobs : Bringing(j) => Bringing(j)',
         \A j \in Jobs : bpc[j] = "error" => bpc'[j] = "error",
         \A s \in StopJobs : spc[s] = "idle" => spc'[s] = "idle",
         \/ \A w \in Jobs : Mending(w) => Mending(w)'
         \/ \E s \in StopJobs : spc'[s] = "idle"
         \/ \E j \in Jobs : bpc'[j] = "error"
         \/ \E w \in Jobs : rpc'[w] = "error"
  PROVE  BusyOwned'
<1>1. stage' = "CONNECTING" => ConnectQueued' \/ dropped' \/ \E j \in Jobs : Bringing(j)'
  BY DEF BusyOwned
<1>2. stage' = "RECONNECTING" => \/ \E w \in Jobs : Mending(w)'
                                 \/ \E j \in Jobs : bpc'[j] = "error"
                                 \/ \E s \in StopJobs : spc'[s] = "idle"
  <2>1. \A w \in Jobs : rpc'[w] = "error" => Mending(w)'
    BY DEF Mending
  <2> QED
    BY <2>1 DEF BusyOwned
<1> QED
  BY <1>1, <1>2 DEF BusyOwned

\* The same of a step of a bring-up that has begun and goes on.
LEMMA BringUpGoesOn ==
  ASSUME TypeOK, BusyOwned, UpJobOwned, NEW j \in Jobs,
         NEW pc \in {"establish", "publish"} \cup Opening, To(j, pc),
         bpc[j] # "error", UNCHANGED <<stage, inbox, dropped, upJob, spc, rpc>>,
         pc = "error" \/ \A w \in Jobs : ~wd[w].cancelled => ~wd'[w].cancelled
  PROVE  BusyOwned' /\ UpJobOwned'
<1>1. bpc'[j] = pc /\ \A k \in Jobs : k # j => bpc'[k] = bpc[k]
  BY DEF TypeOK, TypeJobs, To
<1>2. UpJobOwned'
  BY <1>1 DEF UpJobOwned
<1>3. \A k \in Jobs : Bringing(k) => Bringing(k)'
  BY <1>1 DEF Bringing, Opening
<1>4. ConnectQueued => ConnectQueued'
  BY DEF ConnectQueued
<1>5. bpc'[j] = "error" \/ \A w \in Jobs : Mending(w) => Mending(w)'
  BY <1>1 DEF Mending
<1>6. \A k \in Jobs : bpc[k] = "error" => bpc'[k] = "error"
  BY <1>1
<1> QED
  BY <1>2, <1>3, <1>4, <1>5, <1>6, OwnersStay

\* The same of a step of a recovery that does not end a live one.
LEMMA RecoveryGoesOn ==
  ASSUME TypeOK, BusyOwned, UpJobOwned, NEW w \in Jobs, NEW pc, pc # "none",
         rpc' = [rpc EXCEPT ![w] = pc], wd' = wd,
         pc = "end" => ~Mending(w),
         rpc[w] \notin {"publish", "error"},
         pc \in {"drop", "lock", "publish"} \/ rpc[w] \notin {"drop", "lock"},
         UNCHANGED <<stage, inbox, dropped, upJob, bpc, spc>>
  PROVE  BusyOwned' /\ UpJobOwned'
<1>1. rpc'[w] = pc /\ \A v \in Jobs : v # w => rpc'[v] = rpc[v]
  BY DEF TypeOK, TypeWatchdogs
<1>2. UpJobOwned'
  BY DEF UpJobOwned
<1>3. \A v \in Jobs : Mending(v) => Mending(v)'
  BY <1>1 DEF Mending
<1>4. \A k \in Jobs : Bringing(k) => Bringing(k)'
  BY DEF Bringing
<1>5. ConnectQueued => ConnectQueued'
  BY DEF ConnectQueued
<1> QED
  BY <1>2, <1>3, <1>4, <1>5, OwnersStay

\* A step that publishes leaves no busy stage; upJob is as it was.
LEMMA Published ==
  ASSUME stage' \notin {"CONNECTING", "RECONNECTING"}
  PROVE  BusyOwned'
  BY DEF BusyOwned

\* A fault report finds a recovery at work or launches one.
LEMMA ReportMends ==
  ASSUME TypeOK, NEW w \in Jobs, NEW d \in [Jobs -> WatchdogRec], ReportFault(w, d),
         \A v \in Jobs : d[v].cancelled = wd[v].cancelled
  PROVE  \A v \in Jobs : Mending(v) => Mending(v)'
<1>1. CASE d[w].reconnecting
  BY <1>1 DEF ReportFault, recVars, Mending
<1>2. CASE ~d[w].reconnecting
  <2>1. /\ rpc' = [rpc EXCEPT ![w] = "try"]
        /\ wd' = [d EXCEPT ![w].reconnecting = TRUE, ![w].cancelled = FALSE]
    BY <1>2 DEF ReportFault
  <2>2. rpc'[w] = "try" /\ \A v \in Jobs : v # w => rpc'[v] = rpc[v]
    BY <2>1 DEF TypeOK, TypeWatchdogs
  <2>3. wd'[w].cancelled = FALSE /\ \A v \in Jobs : v # w => wd'[v] = d[v]
    BY <2>1 DEF WatchdogRec
  <2> QED
    BY <2>2, <2>3 DEF Mending
<1> QED
  BY <1>1, <1>2

\* Every step preserves the owners: one step of the proof per action.
LEMMA StepBusyOwned ==
  ASSUME IInv, BusyOwned, UpJobOwned, [Next]_vars
  PROVE  BusyOwned' /\ UpJobOwned'
<1> USE DEF uiVars, recVars, osVars
<1>0. TypeOK /\ WatchdogsBuilt
  BY DEF IInv
<1>a. ASSUME UNCHANGED <<stage, dropped, bpc, spc, upJob>>, ConnectQueued => ConnectQueued',
             \A w \in Jobs : Mending(w) => Mending(w)'
      PROVE  BusyOwned' /\ UpJobOwned'
  BY <1>a, OwnersStay DEF UpJobOwned, Bringing
<1>b. ASSUME UNCHANGED <<bpc, upJob>> PROVE UpJobOwned'
  BY <1>b DEF UpJobOwned
<1>c. inbox \in Seq({"CONNECT", "STOP"})
  BY <1>0 DEF TypeOK, TypeUi
<1>d. ASSUME UNCHANGED <<rpc, wd>> PROVE \A w \in Jobs : Mending(w) => Mending(w)'
  BY <1>d DEF Mending
<1>e. ASSUME UNCHANGED inbox PROVE ConnectQueued => ConnectQueued'
  BY <1>e DEF ConnectQueued
<1>1. CASE \E p \in Proxies : ApplyStart(p)
  BY <1>1, <1>b, Published DEF ApplyStart
<1>2. CASE ApplyFail
  BY <1>2, <1>b, Published DEF ApplyFail
<1>3. CASE ApplyPass
  <2>1. stage' = "CONNECTING" /\ UNCHANGED <<bpc, upJob>> /\ inbox' = Append(inbox, "CONNECT")
    BY <1>3 DEF ApplyPass
  <2>2. ConnectQueued'
    <3>1. Len(inbox) + 1 \in DOMAIN inbox' /\ inbox'[Len(inbox) + 1] = "CONNECT"
      BY <1>c, <2>1
    <3> QED
      BY <3>1 DEF ConnectQueued
  <2> QED
    BY <1>b, <2>1, <2>2 DEF BusyOwned
<1>4. CASE ApplyReturn
  BY <1>4, <1>a, <1>d, <1>e DEF ApplyReturn
<1>5. CASE StopTap
  <2>1. inbox' = Append(inbox, "STOP") /\ UNCHANGED <<stage, dropped, bpc, spc, upJob, rpc, wd>>
    BY <1>5 DEF StopTap
  <2>2. ConnectQueued => ConnectQueued'
    <3>1. \A i \in DOMAIN inbox : i \in DOMAIN inbox' /\ inbox'[i] = inbox[i]
      BY <1>c, <2>1
    <3> QED
      BY <3>1 DEF ConnectQueued
  <2> QED
    BY <1>a, <1>d, <2>1, <2>2
<1>6. ASSUME NEW j \in Jobs, DispatchConnect(j) PROVE BusyOwned' /\ UpJobOwned'
  <2>1. /\ bpc[j] = "none" /\ bpc' = [bpc EXCEPT ![j] = "enter"]
        /\ UNCHANGED <<dropped, stage, spc, upJob, rpc, wd>>
    BY <1>6 DEF DispatchConnect, Launch
  <2>2. bpc'[j] = "enter" /\ \A k \in Jobs : k # j => bpc'[k] = bpc[k]
    BY <1>0, <2>1 DEF TypeOK, TypeJobs
  <2>3. Bringing(j)' /\ \A k \in Jobs : Bringing(k) => Bringing(k)'
    BY <2>1, <2>2 DEF Bringing
  <2>4. UpJobOwned'
    BY <2>1, <2>2 DEF UpJobOwned, Opening
  <2>5. \A k \in Jobs : bpc[k] = "error" => bpc'[k] = "error"
    BY <2>1, <2>2
  <2> QED
    BY <1>d, <2>1, <2>3, <2>4, <2>5, OwnersStay
<1>7. ASSUME NEW s \in StopJobs, DispatchStop(s) PROVE BusyOwned' /\ UpJobOwned'
  <2>1. /\ inbox # <<>> /\ Head(inbox) = "STOP" /\ inbox' = Tail(inbox)
        /\ spc[s] = "none" /\ spc' = [spc EXCEPT ![s] = "drop"]
        /\ UNCHANGED <<dropped, stage, bpc, upJob, rpc, wd>>
    BY <1>7 DEF DispatchStop
  <2>2. ConnectQueued => ConnectQueued'
    <3>1. SUFFICES ASSUME NEW i \in DOMAIN inbox, inbox[i] = "CONNECT" PROVE ConnectQueued'
      BY DEF ConnectQueued
    <3>2. i # 1
      BY <1>c, <2>1, <3>1
    <3>3. i - 1 \in DOMAIN inbox' /\ inbox'[i - 1] = inbox[i]
      BY <1>c, <2>1, <3>1, <3>2
    <3> QED
      BY <3>1, <3>3 DEF ConnectQueued
  <2>3. \A t \in StopJobs : spc[t] = "idle" => spc'[t] = "idle"
    BY <1>0, <2>1 DEF TypeOK, TypeJobs
  <2> QED
    BY <1>b, <1>d, <2>1, <2>2, <2>3, OwnersStay DEF Bringing
<1>8. ASSUME NEW j \in Jobs, ProcessRestart(j) PROVE BusyOwned' /\ UpJobOwned'
  <2>1. stage' = "IDLE" /\ ~upJob'
    BY <1>8 DEF ProcessRestart
  <2> QED
    BY <2>1, Published DEF UpJobOwned
<1>9. ASSUME NEW s \in StopJobs, StopDrop(s) PROVE BusyOwned' /\ UpJobOwned'
  <2>1. /\ spc[s] = "drop" /\ spc' = [spc EXCEPT ![s] = "lock"]
        /\ UNCHANGED <<dropped, stage, inbox, bpc, upJob, rpc, wd>>
    BY <1>9 DEF StopDrop
  <2>2. \A t \in StopJobs : spc[t] = "idle" => spc'[t] = "idle"
    BY <1>0, <2>1 DEF TypeOK, TypeJobs
  <2> QED
    BY <1>b, <1>d, <1>e, <2>1, <2>2, OwnersStay DEF Bringing
<1>10. ASSUME NEW s \in StopJobs, StopTeardown(s) PROVE BusyOwned' /\ UpJobOwned'
  <2>1. /\ spc[s] = "lock" /\ spc' = [spc EXCEPT ![s] = "idle"]
        /\ UNCHANGED <<dropped, stage, inbox, bpc, upJob>>
    BY <1>10 DEF StopTeardown
  <2>2. spc'[s] = "idle" /\ \A t \in StopJobs : spc[t] = "idle" => spc'[t] = "idle"
    BY <1>0, <2>1 DEF TypeOK, TypeJobs
  <2> QED
    BY <1>b, <1>e, <2>1, <2>2, OwnersStay DEF Bringing
<1>11. ASSUME NEW s \in StopJobs, StopPublish(s) PROVE BusyOwned' /\ UpJobOwned'
  BY <1>11, <1>b, Published DEF StopPublish
<1>12. ASSUME NEW s \in StopJobs, Revoke(s) \/ \E r \in pumps : PumpTunLost(r, s)
       PROVE  BusyOwned' /\ UpJobOwned'
  <2>1. /\ spc[s] = "none" /\ spc' = [spc EXCEPT ![s] = "drop"]
        /\ UNCHANGED <<dropped, stage, inbox, bpc, upJob, rpc, wd>>
    BY <1>12 DEF Revoke, PumpTunLost
  <2>2. \A t \in StopJobs : spc[t] = "idle" => spc'[t] = "idle"
    BY <1>0, <2>1 DEF TypeOK, TypeJobs
  <2> QED
    BY <1>b, <1>d, <1>e, <2>1, <2>2, OwnersStay DEF Bringing
<1>13. ASSUME NEW j \in Jobs, Enter(j) PROVE BusyOwned' /\ UpJobOwned'
  <2>1. /\ bpc[j] = "enter" /\ bpc' = [bpc EXCEPT ![j] = IF upJob THEN "done" ELSE "begin"]
        /\ UNCHANGED <<stage, inbox, spc, upJob, rpc, wd>> /\ (dropped => dropped')
    BY <1>13 DEF Enter, To
  <2>2. /\ bpc'[j] = IF upJob THEN "done" ELSE "begin"
        /\ \A k \in Jobs : k # j => bpc'[k] = bpc[k]
    BY <1>0, <2>1 DEF TypeOK, TypeJobs
  <2>3. UpJobOwned'
    BY <2>1, <2>2 DEF UpJobOwned, Opening
  <2>4. \A k \in Jobs : bpc[k] = "error" => bpc'[k] = "error"
    BY <2>1, <2>2
  <2>5. CASE ~upJob
    <3>1. \A k \in Jobs : Bringing(k) => Bringing(k)'
      BY <2>1, <2>2, <2>5 DEF Bringing
    <3> QED
      BY <1>d, <1>e, <2>1, <2>3, <2>4, <3>1, OwnersStay
  <2>6. CASE upJob
    <3>1. PICK k \in Jobs : bpc[k] \in {"establish", "publish", "finish"} \cup Opening
      BY <2>6 DEF UpJobOwned
    <3>2. k # j
      BY <2>1, <3>1 DEF Opening
    <3>3. bpc[k] = "finish" => dropped'
      BY <1>13, <2>6 DEF Enter
    <3>4. stage' = "CONNECTING" => ConnectQueued' \/ dropped' \/ \E i \in Jobs : Bringing(i)'
      BY <2>2, <3>1, <3>2, <3>3 DEF Bringing, Opening
    <3>5. stage' = "RECONNECTING" => \/ \E w \in Jobs : Mending(w)'
                                     \/ \E i \in Jobs : bpc'[i] = "error"
                                     \/ \E s \in StopJobs : spc'[s] = "idle"
      BY <1>d, <2>1, <2>4 DEF BusyOwned
    <3> QED
      BY <2>3, <3>4, <3>5 DEF BusyOwned
  <2> QED
    BY <2>5, <2>6
<1>14. ASSUME NEW j \in Jobs, Begin(j) PROVE BusyOwned' /\ UpJobOwned'
  <2>1. stage' = "CONNECTING" /\ bpc'[j] = "establish"
    BY <1>0, <1>14 DEF Begin, To, TypeOK, TypeJobs
  <2> QED
    BY <2>1 DEF BusyOwned, UpJobOwned, Bringing
<1>15. ASSUME NEW j \in Jobs,
              Establish(j) \/ PlumbEngine(j) \/ RouteUp(j) \/ RouterUp(j) \/ CheckEngine(j) \/ Probe(j)
              \/ FailDrop(j)
       PROVE  BusyOwned' /\ UpJobOwned'
  <2>1. /\ bpc[j] # "error" /\ UNCHANGED <<dropped, stage, inbox, upJob, spc, rpc, wd>>
        /\ \E pc \in {"establish", "publish"} \cup Opening : To(j, pc)
    BY <1>15 DEF Establish, PlumbEngine, RouteUp, RouterUp, CheckEngine, Probe, FailDrop, Opening
  <2> QED
    BY <1>0, <2>1, BringUpGoesOn
<1>16. ASSUME NEW j \in Jobs, MakeWatchdog(j) PROVE BusyOwned' /\ UpJobOwned'
  <2>1. /\ bpc[j] # "error" /\ UNCHANGED <<stage, inbox, dropped, upJob, spc, rpc>>
        /\ \E pc \in {"establish", "publish"} \cup Opening : To(j, pc)
    BY <1>16 DEF MakeWatchdog, Opening
  <2>2. wd' = wd \/ wd' = [wd EXCEPT ![j] = [NoWd EXCEPT !.engine = svc.engine]]
    BY <1>16 DEF MakeWatchdog
  <2>3. \A w \in Jobs : ~wd[w].cancelled => ~wd'[w].cancelled
    BY <1>0, <2>2 DEF TypeOK, TypeWatchdogs, NoWd
  <2> QED
    BY <1>0, <2>1, <2>3, BringUpGoesOn
<1>17. ASSUME NEW j \in Jobs, GoUp(j) PROVE BusyOwned' /\ UpJobOwned'
  <2>1. bpc[j] # "error" /\ UNCHANGED <<stage, inbox, dropped, upJob, spc, rpc>> /\ To(j, "publish")
    BY <1>17 DEF GoUp
  <2>2. \/ wd' = wd
        \/ wd' = [wd EXCEPT ![svc.watchdog].observing = TRUE, ![svc.watchdog].seen = "Stopped"]
    BY <1>17 DEF GoUp
  <2>3. \A w \in Jobs : ~wd[w].cancelled => ~wd'[w].cancelled
    BY <1>0, <2>2 DEF TypeOK, TypeWatchdogs, WatchdogRec
  <2> QED
    BY <1>0, <2>1, <2>3, BringUpGoesOn
<1>18. ASSUME NEW j \in Jobs, FailTeardown(j) PROVE BusyOwned' /\ UpJobOwned'
  <2>1. bpc[j] # "error" /\ UNCHANGED <<stage, inbox, dropped, upJob, spc, rpc>> /\ To(j, "error")
    BY <1>18 DEF FailTeardown
  <2>2. "error" \in {"establish", "publish"} \cup Opening
    BY DEF Opening
  <2> QED
    BY <1>0, <2>1, <2>2, BringUpGoesOn
<1>19. ASSUME NEW j \in Jobs, PublishConnected(j) \/ PublishError(j)
       PROVE  BusyOwned' /\ UpJobOwned'
  <2>1. /\ stage' \in {"CONNECTED", "ERROR"} /\ upJob' = upJob
        /\ bpc' = [bpc EXCEPT ![j] = "finish"]
    BY <1>19 DEF PublishConnected, PublishError, To
  <2>2. bpc'[j] = "finish"
    BY <1>0, <2>1 DEF TypeOK, TypeJobs
  <2> QED
    BY <2>1, <2>2, Published DEF UpJobOwned
<1>20. ASSUME NEW j \in Jobs, Finish(j) PROVE BusyOwned' /\ UpJobOwned'
  <2>1. /\ bpc[j] = "finish" /\ bpc' = [bpc EXCEPT ![j] = "done"] /\ ~upJob'
        /\ UNCHANGED <<dropped, stage, inbox, spc, rpc, wd>>
    BY <1>20 DEF Finish, To
  <2>2. \A k \in Jobs : k # j => bpc'[k] = bpc[k]
    BY <1>0, <2>1 DEF TypeOK, TypeJobs
  <2>3. \A k \in Jobs : Bringing(k) => Bringing(k)'
    BY <2>1, <2>2 DEF Bringing
  <2>4. \A k \in Jobs : bpc[k] = "error" => bpc'[k] = "error"
    BY <2>1, <2>2
  <2> QED
    BY <1>d, <1>e, <2>1, <2>3, <2>4, OwnersStay DEF UpJobOwned
<1>21. ASSUME NEW w \in Jobs, Observe(w) PROVE BusyOwned' /\ UpJobOwned'
  <2> DEFINE d == [wd EXCEPT ![w].seen = eng[wd[w].engine].state]
  <2>1. UNCHANGED <<dropped, stage, inbox, bpc, spc, upJob>>
    BY <1>21 DEF Observe
  <2>2. d \in [Jobs -> WatchdogRec] /\ \A v \in Jobs : d[v].cancelled = wd[v].cancelled
    <3>1. [wd[w] EXCEPT !.seen = eng[wd[w].engine].state] \in WatchdogRec
      <4>1. wd[w].engine \in Jobs /\ wd[w] \in WatchdogRec
        BY <1>0, <1>21 DEF Observe, WatchdogsBuilt, TypeOK, TypeWatchdogs, WatchdogRec
      <4>2. eng[wd[w].engine].state \in EngineStates
        BY <1>0, <4>1 DEF TypeOK, TypeWorld, EngineRec
      <4> QED
        BY <4>1, <4>2 DEF WatchdogRec
    <3>2. d = [wd EXCEPT ![w] = [wd[w] EXCEPT !.seen = eng[wd[w].engine].state]]
      BY <1>0 DEF TypeOK, TypeWatchdogs
    <3> HIDE DEF d
    <3> QED
      BY <1>0, <3>1, <3>2 DEF TypeOK, TypeWatchdogs, WatchdogRec
  <2>3. ReportFault(w, d) \/ (wd' = d /\ rpc' = rpc)
    BY <1>21 DEF Observe
  <2> HIDE DEF d
  <2>4. \A v \in Jobs : Mending(v) => Mending(v)'
    BY <1>0, <2>2, <2>3, ReportMends DEF Mending
  <2> QED
    BY <1>a, <1>e, <2>1, <2>4
<1>22. ASSUME NEW w \in Jobs, PumpReport(w) PROVE BusyOwned' /\ UpJobOwned'
  <2>1. UNCHANGED <<dropped, stage, inbox, bpc, spc, upJob>> /\ ReportFault(w, wd)
    BY <1>22 DEF PumpReport
  <2>2. \A v \in Jobs : Mending(v) => Mending(v)'
    BY <1>0, <2>1, ReportMends DEF TypeOK, TypeWatchdogs
  <2> QED
    BY <1>a, <1>e, <2>1, <2>2
<1>23. ASSUME NEW w \in Jobs, RecoveryTry(w) PROVE BusyOwned' /\ UpJobOwned'
  <2>1. rpc[w] = "try" /\ UNCHANGED <<dropped, inbox, bpc, spc, upJob, wd>>
    BY <1>23 DEF RecoveryTry
  <2>2. CASE stage' = stage /\ RecoveryTo(w, "drop")
    BY <1>0, <2>1, <2>2, RecoveryGoesOn DEF RecoveryTo
  <2>3. CASE stage' = stage /\ RecoveryTo(w, "end") /\ wd[w].cancelled
    <3>1. ~Mending(w)
      BY <2>1, <2>3 DEF Mending
    <3> QED
      BY <1>0, <2>1, <2>3, <3>1, RecoveryGoesOn DEF RecoveryTo
  <2>4. CASE stage' = stage /\ RecoveryTo(w, "delay")
    BY <1>0, <2>1, <2>4, RecoveryGoesOn DEF RecoveryTo
  <2>5. CASE stage' = "RECONNECTING" /\ RecoveryTo(w, "delay") /\ ~wd[w].cancelled
    <3>1. rpc'[w] = "delay"
      BY <1>0, <2>5 DEF RecoveryTo, TypeOK, TypeWatchdogs
    <3>2. Mending(w)'
      BY <2>1, <2>5, <3>1 DEF Mending
    <3> QED
      BY <1>b, <2>1, <2>5, <3>2 DEF BusyOwned
  <2> QED
    BY <1>23, <2>2, <2>3, <2>4, <2>5 DEF RecoveryTry
<1>24. ASSUME NEW w \in Jobs, RecoveryDelay(w) PROVE BusyOwned' /\ UpJobOwned'
  <2>1. rpc[w] = "delay" /\ UNCHANGED <<dropped, stage, inbox, bpc, spc, upJob, wd>>
    BY <1>24 DEF RecoveryDelay
  <2>2. CASE RecoveryTo(w, "end") /\ wd[w].cancelled
    <3>1. ~Mending(w)
      BY <2>1, <2>2 DEF Mending
    <3> QED
      BY <1>0, <2>1, <2>2, <3>1, RecoveryGoesOn DEF RecoveryTo
  <2>3. CASE RecoveryTo(w, "plumb")
    BY <1>0, <2>1, <2>3, RecoveryGoesOn DEF RecoveryTo
  <2> QED
    BY <1>24, <2>2, <2>3 DEF RecoveryDelay
<1>25. ASSUME NEW w \in Jobs,
              ReconnectEngine(w) \/ ReconnectRoute(w) \/ ReconnectRouter(w) \/ ReconnectResult(w)
              \/ GiveUpDrop(w)
       PROVE  BusyOwned' /\ UpJobOwned'
  <2>1. /\ UNCHANGED <<dropped, stage, inbox, bpc, spc, upJob, wd>>
        /\ rpc[w] \in {"plumb", "route", "assign", "result", "drop"}
    BY <1>25 DEF ReconnectEngine, ReconnectRoute, ReconnectRouter, ReconnectResult, GiveUpDrop
  <2>2. \E pc \in {"try", "route", "assign", "result", "publish", "lock"} :
           rpc' = [rpc EXCEPT ![w] = pc] /\ (rpc[w] = "drop" => pc = "lock")
    BY <1>25 DEF ReconnectEngine, ReconnectRoute, ReconnectRouter, ReconnectResult, GiveUpDrop,
              RecoveryTo, Failed
  <2> QED
    BY <1>0, <2>1, <2>2, RecoveryGoesOn
<1>26. ASSUME NEW w \in Jobs, GiveUpTeardown(w) PROVE BusyOwned' /\ UpJobOwned'
  <2>1. rpc'[w] = "error" /\ UNCHANGED <<dropped, stage, inbox, bpc, spc, upJob>>
    BY <1>0, <1>26 DEF GiveUpTeardown, RecoveryTo, TypeOK, TypeWatchdogs
  <2> QED
    BY <1>b, <1>e, <2>1, OwnersStay DEF Bringing
<1>27. ASSUME NEW w \in Jobs, RecoveryPublish(w) \/ GiveUpPublish(w)
       PROVE  BusyOwned' /\ UpJobOwned'
  BY <1>27, <1>b, Published DEF RecoveryPublish, GiveUpPublish
<1>28. ASSUME NEW w \in Jobs, RecoveryEnd(w) PROVE BusyOwned' /\ UpJobOwned'
  <2>1. /\ UNCHANGED <<dropped, stage, inbox, bpc, spc, upJob>> /\ rpc[w] = "end"
        /\ rpc' = [rpc EXCEPT ![w] = "none"] /\ wd' = [wd EXCEPT ![w].reconnecting = FALSE]
    BY <1>28 DEF RecoveryEnd, RecoveryTo
  <2>2. \A v \in Jobs : Mending(v) => Mending(v)'
    BY <1>0, <2>1 DEF Mending, TypeOK, TypeWatchdogs
  <2> QED
    BY <1>a, <1>e, <2>1, <2>2
<1>29. CASE Traffic \/ \E e \in Jobs : EngineDies(e) \/ EngineLost(e)
  <2>1. UNCHANGED <<dropped, stage, inbox, bpc, spc, upJob, rpc, wd>>
    BY <1>29 DEF Traffic, PumpFault, EngineDies, EngineLost
  <2> QED
    BY <1>a, <1>d, <1>e, <2>1
<1>30. CASE DispatchDrops
  <2>1. dropped' /\ UNCHANGED <<stage, bpc, spc, upJob, rpc, wd>>
    BY <1>30 DEF DispatchDrops
  <2> QED
    BY <1>b, <1>d, <2>1, OwnersStay DEF Bringing
<1>31. CASE UNCHANGED vars
  BY <1>31, <1>a, <1>d, <1>e DEF vars
<1> QED
  BY <1>1, <1>2, <1>3, <1>4, <1>5, <1>6, <1>7, <1>8, <1>9, <1>10, <1>11, <1>12, <1>13, <1>14,
     <1>15, <1>16, <1>17, <1>18, <1>19, <1>20, <1>21, <1>22, <1>23, <1>24, <1>25, <1>26, <1>27,
     <1>28, <1>29, <1>30, <1>31
     DEF Next, ApplyStep, StopStep, BringUpStep, WatchdogStep, RecoveryStep, TunReadFails

\* Nothing is busy at the start.
LEMMA InitBusyOwned == Init => BusyOwned /\ UpJobOwned
  BY DEF Init, BusyOwned, UpJobOwned

\* The UI is never left in CONNECTING or RECONNECTING with nobody to end it but
\* after a connect that came to nothing: not by a stop during a recovery's delay,
\* a give-up, a failed bring-up, a revocation, a bring-up that finds another at
\* work or a death of the process, for any number of overlapping sessions.  It
\* is the safety side of BusyEnds.
THEOREM BusyOwnedAlways == Spec => []BusyOwned
<1>1. Init => BusyOwned /\ UpJobOwned
  BY InitBusyOwned
<1>2. IInv /\ BusyOwned /\ UpJobOwned /\ [Next]_vars => BusyOwned' /\ UpJobOwned'
  BY StepBusyOwned
<1> QED
  BY <1>1, <1>2, AlwaysIInv, PTL DEF Spec
==============================================================================
