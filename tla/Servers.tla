------------------------------ MODULE Servers -------------------------------
(***************************************************************************)
(* What the Servers screen fills in the background, three parts that share *)
(* no state:                                                               *)
(*   - ValidatorStatusChecker: the check and "check all" buttons;          *)
(*   - VpnGateController over RemoteVpnGateSource: the VPN Gate catalogue, *)
(*     a process-wide object driven from the screens' own scopes, which    *)
(*     are cancelled when the screen goes;                                 *)
(*   - refreshFreeProxies with FreeProxyHealthChecker over                 *)
(*     RemoteFreeProxySource: the list of free proxies.                    *)
(* Their coroutines run on the main thread and wait for the network on I/O *)
(* threads.                                                                *)
(*                                                                         *)
(* External: the network, and the caches' preferences.                     *)
(***************************************************************************)
EXTENDS Naturals, Sequences, SequencesExt, FiniteSets

CONSTANTS
    Keys,           \* servers to check
    Pool,           \* candidates of a free list
    MaxConcurrency, \* maxConcurrency of the checker
    MaxChecks,      \* bound on checks
    MaxRefreshes,   \* bound on refreshes
    MaxScreens      \* bound on screens that come and go

ASSUME ServersAssumption ==
    /\ MaxConcurrency \in Nat \ {0} /\ MaxChecks \in Nat
    /\ MaxRefreshes \in Nat /\ MaxScreens \in Nat
    /\ IsFiniteSet(Pool) /\ IsFiniteSet(Keys) /\ Keys # {}

Checks == 1 .. MaxChecks
Refreshes == 1 .. MaxRefreshes

VARIABLES
    statuses, check, checks,
    refreshState,  \* of the VPN Gate catalogue
    catalogue,     \* the fetch its rows come from, 0 when empty
    gateCache,     \* the fetch its cache comes from, 0 when cold
    refreshLock, refresh, refreshes, screens,
    freeBusy, freeState, freeProxies, liveSoFar, progress,
    sweep,         \* [Refreshes -> [pc, left]]: each refreshFreeProxies
    sweeps,
    freeCache      \* "none", the "raw" candidates or a "green" snapshot

statusVars == <<statuses, check, checks>>
gateVars == <<refreshState, catalogue, gateCache, refreshLock, refresh, refreshes, screens>>
freeVars == <<freeBusy, freeState, freeProxies, liveSoFar, progress, sweep, sweeps, freeCache>>

-----------------------------------------------------------------------------
(***************************************************************************)
(* StatusChecker.                                                          *)
(***************************************************************************)

NoCheck == [pc |-> "none", key |-> CHOOSE k \in Keys : TRUE, permit |-> FALSE]

StatusInit ==
    /\ statuses = [k \in Keys |-> "Unknown"]
    /\ check = [c \in Checks |-> NoCheck] /\ checks = 0

\* check: one server, outside the semaphore.
CheckOne(k) ==
    /\ checks < MaxChecks /\ checks' = checks + 1
    /\ statuses' = [statuses EXCEPT ![k] = "Checking"]
    /\ check' = [check EXCEPT ![checks + 1] = [pc |-> "validate", key |-> k, permit |-> FALSE]]

\* checkAll: all of them are marked, and then wait for a permit each.
CheckAll ==
    /\ checks + Cardinality(Keys) <= MaxChecks /\ checks' = checks + Cardinality(Keys)
    /\ statuses' = [k \in Keys |-> "Checking"]
    /\ LET order == SetToSeq(Keys)
       IN check' = [c \in Checks |->
                       IF c \in checks + 1 .. checks + Len(order)
                       THEN [pc |-> "queued", key |-> order[c - checks], permit |-> FALSE]
                       ELSE check[c]]

WithPermit(c) ==
    /\ check[c].pc = "queued"
    /\ Cardinality({d \in Checks : check[d].pc = "validate" /\ check[d].permit}) < MaxConcurrency
    /\ check' = [check EXCEPT ![c].pc = "validate", ![c].permit = TRUE]
    /\ UNCHANGED <<statuses, checks>>

\* The validator answers, one way or the other, and it is published.
Validated(c) ==
    /\ check[c].pc = "validate"
    /\ \E s \in {"Reachable", "Unreachable"} : statuses' = [statuses EXCEPT ![check[c].key] = s]
    /\ check' = [check EXCEPT ![c] = NoCheck]
    /\ UNCHANGED checks

Checking(c) == WithPermit(c) \/ Validated(c)

StatusNext ==
    \/ \E k \in Keys : CheckOne(k)
    \/ CheckAll
    \/ \E c \in Checks : Checking(c)

-----------------------------------------------------------------------------
(***************************************************************************)
(* VpnGateController.                                                      *)
(***************************************************************************)

GateInit ==
    /\ refreshState = "Idle" /\ catalogue = 0 /\ gateCache = 0 /\ refreshLock = 0
    /\ refresh = [r \in Refreshes |-> [pc |-> "none", cancelled |-> FALSE]]
    /\ refreshes = 0 /\ screens = 0

RefreshAt(r, pc) == refresh[r].pc = pc
RefreshGoes(r, pc) == refresh' = [refresh EXCEPT ![r].pc = pc]

\* The button, which is disabled while loading.
RefreshTap ==
    /\ refreshState # "Loading"
    /\ refreshes < MaxRefreshes /\ refreshes' = refreshes + 1
    /\ RefreshGoes(refreshes + 1, "wait")
    /\ UNCHANGED <<refreshState, catalogue, gateCache, refreshLock, screens>>

\* refresh, in the lock, up to the fetch; a cancelled waiter gives up.
RefreshLocked(r) ==
    /\ RefreshAt(r, "wait")
    /\ \/ /\ ~refresh[r].cancelled /\ refreshLock = 0 /\ refreshLock' = r
          /\ refreshState' = "Loading" /\ RefreshGoes(r, "fetch")
       \/ refresh[r].cancelled /\ RefreshGoes(r, "done") /\ UNCHANGED <<refreshLock, refreshState>>
    /\ UNCHANGED <<catalogue, gateCache, refreshes, screens>>

FetchDone(r) == RefreshAt(r, "fetch") /\ RefreshGoes(r, "done") /\ refreshLock' = 0

\* Mutant: fetch lets the cancellation through, and refresh rethrows it.
FetchedRethrows(r) ==
    /\ FetchDone(r)
    /\ \/ /\ ~refresh[r].cancelled
          /\ gateCache' = r /\ catalogue' = r /\ refreshState' = "Success"
       \/ /\ ~refresh[r].cancelled /\ gateCache # 0
          /\ catalogue' = gateCache /\ refreshState' = "Success" /\ UNCHANGED gateCache
       \/ /\ ~refresh[r].cancelled /\ gateCache = 0
          /\ refreshState' = "Error" /\ UNCHANGED <<catalogue, gateCache>>
       \/ refresh[r].cancelled /\ UNCHANGED <<catalogue, gateCache, refreshState>>
    /\ UNCHANGED <<refreshes, screens>>

\* fetch returns: new rows, or what the cache has, or nothing; a cancellation
\* is caught like any other failure.
Fetched(r) ==
    /\ FetchDone(r)
    /\ \/ /\ ~refresh[r].cancelled
          /\ gateCache' = r /\ catalogue' = r /\ refreshState' = "Success"
       \/ /\ gateCache # 0
          /\ catalogue' = gateCache /\ refreshState' = "Success" /\ UNCHANGED gateCache
       \/ /\ gateCache = 0
          /\ refreshState' = "Error" /\ UNCHANGED <<catalogue, gateCache>>
    /\ UNCHANGED <<refreshes, screens>>

\* A screen goes, and its refreshes are cancelled.
ScreenGoes(r) ==
    /\ refresh[r].pc \in {"wait", "fetch"} /\ ~refresh[r].cancelled
    /\ refresh' = [refresh EXCEPT ![r].cancelled = TRUE]
    /\ UNCHANGED <<refreshState, catalogue, gateCache, refreshLock, refreshes, screens>>

\* A screen comes: loadCache, outside the lock.
LoadCache ==
    /\ screens < MaxScreens /\ screens' = screens + 1
    /\ IF gateCache = 0 THEN UNCHANGED <<catalogue, refreshState>>
                        ELSE catalogue' = gateCache /\ refreshState' = "Success"
    /\ UNCHANGED <<gateCache, refreshLock, refresh, refreshes>>

Refreshing(r) == RefreshLocked(r) \/ Fetched(r)

GateNext ==
    \/ RefreshTap \/ LoadCache
    \/ \E r \in Refreshes : Refreshing(r) \/ ScreenGoes(r)

-----------------------------------------------------------------------------
(***************************************************************************)
(* refreshFreeProxies.                                                     *)
(***************************************************************************)

NoSweep == [pc |-> "none", left |-> {}]

FreeInit ==
    /\ freeBusy = FALSE /\ freeState = "Idle" /\ freeProxies = <<>> /\ liveSoFar = <<>>
    /\ progress = [checked |-> 0, total |-> 0, live |-> 0]
    /\ sweep = [r \in Refreshes |-> NoSweep] /\ sweeps = 0
    /\ freeCache = "none"

\* The button, which is disabled while busy.
RefreshFree ==
    /\ ~freeBusy /\ sweeps < MaxRefreshes /\ sweeps' = sweeps + 1
    /\ freeBusy' = TRUE /\ freeState' = "Loading"
    /\ sweep' = [sweep EXCEPT ![sweeps + 1].pc = "fetch"]
    /\ UNCHANGED <<freeProxies, liveSoFar, progress, freeCache>>

FreeDone(r) == sweep' = [sweep EXCEPT ![r] = [NoSweep EXCEPT !.pc = "done"]] /\ freeBusy' = FALSE

\* No source answers: the cache is shown, or the error.
FetchFails(r) ==
    /\ sweep[r].pc = "fetch" /\ FreeDone(r)
    /\ \/ freeCache = "none" /\ freeState' = "Error" /\ UNCHANGED freeProxies
       \/ freeCache # "none" /\ freeState' \in {"Empty", "Success"}
          /\ freeProxies' = IF freeState' = "Empty" THEN <<>> ELSE SetToSeq(Pool)
    /\ UNCHANGED <<liveSoFar, progress, sweeps, freeCache>>

\* Mutant: a sweep goes on from the list of the last one.
SweepBeginsOver(r) ==
    /\ sweep[r].pc = "fetch" /\ freeProxies' \in {freeProxies, liveSoFar}
    /\ \E candidates \in {Pool, {}} :
        /\ sweep' = [sweep EXCEPT ![r] = [pc |-> "sweep", left |-> candidates]]
        /\ progress' = [checked |-> 0, total |-> Cardinality(candidates), live |-> Len(liveSoFar)]
    /\ freeCache' = "raw"
    /\ UNCHANGED <<freeBusy, freeState, liveSoFar, sweeps>>

\* A fresh list of candidates is cached, and its sweep begins; under power save
\* it has nothing to check.  The stream is collected first, and brings the list
\* of the last sweep once more.
SweepBegins(r) ==
    /\ sweep[r].pc = "fetch" /\ freeProxies' \in {freeProxies, liveSoFar}
    /\ \E candidates \in {Pool, {}} :
        /\ sweep' = [sweep EXCEPT ![r] = [pc |-> "sweep", left |-> candidates]]
        /\ progress' = [checked |-> 0, total |-> Cardinality(candidates), live |-> 0]
    /\ liveSoFar' = <<>>
    /\ freeCache' = "raw"
    /\ UNCHANGED <<freeBusy, freeState, sweeps>>

\* A candidate is found alive, and goes into the list; or dead.
Swept(r, e) ==
    /\ sweep[r].pc = "sweep" /\ e \in sweep[r].left
    /\ sweep' = [sweep EXCEPT ![r].left = @ \ {e}]
    /\ \/ /\ liveSoFar' = Append(liveSoFar, e)
          /\ progress' = [progress EXCEPT !.checked = @ + 1, !.live = @ + 1]
       \/ progress' = [progress EXCEPT !.checked = @ + 1] /\ UNCHANGED liveSoFar
    /\ UNCHANGED <<freeBusy, freeState, freeProxies, sweeps, freeCache>>

\* The stream of survivors reaches the screen.
Stream(r) ==
    /\ sweep[r].pc = "sweep" /\ freeProxies' = liveSoFar
    /\ UNCHANGED <<freeBusy, freeState, liveSoFar, progress, sweep, sweeps, freeCache>>

\* The sweep is over: the survivors are shown, and stored for the next time.
SweepEnds(r) ==
    /\ sweep[r].pc = "sweep" /\ sweep[r].left = {}
    /\ FreeDone(r) /\ freeProxies' = liveSoFar
    /\ freeState' = IF liveSoFar = <<>> THEN "Empty" ELSE "Success"
    /\ freeCache' = "green"
    /\ UNCHANGED <<liveSoFar, progress, sweeps>>

\* The screen is left for good, or the process dies: only the cache remains.
FreeLeft ==
    /\ freeBusy' = FALSE /\ freeState' = "Idle" /\ freeProxies' = <<>> /\ liveSoFar' = <<>>
    /\ progress' = [checked |-> 0, total |-> 0, live |-> 0]
    /\ sweep' = [r \in Refreshes |-> IF sweep[r].pc = "none" THEN NoSweep
                                                           ELSE [NoSweep EXCEPT !.pc = "done"]]
    /\ UNCHANGED <<sweeps, freeCache>>

\* loadFreeProxiesFromCache.
LoadFree ==
    /\ ~freeBusy /\ freeProxies = <<>> /\ freeCache # "none"
    /\ freeState' \in {"Empty", "Success"}
    /\ freeProxies' = IF freeState' = "Empty" THEN <<>> ELSE SetToSeq(Pool)
    /\ UNCHANGED <<freeBusy, liveSoFar, progress, sweep, sweeps, freeCache>>

Sweeping(r) ==
    FetchFails(r) \/ SweepBegins(r) \/ (\E e \in Pool : Swept(r, e)) \/ SweepEnds(r)

FreeNext ==
    \/ RefreshFree \/ FreeLeft \/ LoadFree
    \/ \E r \in Refreshes : Sweeping(r) \/ Stream(r)

FreeSpec == FreeInit /\ [][FreeNext]_freeVars

-----------------------------------------------------------------------------
FreeTypeOK ==
    /\ freeBusy \in BOOLEAN
    /\ freeState \in {"Idle", "Loading", "Success", "Empty", "Error"}
    /\ freeProxies \in Seq(Pool) /\ liveSoFar \in Seq(Pool)
    /\ progress \in [checked : Nat, total : Nat, live : Nat]
    /\ sweep \in [Refreshes -> [pc : {"none", "fetch", "sweep", "done"}, left : SUBSET Pool]]
    /\ sweeps \in 0 .. MaxRefreshes
    /\ freeCache \in {"none", "raw", "green"}

StatusTypeOK ==
    /\ statuses \in [Keys -> {"Unknown", "Checking", "Reachable", "Unreachable"}]
    /\ check \in [Checks -> [pc : {"none", "queued", "validate"}, key : Keys, permit : BOOLEAN]]
    /\ checks \in 0 .. MaxChecks

GateTypeOK ==
    /\ refreshState \in {"Idle", "Loading", "Success", "Error"}
    /\ {catalogue, gateCache, refreshLock, refreshes} \subseteq 0 .. MaxRefreshes
    /\ refresh \in [Refreshes -> [pc : {"none", "wait", "fetch", "done"}, cancelled : BOOLEAN]]
    /\ screens \in 0 .. MaxScreens

\* Every variable has its type.
ServersTypeOK == StatusTypeOK /\ GateTypeOK /\ FreeTypeOK

\* No list stays "checking" or "loading": not a server of two overlapping
\* batches, not a catalogue whose screen went away in the middle of a fetch.
ListsSettle ==
    /\ \A k \in Keys : statuses[k] = "Checking" ~> statuses[k] # "Checking"
    /\ refreshState = "Loading" ~> refreshState # "Loading"
    /\ freeState = "Loading" ~> freeState # "Loading"

\* Rows and counters belong to one sweep: no server is listed twice (the list
\* uses its key as the identity of a row), and what is checked and what is left
\* add up to the candidates.
SweepHonest ==
    /\ IsInjective(freeProxies)
    /\ progress.live = Len(liveSoFar)
    /\ \A r \in Refreshes :
        sweep[r].pc = "sweep" => progress.checked + Cardinality(sweep[r].left) = progress.total

-----------------------------------------------------------------------------
(***************************************************************************)
(* The parts of the inductive invariant of refreshFreeProxies.             *)
(***************************************************************************)

\* The disabled button leaves at most one refresh under way.
Refreshed(r) == sweep[r].pc \in {"fetch", "sweep"}
OneSweep ==
    \A r \in Refreshes :
        /\ Refreshed(r) => freeBusy
        /\ \A s \in Refreshes : Refreshed(r) /\ Refreshed(s) => r = s
        /\ r > sweeps => sweep[r].pc = "none"

\* A survivor is listed once, and is not up for another check.
RowsOnce ==
    /\ IsInjective(liveSoFar)
    /\ \A r \in Refreshes :
        sweep[r].pc = "sweep" => \A n \in DOMAIN liveSoFar : liveSoFar[n] \notin sweep[r].left

\* What every step preserves.
FreeInv == FreeTypeOK /\ OneSweep /\ RowsOnce /\ SweepHonest

-----------------------------------------------------------------------------
(***************************************************************************)
(* Somebody is at work on whatever shows work in progress: the safety side *)
(* of ListsSettle.                                                         *)
(***************************************************************************)

\* A server that is shown as being checked has a check under way, also where
\* batches overlap and the answer of one lands in the other.
ChecksOwned ==
    /\ \A k \in Keys : statuses[k] = "Checking"
                           => \E c \in Checks : check[c].pc # "none" /\ check[c].key = k
    /\ \A c \in Checks : c > checks => check[c].pc = "none"

\* Who holds refreshLock is fetching, nobody else is, and a catalogue is shown
\* as loading by its holder only.
FetchOwned ==
    /\ \A r \in Refreshes : refresh[r].pc = "fetch" <=> refreshLock = r
    /\ \A r \in Refreshes : r > refreshes => refresh[r].pc = "none"
    /\ refreshState = "Loading" => refreshLock # 0

\* A busy list has a refresh under way, and only a busy one is loading.
SweepOwned ==
    /\ freeBusy => \E r \in Refreshes : Refreshed(r)
    /\ freeState = "Loading" => freeBusy

ListsOwned == ChecksOwned /\ FetchOwned /\ SweepOwned
=============================================================================
