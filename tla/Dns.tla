--------------------------------- MODULE Dns ---------------------------------
(***************************************************************************)
(* In-tunnel name resolution: DnsInterceptor (LeakPolicy.kt), which caches *)
(* answers, lets identical concurrent queries share one lookup and caps    *)
(* the lookups, over CompositeDnsResolver, which tries its transports      *)
(* (DoH, DoT, TCP) from a sticky head.                                     *)
(*                                                                         *)
(* Each member of Queries is one call of resolve, on a coroutine of its    *)
(* own; a step is what runs between two suspension points or two accesses  *)
(* to shared state.  A DNS message is its transaction ID (the query whose  *)
(* ID it carries) and the time at which it was fetched.  Transports are    *)
(* numbered from 0, as in the list; the network makes them work and fail.  *)
(***************************************************************************)
EXTENDS Naturals, FiniteSets

CONSTANTS
    Queries,      \* calls of resolve
    Keys,         \* question sections: name, type and class
    Transports,   \* resolvers.size
    MaxPermits,   \* MAX_CONCURRENT
    Ttl,          \* CACHE_TTL_MS, in ticks
    MaxTime,      \* bound on the clock
    MaxFlaps,     \* bound on transports changing between working and failing
    Scoped,       \* queries of the scope that TunRouter.stop cancels
    None,         \* null
    Open          \* the value of a deferred that has not been completed

ASSUME BoundsAssumption ==
    /\ Transports \in Nat \ {0} /\ MaxPermits \in Nat \ {0}
    /\ Ttl \in Nat /\ MaxTime \in Nat /\ MaxFlaps \in Nat
ASSUME ScopeAssumption == Scoped \subseteq Queries

Indices == 0 .. Transports - 1
Messages == [id : Queries, at : Nat]
Entries == [answer : Messages, expires : Nat]

ASSUME NullAssumption ==
    /\ None \notin Queries /\ None \notin Messages /\ None \notin Entries
    /\ Open # None /\ Open \notin Messages

VARIABLES
    clock,      \* System.currentTimeMillis()
    up,         \* transports that answer at the moment
    flaps,      \* what is left of MaxFlaps
    cache,      \* DnsInterceptor.cache
    inFlight,   \* DnsInterceptor.inFlight: key to the query that owns its lookup
    permits,    \* free permits of gate
    head,       \* CompositeDnsResolver.head
    pc,         \* where each query stands
    local,      \* the local variables of each query
    deferred,   \* the CompletableDeferred of each owner: Open, or its value
    result,     \* what each query returned
    cancelled,  \* the scope of the Scoped queries has been cancelled
    steady      \* history: transports that never failed during a query's lookup

netVars == <<clock, up, flaps>>
sharedVars == <<cache, inFlight, permits, head, deferred>>
vars == <<netVars, sharedVars, pc, local, result, cancelled, steady>>

NoLocal == [key |-> None, now |-> 0, seen |-> None, owner |-> None,
            start |-> 0, offset |-> 0, answer |-> None]

Init ==
    /\ clock = 0 /\ flaps = MaxFlaps /\ up \in SUBSET Indices
    /\ cache = [k \in Keys |-> None]
    /\ inFlight = [k \in Keys |-> None]
    /\ permits = MaxPermits
    /\ head = 0
    /\ pc = [q \in Queries |-> "idle"]
    /\ local = [q \in Queries |-> NoLocal]
    /\ deferred = [q \in Queries |-> Open]
    /\ result = [q \in Queries |-> None]
    /\ cancelled = FALSE
    /\ steady = [q \in Queries |-> {}]

Key(q) == local[q].key
Cancelled(q) == cancelled /\ q \in Scoped
Goto(q, l) == pc' = [pc EXCEPT ![q] = l]
Set(q, rec) == local' = [local EXCEPT ![q] = rec]

\* Mutant: a cached or shared answer goes out as it is.
WithIdForgotten(answer, q) == answer

\* DnsMessage.withId: the answer with its transaction ID overwritten.
WithId(answer, q) == IF answer = None THEN None ELSE [answer EXCEPT !.id = q]

Return(q, answer) ==
    /\ Goto(q, "done")
    /\ result' = [result EXCEPT ![q] = answer]

-----------------------------------------------------------------------------
(***************************************************************************)
(* DnsInterceptor.resolve.                                                 *)
(***************************************************************************)

\* A query comes in; `now` is read once and for all.  A message without a
\* question key returns null at once and is left out.
Ask(q, k) ==
    /\ pc[q] = "idle" /\ ~Cancelled(q)
    /\ Set(q, [NoLocal EXCEPT !.key = k, !.now = clock])
    /\ Goto(q, "cache")
    /\ UNCHANGED <<netVars, sharedVars, result, cancelled, steady>>

\* cache[key]: an entry that is still good is the answer.
Lookup(q) ==
    /\ pc[q] = "cache"
    /\ LET entry == cache[Key(q)] IN
         \/ /\ entry = None
            /\ Goto(q, "lock")
            /\ UNCHANGED <<local, result>>
         \/ /\ entry # None
            /\ entry.expires > local[q].now
            /\ Return(q, WithId(entry.answer, q))
            /\ UNCHANGED local
         \/ /\ entry # None
            /\ ~(entry.expires > local[q].now)
            /\ Set(q, [local[q] EXCEPT !.seen = entry])
            /\ Goto(q, "evict")
            /\ UNCHANGED result
    /\ UNCHANGED <<netVars, sharedVars, cancelled, steady>>

\* Mutant: cache.remove(key) instead of cache.remove(key, entry).
EvictAnything(q) ==
    /\ pc[q] = "evict"
    /\ cache' = [cache EXCEPT ![Key(q)] = None]
    /\ Goto(q, "lock")
    /\ UNCHANGED <<netVars, inFlight, permits, head, deferred, local, result, cancelled, steady>>

\* cache.remove(key, entry): only the entry that was seen is removed.
Evict(q) ==
    /\ pc[q] = "evict"
    /\ cache' = IF cache[Key(q)] = local[q].seen THEN [cache EXCEPT ![Key(q)] = None] ELSE cache
    /\ Goto(q, "lock")
    /\ UNCHANGED <<netVars, inFlight, permits, head, deferred, local, result, cancelled, steady>>

\* Mutant: every query that misses the cache looks up for itself.
JoinOrOwnAlways(q) ==
    /\ pc[q] = "lock"
    /\ inFlight' = [inFlight EXCEPT ![Key(q)] = q]
    /\ Goto(q, "gate")
    /\ UNCHANGED <<netVars, cache, permits, head, deferred, local, result, cancelled, steady>>

\* Under inFlightLock: join the outstanding lookup of the key, or own a new one.
JoinOrOwn(q) ==
    /\ pc[q] = "lock"
    /\ \/ /\ inFlight[Key(q)] # None
          /\ Set(q, [local[q] EXCEPT !.owner = inFlight[Key(q)]])
          /\ Goto(q, "join")
          /\ UNCHANGED inFlight
       \/ /\ inFlight[Key(q)] = None
          /\ inFlight' = [inFlight EXCEPT ![Key(q)] = q]
          /\ Goto(q, "gate")
          /\ UNCHANGED local
    /\ UNCHANGED <<netVars, cache, permits, head, deferred, result, cancelled, steady>>

\* joined.await(): the owner's answer under this query's ID; a cancelled
\* waiter gives up.
Join(q) ==
    /\ pc[q] = "join"
    /\ \/ deferred[local[q].owner] # Open /\ Return(q, WithId(deferred[local[q].owner], q))
       \/ Cancelled(q) /\ Return(q, None)
    /\ UNCHANGED <<netVars, sharedVars, local, cancelled, steady>>

\* gate.withPermit, then CompositeDnsResolver.resolve reads its head.
Acquire(q) ==
    /\ pc[q] = "gate"
    /\ permits > 0
    /\ permits' = permits - 1
    /\ Set(q, [local[q] EXCEPT !.start = head, !.offset = 0])
    /\ steady' = [steady EXCEPT ![q] = up]
    /\ Goto(q, "try")
    /\ UNCHANGED <<netVars, cache, inFlight, head, deferred, result, cancelled>>

\* A cancelled owner waiting for a permit: the exception becomes a null answer.
AcquireCancelled(q) ==
    /\ pc[q] = "gate" /\ Cancelled(q)
    /\ Goto(q, "store")
    /\ UNCHANGED <<netVars, sharedVars, local, result, cancelled, steady>>

\* Mutant: the shared head is read again at every step of the pass.
TransportFromHead(q) == (head + local[q].offset) % Transports

\* The transport tried next: from the sticky head on, wrapping to earlier ones.
Transport(q) == (local[q].start + local[q].offset) % Transports

Leave(q, answer) ==
    /\ Set(q, [local[q] EXCEPT !.answer = answer])
    /\ permits' = permits + 1
    /\ Goto(q, "store")

\* One full pass without an answer.
Exhausted(q) ==
    /\ pc[q] = "try" /\ local[q].offset >= Transports
    /\ Leave(q, None)
    /\ UNCHANGED <<netVars, cache, inFlight, head, deferred, result, cancelled, steady>>

\* Mutant: for (offset in 0..resolvers.size).
TryOneMore(q) ==
    /\ pc[q] = "try" /\ local[q].offset <= Transports
    /\ \/ /\ Transport(q) \in up
          /\ head' = Transport(q)
          /\ Leave(q, [id |-> q, at |-> clock])
       \/ /\ Transport(q) \notin up
          /\ Set(q, [local[q] EXCEPT !.offset = @ + 1])
          /\ UNCHANGED <<head, permits, pc>>
    /\ UNCHANGED <<netVars, cache, inFlight, deferred, result, cancelled, steady>>

\* One transport: an answer makes it the new head, null leads to the next one.
Try(q) ==
    /\ pc[q] = "try" /\ local[q].offset < Transports
    /\ \/ /\ Transport(q) \in up
          /\ head' = Transport(q)
          /\ Leave(q, [id |-> q, at |-> clock])
       \/ /\ Transport(q) \notin up
          /\ Set(q, [local[q] EXCEPT !.offset = @ + 1])
          /\ UNCHANGED <<head, permits, pc>>
    /\ UNCHANGED <<netVars, cache, inFlight, deferred, result, cancelled, steady>>

\* Mutant: the permit is released on the way out of a normal return only.
TryCancelledKeepsPermit(q) ==
    /\ pc[q] = "try" /\ Cancelled(q)
    /\ Set(q, [local[q] EXCEPT !.answer = None])
    /\ Goto(q, "store")
    /\ UNCHANGED <<netVars, sharedVars, result, cancelled, steady>>

\* A cancelled transport throws; withPermit releases and resolve catches it.
TryCancelled(q) ==
    /\ pc[q] = "try" /\ Cancelled(q)
    /\ Leave(q, None)
    /\ UNCHANGED <<netVars, cache, inFlight, head, deferred, result, cancelled, steady>>

\* Mutant: the entry lives from the moment it is stored.
EntryFromNow(q) == [answer |-> local[q].answer, expires |-> clock + Ttl]

\* The entry lives from the moment the query came in.
Entry(q) == [answer |-> local[q].answer, expires |-> local[q].now + Ttl]

Store(q) ==
    /\ pc[q] = "store"
    /\ cache' = IF local[q].answer = None THEN cache ELSE [cache EXCEPT ![Key(q)] = Entry(q)]
    /\ Goto(q, "unlist")
    /\ UNCHANGED <<netVars, inFlight, permits, head, deferred, local, result, cancelled, steady>>

Unlist(q) ==
    /\ pc[q] = "unlist"
    /\ inFlight' = [inFlight EXCEPT ![Key(q)] = None]
    /\ Goto(q, "complete")
    /\ UNCHANGED <<netVars, cache, permits, head, deferred, local, result, cancelled, steady>>

\* A cancelled owner that meets the mutex held by another query suspends
\* there, and so throws: neither of the statements that follow is run.
UnlistCancelled(q) ==
    /\ pc[q] = "unlist" /\ Cancelled(q)
    /\ \E r \in Queries \ {q} : pc[r] \in {"lock", "unlist"}
    /\ Return(q, None)
    /\ UNCHANGED <<netVars, sharedVars, local, cancelled, steady>>

\* Mutant: an owner without an answer returns before it completes its deferred.
CompleteOnSuccess(q) ==
    /\ pc[q] = "complete"
    /\ deferred' = IF local[q].answer = None THEN deferred
                   ELSE [deferred EXCEPT ![q] = local[q].answer]
    /\ Return(q, WithId(local[q].answer, q))
    /\ UNCHANGED <<netVars, cache, inFlight, permits, head, local, cancelled, steady>>

Complete(q) ==
    /\ pc[q] = "complete"
    /\ deferred' = [deferred EXCEPT ![q] = local[q].answer]
    /\ Return(q, WithId(local[q].answer, q))
    /\ UNCHANGED <<netVars, cache, inFlight, permits, head, local, cancelled, steady>>

-----------------------------------------------------------------------------
(***************************************************************************)
(* The environment.                                                        *)
(***************************************************************************)

Tick ==
    /\ clock < MaxTime
    /\ clock' = clock + 1
    /\ UNCHANGED <<up, flaps, sharedVars, pc, local, result, cancelled, steady>>

\* A transport begins to work, or to fail.
Flap(t) ==
    /\ flaps > 0
    /\ flaps' = flaps - 1
    /\ up' = IF t \in up THEN up \ {t} ELSE up \cup {t}
    /\ steady' = [q \in Queries |-> steady[q] \cap up']
    /\ UNCHANGED <<clock, sharedVars, pc, local, result, cancelled>>

\* TunRouter.stop: dnsScope.cancel(), while queries of it are under way.
Cancel ==
    /\ Scoped # {} /\ ~cancelled
    /\ cancelled' = TRUE
    /\ UNCHANGED <<netVars, sharedVars, pc, local, result, steady>>

Step(q) ==
    \/ Lookup(q) \/ Evict(q) \/ JoinOrOwn(q) \/ Join(q)
    \/ Acquire(q) \/ AcquireCancelled(q) \/ Try(q) \/ TryCancelled(q) \/ Exhausted(q)
    \/ Store(q) \/ Unlist(q) \/ UnlistCancelled(q) \/ Complete(q)

Next ==
    \/ \E q \in Queries, k \in Keys : Ask(q, k)
    \/ \E q \in Queries : Step(q)
    \/ Tick
    \/ \E t \in Indices : Flap(t)
    \/ Cancel

Spec == Init /\ [][Next]_vars

\* A coroutine that can go on is dispatched in the end, and the semaphore is
\* fair; a transport answers or times out.
Fairness == \A q \in Queries : WF_vars(Step(q)) /\ SF_vars(Acquire(q))

FairSpec == Spec /\ Fairness

-----------------------------------------------------------------------------
(***************************************************************************)
(* Properties.                                                             *)
(***************************************************************************)

Steps == {"idle", "cache", "evict", "lock", "join", "gate", "try", "store", "unlist",
          "complete", "done"}

Locals == [key : Keys \cup {None}, now : Nat, seen : Entries \cup {None},
           owner : Queries \cup {None}, start : Indices, offset : 0 .. Transports,
           answer : Messages \cup {None}]

\* Every variable has its type.
TypeOK ==
    /\ clock \in Nat /\ flaps \in Nat /\ up \subseteq Indices
    /\ cache \in [Keys -> Entries \cup {None}]
    /\ inFlight \in [Keys -> Queries \cup {None}]
    /\ permits \in Nat /\ head \in Indices
    /\ pc \in [Queries -> Steps]
    /\ local \in [Queries -> Locals]
    /\ deferred \in [Queries -> Messages \cup {None, Open}]
    /\ result \in [Queries -> Messages \cup {None}]
    /\ cancelled \in BOOLEAN
    /\ steady \in [Queries -> SUBSET Indices]

\* Identical concurrent queries share one upstream round trip: no two queries
\* for one key are with the gate or a transport at the same time.
SingleFlight ==
    \A q, r \in Queries :
        /\ q # r
        /\ pc[q] \in {"gate", "try"} /\ pc[r] \in {"gate", "try"}
        => Key(q) # Key(r)

\* An answer reaches its asker under the asker's own transaction ID, whether
\* it was fetched, cached or shared: otherwise the OS resolver drops it.
OwnId == \A q \in Queries : result[q] # None => result[q].id = q

\* A cached answer is never served to a query that came in later than Ttl
\* after the answer was fetched, however long its lookup and its store took.
ServedFresh ==
    \A q \in Queries :
        pc[q] = "done" /\ result[q] # None /\ local[q].answer = None /\ local[q].owner = None
        => local[q].now < result[q].at + Ttl

\* Evicting what has expired never costs a good answer that another query
\* has stored in the meantime.
KeepsGoodEntries ==
    [][\A k \in Keys : cache[k] # None /\ cache'[k] = None => cache[k].expires <= clock]_vars

\* A permit is free or held by a query at a transport: lookups that fail or
\* are cancelled give theirs back.
Holders == {q \in Queries : pc[q] = "try"}
PermitsKept == permits + Cardinality(Holders) = MaxPermits

\* A lookup comes back empty-handed only if every transport failed at some
\* moment of it, wherever the sticky head stood and however it moved.
FullPass ==
    \A q \in Queries :
        pc[q] = "store" /\ local[q].answer = None /\ ~Cancelled(q) => steady[q] = {}

\* Every query is answered, with null at worst: an owner always releases the
\* queries that joined it.
Answered == \A q \in Queries : pc[q] = "cache" ~> pc[q] = "done"

-----------------------------------------------------------------------------
(***************************************************************************)
(* The inductive invariant of the proofs.                                  *)
(***************************************************************************)

\* A query that has come in has its key, and one that joined has its owner.
KeysKnown ==
    \A q \in Queries :
        /\ pc[q] # "idle" => Key(q) \in Keys
        /\ pc[q] = "join" => local[q].owner \in Queries

\* From joining the table to leaving it, an owner is what the table says.
Listed ==
    \A q \in Queries : pc[q] \in {"gate", "try", "store", "unlist"} => inFlight[Key(q)] = q

\* No query comes from the future, and an answer is fetched after its query
\* came in; an entry outlives its answer by Ttl at most.
Timely ==
    /\ \A q \in Queries :
         /\ local[q].now <= clock
         /\ local[q].answer # None => local[q].now <= local[q].answer.at
         /\ pc[q] = "evict" => local[q].seen # None /\ local[q].seen.expires <= local[q].now
    /\ \A k \in Keys : cache[k] # None => cache[k].expires <= cache[k].answer.at + Ttl

\* A transport that has never failed is working, and none of those already
\* tried by a pass is one.
Passed ==
    \A q \in Queries :
        /\ steady[q] \subseteq up
        /\ pc[q] = "try" =>
             \A i \in Indices : i < local[q].offset
                            => (local[q].start + i) % Transports \notin steady[q]

\* The permits add up, over finitely many holders.
PermitsInv == IsFiniteSet(Holders) /\ PermitsKept

\* An owner on its way to complete its deferred, listed or already not.
Working(q) == pc[q] \in {"gate", "try", "store", "unlist"}

\* The table lists owners at work on the name they are listed under, and who has
\* joined an owner finds its deferred complete or the owner on its way there;
\* the exception is an owner whose scope was cancelled.
JoinersServed ==
    /\ \A k \in Keys : inFlight[k] # None =>
          Cancelled(inFlight[k]) \/ (Working(inFlight[k]) /\ Key(inFlight[k]) = k)
    /\ \A q \in Queries : pc[q] = "join" =>
          LET owner == local[q].owner IN
          \/ deferred[owner] # Open
          \/ Working(owner) \/ pc[owner] = "complete"
          \/ Cancelled(owner)

\* A query that has a statement of its own to run: it is neither waiting for a
\* permit that is not free, nor for a deferred that is open.
GoesOn(q) ==
    \/ pc[q] \in {"cache", "evict", "lock", "try", "store", "unlist", "complete"}
    \/ pc[q] = "gate" /\ permits > 0
    \/ pc[q] = "join" /\ deferred[local[q].owner] # Open

\* The queries never all wait for each other: with MAX_CONCURRENT lookups at the
\* transports, and everyone else at the gate or joined to one of those, somebody
\* goes on; unless a scope was cancelled, whose owners may leave waiters behind.
NoDeadlock ==
    ~cancelled /\ (\E q \in Queries : pc[q] \notin {"idle", "done"})
        => \E q \in Queries : GoesOn(q)

IInv == TypeOK /\ KeysKnown /\ Listed /\ Timely /\ OwnId /\ ServedFresh /\ Passed /\ FullPass
=============================================================================
