------------------------------ MODULE DnsProofs ------------------------------
(***************************************************************************)
(* Proofs about Dns, for every set of queries and names, every number of   *)
(* transports, permits and ticks, with or without cancellation: types; one *)
(* lookup per name at a time (SingleFlight); answers under the asker's ID  *)
(* (OwnId) and no older than their lifetime (ServedFresh); no good entry   *)
(* lost to an eviction (KeepsGoodEntries); no failed lookup while a        *)
(* transport works throughout (FullPass); and no query that waits for      *)
(* nobody, nor all of them for each other (JoinersServed, NoDeadlock).     *)
(*                                                                         *)
(* They rest on IInv of Dns, of which Listed and Timely are the heart: an  *)
(* owner is listed for as long as it may be at a transport, and the times  *)
(* of a query, of its answer and of the entry made of it are in order.     *)
(* Passed says how far a pass over the transports has come.  PermitsInv,   *)
(* that the permits add up (PermitsKept) over finitely many holders, is    *)
(* inductive on top of it, and so is JoinersServed.                        *)
(***************************************************************************)
EXTENDS Dns, FiniteSetTheorems, TLAPS

\* The initial states satisfy the invariant.
LEMMA InitIInv == ASSUME Init PROVE IInv
<1> USE DEF Init, Key
<1>1. NoLocal \in Locals
  BY BoundsAssumption DEF Locals, Indices, NoLocal
<1>2. 0 \in Indices
  BY BoundsAssumption DEF Indices
<1>3. TypeOK
  <2>1. local \in [Queries -> Locals]
    BY <1>1
  <2>2. pc \in [Queries -> Steps]
    BY DEF Steps
  <2> QED
    BY <1>2, <2>1, <2>2, BoundsAssumption DEF TypeOK
<1>4. KeysKnown /\ Listed
  BY DEF KeysKnown, Listed
<1>5. Timely /\ OwnId /\ ServedFresh
  BY DEF Timely, OwnId, ServedFresh, NoLocal
<1>6. Passed /\ FullPass
  BY DEF Passed, FullPass
<1> QED
  BY <1>3, <1>4, <1>5, <1>6 DEF IInv

\* An answer whose transaction ID is overwritten is a message of the asker,
\* fetched when it was.
LEMMA WithIdTyped ==
  ASSUME NEW q \in Queries, NEW answer \in Messages \cup {None}
  PROVE  /\ WithId(answer, q) \in Messages \cup {None}
         /\ WithId(answer, q) # None => /\ answer # None
                                       /\ WithId(answer, q).id = q
                                       /\ WithId(answer, q).at = answer.at
  BY DEF WithId, Messages

\* A pass that starts anywhere and wraps reaches every transport.
LEMMA EveryTransport ==
  ASSUME NEW s \in Indices, NEW t \in Indices
  PROVE  \E i \in Indices : (s + i) % Transports = t
<1> USE BoundsAssumption DEF Indices
<1>1. t % Transports = t /\ (t + Transports) % Transports = t
  BY SMT
<1>2. CASE t >= s
  <2>1. t - s \in Indices /\ s + (t - s) = t
    BY <1>2
  <2> QED
    BY <1>1, <2>1
<1>3. CASE t < s
  <2>1. t + Transports - s \in Indices /\ s + (t + Transports - s) = t + Transports
    BY <1>3
  <2> QED
    BY <1>1, <2>1
<1> QED
  BY <1>2, <1>3

\* Every step preserves the invariant: one step of the proof per action.
LEMMA StepIInv == ASSUME IInv, [Next]_vars PROVE IInv'
<1> USE DEF netVars, sharedVars
<1>0. /\ TypeOK /\ KeysKnown /\ Listed /\ Timely
      /\ OwnId /\ ServedFresh /\ Passed /\ FullPass
  BY DEF IInv
<1>1. ASSUME NEW q \in Queries, NEW k \in Keys, Ask(q, k) PROVE IInv'
  <2> USE <1>0, <1>1 DEF Ask, Goto, Set, Return, Key
  <2>1. TypeOK'
    <3>0. 0 \in Indices /\ 0 \in 0 .. Transports
      BY BoundsAssumption DEF Indices
    <3>1. [NoLocal EXCEPT !.key = k, !.now = clock] \in Locals
      BY <3>0 DEF TypeOK, Locals, NoLocal
    <3>2. local' \in [Queries -> Locals]
      BY <3>1 DEF TypeOK
    <3>3. pc' \in [Queries -> Steps]
      BY DEF TypeOK, Steps
    <3> QED
      BY <3>2, <3>3 DEF TypeOK
  <2>2. KeysKnown'
    BY DEF TypeOK, KeysKnown, Locals, NoLocal
  <2>3. Listed'
    BY NullAssumption DEF TypeOK, KeysKnown, Listed, Locals, NoLocal
  <2>4. Timely'
    BY BoundsAssumption DEF TypeOK, KeysKnown, Timely, Locals, Entries, Messages, NoLocal
  <2>5. OwnId'
    BY WithIdTyped DEF TypeOK, KeysKnown, OwnId, Locals, Entries
  <2>6. ServedFresh'
    BY BoundsAssumption, WithIdTyped DEF TypeOK, KeysKnown, Timely, ServedFresh,
       Locals, Entries, Messages, NoLocal
  <2>7. Passed'
    BY BoundsAssumption DEF TypeOK, Passed, Locals, Indices
  <2>8. FullPass'
    BY DEF TypeOK, FullPass, Cancelled, Locals
  <2> QED
    BY <2>1, <2>2, <2>3, <2>4, <2>5, <2>6, <2>7, <2>8 DEF IInv
<1>2. ASSUME NEW q \in Queries, Lookup(q) PROVE IInv'
  <2> USE <1>0, <1>2 DEF Lookup, Goto, Set, Return, Key
  <2>1. TypeOK'
    <3>1. cache[Key(q)] \in Entries \cup {None}
      BY DEF TypeOK, KeysKnown
    <3>2. local' \in [Queries -> Locals]
      BY <3>1 DEF TypeOK, Locals
    <3>3. pc' \in [Queries -> Steps]
      BY DEF TypeOK, Steps
    <3>4. result' \in [Queries -> Messages \cup {None}]
      BY <3>1, WithIdTyped DEF TypeOK, Entries
    <3> QED
      BY <3>2, <3>3, <3>4 DEF TypeOK
  <2>2. KeysKnown'
    BY DEF TypeOK, KeysKnown, Locals, NoLocal
  <2>3. Listed'
    BY NullAssumption DEF TypeOK, KeysKnown, Listed, Locals, NoLocal
  <2>4. Timely'
    BY BoundsAssumption DEF TypeOK, KeysKnown, Timely, Locals, Entries, Messages, NoLocal
  <2>5. OwnId'
    BY WithIdTyped DEF TypeOK, KeysKnown, OwnId, Locals, Entries
  <2>6. ServedFresh'
    BY BoundsAssumption, WithIdTyped DEF TypeOK, KeysKnown, Timely, ServedFresh,
       Locals, Entries, Messages, NoLocal
  <2>7. Passed'
    BY BoundsAssumption DEF TypeOK, Passed, Locals, Indices
  <2>8. FullPass'
    BY DEF TypeOK, FullPass, Cancelled, Locals
  <2> QED
    BY <2>1, <2>2, <2>3, <2>4, <2>5, <2>6, <2>7, <2>8 DEF IInv
<1>3. ASSUME NEW q \in Queries, Evict(q) PROVE IInv'
  <2> USE <1>0, <1>3 DEF Evict, Goto, Set, Return, Key
  <2>1. TypeOK'
    BY BoundsAssumption, WithIdTyped DEF TypeOK, KeysKnown, Steps, Locals, NoLocal
  <2>2. KeysKnown'
    BY DEF TypeOK, KeysKnown, Locals, NoLocal
  <2>3. Listed'
    BY NullAssumption DEF TypeOK, KeysKnown, Listed, Locals, NoLocal
  <2>4. Timely'
    BY BoundsAssumption DEF TypeOK, KeysKnown, Timely, Locals, Entries, Messages, NoLocal
  <2>5. OwnId'
    BY WithIdTyped DEF TypeOK, KeysKnown, OwnId, Locals, Entries
  <2>6. ServedFresh'
    BY BoundsAssumption, WithIdTyped DEF TypeOK, KeysKnown, Timely, ServedFresh,
       Locals, Entries, Messages, NoLocal
  <2>7. Passed'
    BY BoundsAssumption DEF TypeOK, Passed, Locals, Indices
  <2>8. FullPass'
    BY DEF TypeOK, FullPass, Cancelled, Locals
  <2> QED
    BY <2>1, <2>2, <2>3, <2>4, <2>5, <2>6, <2>7, <2>8 DEF IInv
<1>4. ASSUME NEW q \in Queries, JoinOrOwn(q) PROVE IInv'
  <2> USE <1>0, <1>4 DEF JoinOrOwn, Goto, Set, Return, Key
  <2>1. TypeOK'
    BY BoundsAssumption, WithIdTyped DEF TypeOK, KeysKnown, Steps, Locals, NoLocal
  <2>2. KeysKnown'
    BY DEF TypeOK, KeysKnown, Locals, NoLocal
  <2>3. Listed'
    BY NullAssumption DEF TypeOK, KeysKnown, Listed, Locals, NoLocal
  <2>4. Timely'
    <3>1. \A r \in Queries : /\ local'[r].now = local[r].now
                             /\ local'[r].answer = local[r].answer
                             /\ local'[r].seen = local[r].seen
                             /\ pc'[r] = "evict" => pc[r] = "evict"
      BY DEF TypeOK, Locals
    <3> QED
      BY <3>1 DEF Timely
  <2>5. OwnId'
    BY WithIdTyped DEF TypeOK, KeysKnown, OwnId, Locals, Entries
  <2>6. ServedFresh'
    BY BoundsAssumption, WithIdTyped DEF TypeOK, KeysKnown, Timely, ServedFresh,
       Locals, Entries, Messages, NoLocal
  <2>7. Passed'
    BY BoundsAssumption DEF TypeOK, Passed, Locals, Indices
  <2>8. FullPass'
    BY DEF TypeOK, FullPass, Cancelled, Locals
  <2> QED
    BY <2>1, <2>2, <2>3, <2>4, <2>5, <2>6, <2>7, <2>8 DEF IInv
<1>5. ASSUME NEW q \in Queries, Join(q) PROVE IInv'
  <2> USE <1>0, <1>5 DEF Join, Goto, Set, Return, Key
  <2>1. TypeOK'
    BY BoundsAssumption, WithIdTyped DEF TypeOK, KeysKnown, Steps, Locals, NoLocal
  <2>2. KeysKnown'
    BY DEF TypeOK, KeysKnown, Locals, NoLocal
  <2>3. Listed'
    BY NullAssumption DEF TypeOK, KeysKnown, Listed, Locals, NoLocal
  <2>4. Timely'
    BY BoundsAssumption DEF TypeOK, KeysKnown, Timely, Locals, Entries, Messages, NoLocal
  <2>5. OwnId'
    BY WithIdTyped DEF TypeOK, KeysKnown, OwnId, Locals, Entries
  <2>6. ServedFresh'
    BY BoundsAssumption, NullAssumption, WithIdTyped DEF TypeOK, KeysKnown, Timely, ServedFresh,
       Locals, Entries, Messages, NoLocal
  <2>7. Passed'
    BY BoundsAssumption DEF TypeOK, Passed, Locals, Indices
  <2>8. FullPass'
    BY DEF TypeOK, FullPass, Cancelled, Locals
  <2> QED
    BY <2>1, <2>2, <2>3, <2>4, <2>5, <2>6, <2>7, <2>8 DEF IInv
<1>6. ASSUME NEW q \in Queries, Acquire(q) PROVE IInv'
  <2> USE <1>0, <1>6 DEF Acquire, Goto, Set, Return, Key
  <2>1. TypeOK'
    <3>0. 0 \in Indices /\ 0 \in 0 .. Transports
      BY BoundsAssumption DEF Indices
    <3>l. local[q] \in Locals /\ head \in Indices
      BY DEF TypeOK
    <3>1. [local[q] EXCEPT !.start = head, !.offset = 0] \in Locals
      BY <3>0, <3>l DEF Locals
    <3>2. local' \in [Queries -> Locals]
      BY <3>1 DEF TypeOK
    <3>3. pc' \in [Queries -> Steps]
      BY DEF TypeOK, Steps
    <3> QED
      BY <3>2, <3>3 DEF TypeOK
  <2>2. KeysKnown'
    BY DEF TypeOK, KeysKnown, Locals, NoLocal
  <2>3. Listed'
    BY NullAssumption DEF TypeOK, KeysKnown, Listed, Locals, NoLocal
  <2>4. Timely'
    BY BoundsAssumption DEF TypeOK, KeysKnown, Timely, Locals, Entries, Messages, NoLocal
  <2>5. OwnId'
    BY WithIdTyped DEF TypeOK, KeysKnown, OwnId, Locals, Entries
  <2>6. ServedFresh'
    BY BoundsAssumption, WithIdTyped DEF TypeOK, KeysKnown, Timely, ServedFresh,
       Locals, Entries, Messages, NoLocal
  <2>7. Passed'
    BY BoundsAssumption DEF TypeOK, Passed, Locals, Indices
  <2>8. FullPass'
    BY DEF TypeOK, FullPass, Cancelled, Locals
  <2> QED
    BY <2>1, <2>2, <2>3, <2>4, <2>5, <2>6, <2>7, <2>8 DEF IInv
<1>7. ASSUME NEW q \in Queries, AcquireCancelled(q) PROVE IInv'
  <2> USE <1>0, <1>7 DEF AcquireCancelled, Goto, Set, Return, Key
  <2>1. TypeOK'
    BY BoundsAssumption, WithIdTyped DEF TypeOK, KeysKnown, Steps, Locals, NoLocal
  <2>2. KeysKnown'
    BY DEF TypeOK, KeysKnown, Locals, NoLocal
  <2>3. Listed'
    BY NullAssumption DEF TypeOK, KeysKnown, Listed, Locals, NoLocal
  <2>4. Timely'
    BY BoundsAssumption DEF TypeOK, KeysKnown, Timely, Locals, Entries, Messages, NoLocal
  <2>5. OwnId'
    BY WithIdTyped DEF TypeOK, KeysKnown, OwnId, Locals, Entries
  <2>6. ServedFresh'
    BY BoundsAssumption, WithIdTyped DEF TypeOK, KeysKnown, Timely, ServedFresh,
       Locals, Entries, Messages, NoLocal
  <2>7. Passed'
    BY BoundsAssumption DEF TypeOK, Passed, Locals, Indices
  <2>8. FullPass'
    BY DEF TypeOK, FullPass, Cancelled, Locals
  <2> QED
    BY <2>1, <2>2, <2>3, <2>4, <2>5, <2>6, <2>7, <2>8 DEF IInv
<1>8. ASSUME NEW q \in Queries, Try(q) PROVE IInv'
  <2> USE <1>0, <1>8 DEF Goto, Set, Key
  <2>0. UNCHANGED <<netVars, cache, inFlight, deferred, result, cancelled, steady>> /\ pc[q] = "try"
    BY DEF Try
  <2>1. CASE Transport(q) \in up
    <3>1. /\ head' = Transport(q)
          /\ local' = [local EXCEPT ![q] = [local[q] EXCEPT !.answer = [id |-> q, at |-> clock]]]
          /\ permits' = permits + 1
          /\ pc' = [pc EXCEPT ![q] = "store"]
      BY <2>1 DEF Try, Leave
    <3>2. [id |-> q, at |-> clock] \in Messages
      BY DEF TypeOK, Messages
    <3>3. [local[q] EXCEPT !.answer = [id |-> q, at |-> clock]] \in Locals
      BY <3>2 DEF TypeOK, Locals
    <3>4. TypeOK'
      <4>1. local' \in [Queries -> Locals] /\ pc' \in [Queries -> Steps]
        BY <3>1, <3>3 DEF TypeOK, Steps
      <4> QED
        BY <2>0, <2>1, <3>1, <4>1 DEF TypeOK
    <3>5. \A r \in Queries : /\ local'[r].key = local[r].key /\ local'[r].now = local[r].now
                             /\ local'[r].owner = local[r].owner /\ local'[r].seen = local[r].seen
                             /\ local'[r].start = local[r].start
                             /\ local'[r].offset = local[r].offset
                             /\ r # q => local'[r] = local[r] /\ pc'[r] = pc[r]
      BY <3>1 DEF TypeOK, Locals
    <3>6. local'[q].answer = [id |-> q, at |-> clock] /\ pc'[q] = "store"
      BY <3>1 DEF TypeOK, Locals
    <3>7. KeysKnown' /\ Listed'
      BY <2>0, <3>5, <3>6 DEF KeysKnown, Listed
    <3>8. Timely'
      BY <2>0, <3>5, <3>6 DEF Timely
    <3>9. OwnId' /\ ServedFresh'
      BY <2>0, <3>5, <3>6 DEF OwnId, ServedFresh
    <3>10. Passed'
      BY <2>0, <3>5, <3>6 DEF Passed
    <3>11. FullPass'
      BY <2>0, <3>2, <3>5, <3>6, NullAssumption DEF FullPass, Cancelled
    <3> QED
      BY <3>4, <3>7, <3>8, <3>9, <3>10, <3>11 DEF IInv
  <2>2. CASE Transport(q) \notin up
    <3>1. /\ local[q].offset < Transports
          /\ local' = [local EXCEPT ![q] = [local[q] EXCEPT !.offset = local[q].offset + 1]]
          /\ UNCHANGED <<head, permits, pc>>
      BY <2>2 DEF Try, Leave
    <3>2. local[q].offset + 1 \in 0 .. Transports
      BY <3>1, BoundsAssumption DEF TypeOK, Locals
    <3>3. [local[q] EXCEPT !.offset = local[q].offset + 1] \in Locals
      BY <3>2 DEF TypeOK, Locals
    <3>4. TypeOK'
      BY <2>0, <3>1, <3>3 DEF TypeOK
    <3>5. \A r \in Queries : /\ local'[r].key = local[r].key /\ local'[r].now = local[r].now
                             /\ local'[r].owner = local[r].owner /\ local'[r].seen = local[r].seen
                             /\ local'[r].start = local[r].start
                             /\ local'[r].answer = local[r].answer
                             /\ r # q => local'[r] = local[r]
      BY <3>1 DEF TypeOK, Locals
    <3>6. local'[q].offset = local[q].offset + 1
      BY <3>1 DEF TypeOK, Locals
    <3>7. KeysKnown' /\ Listed' /\ Timely' /\ OwnId' /\ ServedFresh' /\ FullPass'
      BY <2>0, <3>1, <3>5 DEF KeysKnown, Listed, Timely, OwnId, ServedFresh, FullPass, Cancelled
    <3>8. Passed'
      <4>1. Transport(q) \notin steady[q]
        BY <2>2 DEF Passed
      <4>2. \A i \in Indices : i < local[q].offset + 1 => i < local[q].offset \/ i = local[q].offset
        <5>1. local[q].offset \in Nat
          BY BoundsAssumption DEF TypeOK, Locals
        <5> QED
          BY <5>1, BoundsAssumption DEF Indices
      <4>3. \A i \in Indices : i < local'[q].offset
                             => (local'[q].start + i) % Transports \notin steady[q]
        BY <2>0, <3>5, <3>6, <4>1, <4>2 DEF Passed, Transport
      <4> QED
        BY <2>0, <3>1, <3>5, <4>3 DEF Passed
    <3> QED
      BY <3>4, <3>7, <3>8 DEF IInv
  <2> QED
    BY <2>1, <2>2
<1>9. ASSUME NEW q \in Queries, TryCancelled(q) PROVE IInv'
  <2> USE <1>0, <1>9 DEF TryCancelled, Goto, Set, Return, Key, Leave
  <2>1. TypeOK'
    BY BoundsAssumption, WithIdTyped DEF TypeOK, KeysKnown, Steps, Locals, NoLocal
  <2>2. KeysKnown'
    BY DEF TypeOK, KeysKnown, Locals, NoLocal
  <2>3. Listed'
    BY NullAssumption DEF TypeOK, KeysKnown, Listed, Locals, NoLocal
  <2>4. Timely'
    BY BoundsAssumption DEF TypeOK, KeysKnown, Timely, Locals, Entries, Messages, NoLocal
  <2>5. OwnId'
    BY WithIdTyped DEF TypeOK, KeysKnown, OwnId, Locals, Entries
  <2>6. ServedFresh'
    BY BoundsAssumption, WithIdTyped DEF TypeOK, KeysKnown, Timely, ServedFresh,
       Locals, Entries, Messages, NoLocal
  <2>7. Passed'
    BY BoundsAssumption DEF TypeOK, Passed, Locals, Indices
  <2>8. FullPass'
    BY DEF TypeOK, FullPass, Cancelled, Locals
  <2> QED
    BY <2>1, <2>2, <2>3, <2>4, <2>5, <2>6, <2>7, <2>8 DEF IInv
<1>10. ASSUME NEW q \in Queries, Exhausted(q) PROVE IInv'
  <2> USE <1>0, <1>10 DEF Exhausted, Goto, Set, Return, Key, Leave
  <2>1. TypeOK'
    BY BoundsAssumption, WithIdTyped DEF TypeOK, KeysKnown, Steps, Locals, NoLocal
  <2>2. KeysKnown'
    BY DEF TypeOK, KeysKnown, Locals, NoLocal
  <2>3. Listed'
    BY NullAssumption DEF TypeOK, KeysKnown, Listed, Locals, NoLocal
  <2>4. Timely'
    BY BoundsAssumption DEF TypeOK, KeysKnown, Timely, Locals, Entries, Messages, NoLocal
  <2>5. OwnId'
    BY WithIdTyped DEF TypeOK, KeysKnown, OwnId, Locals, Entries
  <2>6. ServedFresh'
    BY BoundsAssumption, WithIdTyped DEF TypeOK, KeysKnown, Timely, ServedFresh,
       Locals, Entries, Messages, NoLocal
  <2>7. Passed'
    BY BoundsAssumption DEF TypeOK, Passed, Locals, Indices
  <2>8. FullPass'
    <3>1. steady[q] = {}
      <4> SUFFICES ASSUME NEW t \in Indices, t \in steady[q] PROVE FALSE
        BY DEF TypeOK
      <4>1. PICK i \in Indices : (local[q].start + i) % Transports = t
        BY EveryTransport DEF TypeOK, Locals
      <4>2. i < local[q].offset
        BY <4>1, BoundsAssumption DEF TypeOK, Locals, Indices
      <4> QED
        BY <4>1, <4>2 DEF Passed
    <3> QED
      BY <3>1 DEF TypeOK, FullPass, Cancelled, Locals
  <2> QED
    BY <2>1, <2>2, <2>3, <2>4, <2>5, <2>6, <2>7, <2>8 DEF IInv
<1>11. ASSUME NEW q \in Queries, Store(q) PROVE IInv'
  <2> USE <1>0, <1>11 DEF Store, Goto, Set, Return, Key, Entry
  <2>1. TypeOK'
    BY BoundsAssumption, WithIdTyped DEF TypeOK, KeysKnown, Steps, Locals, NoLocal, Entries
  <2>2. KeysKnown'
    BY DEF TypeOK, KeysKnown, Locals, NoLocal
  <2>3. Listed'
    BY NullAssumption DEF TypeOK, KeysKnown, Listed, Locals, NoLocal
  <2>4. Timely'
    BY BoundsAssumption DEF TypeOK, KeysKnown, Timely, Locals, Entries, Messages, NoLocal
  <2>5. OwnId'
    BY WithIdTyped DEF TypeOK, KeysKnown, OwnId, Locals, Entries
  <2>6. ServedFresh'
    BY BoundsAssumption, WithIdTyped DEF TypeOK, KeysKnown, Timely, ServedFresh,
       Locals, Entries, Messages, NoLocal
  <2>7. Passed'
    BY BoundsAssumption DEF TypeOK, Passed, Locals, Indices
  <2>8. FullPass'
    BY DEF TypeOK, FullPass, Cancelled, Locals
  <2> QED
    BY <2>1, <2>2, <2>3, <2>4, <2>5, <2>6, <2>7, <2>8 DEF IInv
<1>12. ASSUME NEW q \in Queries, Unlist(q) PROVE IInv'
  <2> USE <1>0, <1>12 DEF Unlist, Goto, Set, Return, Key
  <2>1. TypeOK'
    BY BoundsAssumption, WithIdTyped DEF TypeOK, KeysKnown, Steps, Locals, NoLocal
  <2>2. KeysKnown'
    BY DEF TypeOK, KeysKnown, Locals, NoLocal
  <2>3. Listed'
    BY NullAssumption DEF TypeOK, KeysKnown, Listed, Locals, NoLocal
  <2>4. Timely'
    BY BoundsAssumption DEF TypeOK, KeysKnown, Timely, Locals, Entries, Messages, NoLocal
  <2>5. OwnId'
    BY WithIdTyped DEF TypeOK, KeysKnown, OwnId, Locals, Entries
  <2>6. ServedFresh'
    BY BoundsAssumption, WithIdTyped DEF TypeOK, KeysKnown, Timely, ServedFresh,
       Locals, Entries, Messages, NoLocal
  <2>7. Passed'
    BY BoundsAssumption DEF TypeOK, Passed, Locals, Indices
  <2>8. FullPass'
    BY DEF TypeOK, FullPass, Cancelled, Locals
  <2> QED
    BY <2>1, <2>2, <2>3, <2>4, <2>5, <2>6, <2>7, <2>8 DEF IInv
<1>13. ASSUME NEW q \in Queries, UnlistCancelled(q) PROVE IInv'
  <2> USE <1>0, <1>13 DEF UnlistCancelled, Goto, Set, Return, Key
  <2>1. TypeOK'
    BY BoundsAssumption, WithIdTyped DEF TypeOK, KeysKnown, Steps, Locals, NoLocal
  <2>2. KeysKnown'
    BY DEF TypeOK, KeysKnown, Locals, NoLocal
  <2>3. Listed'
    BY NullAssumption DEF TypeOK, KeysKnown, Listed, Locals, NoLocal
  <2>4. Timely'
    BY BoundsAssumption DEF TypeOK, KeysKnown, Timely, Locals, Entries, Messages, NoLocal
  <2>5. OwnId'
    BY WithIdTyped DEF TypeOK, KeysKnown, OwnId, Locals, Entries
  <2>6. ServedFresh'
    BY BoundsAssumption, WithIdTyped DEF TypeOK, KeysKnown, Timely, ServedFresh,
       Locals, Entries, Messages, NoLocal
  <2>7. Passed'
    BY BoundsAssumption DEF TypeOK, Passed, Locals, Indices
  <2>8. FullPass'
    BY DEF TypeOK, FullPass, Cancelled, Locals
  <2> QED
    BY <2>1, <2>2, <2>3, <2>4, <2>5, <2>6, <2>7, <2>8 DEF IInv
<1>14. ASSUME NEW q \in Queries, Complete(q) PROVE IInv'
  <2> USE <1>0, <1>14 DEF Complete, Goto, Set, Return, Key
  <2>1. TypeOK'
    BY BoundsAssumption, WithIdTyped DEF TypeOK, KeysKnown, Steps, Locals, NoLocal
  <2>2. KeysKnown'
    BY DEF TypeOK, KeysKnown, Locals, NoLocal
  <2>3. Listed'
    BY NullAssumption DEF TypeOK, KeysKnown, Listed, Locals, NoLocal
  <2>4. Timely'
    BY BoundsAssumption DEF TypeOK, KeysKnown, Timely, Locals, Entries, Messages, NoLocal
  <2>5. OwnId'
    BY WithIdTyped DEF TypeOK, KeysKnown, OwnId, Locals, Entries
  <2>6. ServedFresh'
    BY BoundsAssumption, WithIdTyped DEF TypeOK, KeysKnown, Timely, ServedFresh,
       Locals, Entries, Messages, NoLocal
  <2>7. Passed'
    BY BoundsAssumption DEF TypeOK, Passed, Locals, Indices
  <2>8. FullPass'
    BY DEF TypeOK, FullPass, Cancelled, Locals
  <2> QED
    BY <2>1, <2>2, <2>3, <2>4, <2>5, <2>6, <2>7, <2>8 DEF IInv
<1>15. CASE Tick
  <2> USE <1>0, <1>15 DEF Tick
  <2>1. TypeOK'
    BY DEF TypeOK
  <2>2. KeysKnown'
    BY DEF KeysKnown, Key
  <2>3. Listed' /\ OwnId'
    BY DEF Listed, OwnId, Key
  <2>4. Timely'
    BY DEF TypeOK, Timely, Locals
  <2>5. ServedFresh'
    BY DEF TypeOK, ServedFresh, Locals
  <2>6. Passed' /\ FullPass'
    BY DEF Passed, FullPass, Cancelled, TypeOK
  <2> QED
    BY <2>1, <2>2, <2>3, <2>4, <2>5, <2>6 DEF IInv
<1>16. ASSUME NEW t \in Indices, Flap(t) PROVE IInv'
  <2> USE <1>0, <1>16 DEF Flap
  <2>1. TypeOK'
    BY DEF TypeOK
  <2>2. KeysKnown'
    BY DEF KeysKnown, Key
  <2>3. Listed' /\ OwnId'
    BY DEF Listed, OwnId, Key
  <2>4. Timely' /\ ServedFresh'
    BY DEF Timely, ServedFresh
  <2>5. Passed' /\ FullPass'
    BY DEF Passed, FullPass, Cancelled, TypeOK
  <2> QED
    BY <2>1, <2>2, <2>3, <2>4, <2>5 DEF IInv
<1>17. CASE Cancel
  BY <1>0, <1>17 DEF Cancel, TypeOK, KeysKnown, Listed, Timely,
     OwnId, ServedFresh, Passed, FullPass, Cancelled, IInv, Key, Locals
<1>18. CASE UNCHANGED vars
  BY <1>0, <1>18 DEF vars, TypeOK, KeysKnown, Listed, Timely,
     OwnId, ServedFresh, Passed, FullPass, Cancelled, IInv, Key
<1> QED
  BY <1>1, <1>2, <1>3, <1>4, <1>5, <1>6, <1>7, <1>8, <1>9,
     <1>10, <1>11, <1>12, <1>13, <1>14, <1>15, <1>16, <1>17, <1>18 DEF Next, Step

\* The invariant holds throughout.
LEMMA AlwaysIInv == Spec => []IInv
<1>1. Init => IInv
  BY InitIInv
<1>2. IInv /\ [Next]_vars => IInv'
  BY StepIInv
<1> QED
  BY <1>1, <1>2, PTL DEF Spec

\* Types: in every interleaving of resolve calls, cancellations included.
THEOREM TypeCorrect == Spec => []TypeOK
<1>1. IInv => TypeOK
  BY DEF IInv
<1> QED
  BY AlwaysIInv, <1>1, PTL

\* DnsInterceptor's coalescing: two queries for one name are never with the
\* gate or a transport together, since both would be listed as its owner.
THEOREM OneLookupPerName == Spec => []SingleFlight
<1>1. IInv => SingleFlight
  <2> SUFFICES ASSUME IInv,
                      NEW q \in Queries, NEW r \in Queries, q # r,
                      pc[q] \in {"gate", "try"}, pc[r] \in {"gate", "try"},
                      Key(q) = Key(r)
               PROVE  FALSE
    BY DEF SingleFlight
  <2>1. inFlight[Key(q)] = q /\ inFlight[Key(r)] = r
    BY DEF IInv, Listed
  <2> QED
    BY <2>1
<1> QED
  BY AlwaysIInv, <1>1, PTL

\* withId is applied on every way out of resolve: fetched, cached or shared.
THEOREM AnswersCarryOwnId == Spec => []OwnId
<1>1. IInv => OwnId
  BY DEF IInv
<1> QED
  BY AlwaysIInv, <1>1, PTL

\* The cache never serves an answer beyond its lifetime, since that lifetime
\* is counted from before the lookup.
THEOREM CacheServesFresh == Spec => []ServedFresh
<1>1. IInv => ServedFresh
  BY DEF IInv
<1> QED
  BY AlwaysIInv, <1>1, PTL

\* CompositeDnsResolver makes one full pass: if it fails, there was no
\* transport that worked from its first try to its last.
THEOREM FailureIsTotal == Spec => []FullPass
<1>1. IInv => FullPass
  BY DEF IInv
<1> QED
  BY AlwaysIInv, <1>1, PTL

\* remove(key, entry) takes away only what it saw to be expired.
LEMMA EvictsExpired ==
  ASSUME IInv, [Next]_vars, NEW k \in Keys, cache[k] # None, cache'[k] = None
  PROVE  cache[k].expires <= clock
<1> USE DEF netVars, sharedVars
<1>1. ASSUME NEW q \in Queries, Evict(q) PROVE cache[k].expires <= clock
  <2>1. cache[k] = local[q].seen
    BY <1>1 DEF Evict, IInv, TypeOK
  <2>2. local[q].seen.expires <= local[q].now /\ local[q].now <= clock
    BY <1>1 DEF Evict, IInv, Timely
  <2>3. local[q].seen \in Entries /\ local[q].now \in Nat /\ clock \in Nat
    BY <2>1 DEF IInv, TypeOK, Locals
  <2> QED
    BY <2>1, <2>2, <2>3 DEF Entries
<1>2. ASSUME NEW q \in Queries, Store(q) PROVE FALSE
  <2>1. Entry(q) # None
    <3>1. local[q].answer # None
      BY <1>2 DEF Store
    <3>2. Entry(q) \in Entries
      BY <3>1, BoundsAssumption DEF Entry, Entries, IInv, TypeOK, Locals
    <3> QED
      BY <3>2, NullAssumption
  <2> QED
    BY <1>2, <2>1 DEF Store, IInv, TypeOK, Key
<1>3. ASSUME cache' = cache PROVE FALSE
  BY <1>3
<1> QED
  BY <1>1, <1>2, <1>3 DEF Next, Step, vars, Ask, Lookup, JoinOrOwn, Join, Acquire,
     AcquireCancelled, Try, TryCancelled, Exhausted, Unlist, UnlistCancelled, Complete,
     Tick, Flap, Cancel

\* An entry that is still good stays until it is replaced by another.
THEOREM GoodEntriesKept == Spec => KeepsGoodEntries
<1>1. IInv /\ [Next]_vars
      => [\A k \in Keys : cache[k] # None /\ cache'[k] = None => cache[k].expires <= clock]_vars
  BY EvictsExpired
<1> QED
  BY AlwaysIInv, <1>1, PTL DEF Spec, KeepsGoodEntries

-----------------------------------------------------------------------------
\* What a step does to the permits and their holders: nothing, or it takes a
\* free permit for a query that has none, or gives the permit of a query back.
LEMMA PermitMoves ==
  ASSUME IInv, [Next]_vars
  PROVE  \/ Holders' = Holders /\ permits' = permits
         \/ \E q \in Queries \ Holders :
              Holders' = Holders \cup {q} /\ permits > 0 /\ permits' = permits - 1
         \/ \E q \in Holders : Holders' = Holders \ {q} /\ permits' = permits + 1
<1> DEFINE Goal == \/ Holders' = Holders /\ permits' = permits
                   \/ \E q \in Queries \ Holders :
                        Holders' = Holders \cup {q} /\ permits > 0 /\ permits' = permits - 1
                   \/ \E q \in Holders : Holders' = Holders \ {q} /\ permits' = permits + 1
<1>0. pc \in [Queries -> Steps] /\ permits \in Nat
  BY DEF IInv, TypeOK
<1>1. ASSUME NEW q \in Queries, NEW k \in Keys, Ask(q, k) PROVE Goal
  BY <1>0, <1>1 DEF Ask, Goto, Holders, sharedVars
<1>2. ASSUME NEW q \in Queries, Lookup(q) \/ Evict(q) \/ JoinOrOwn(q) \/ Join(q) PROVE Goal
  BY <1>0, <1>2 DEF Lookup, Evict, JoinOrOwn, Join, Return, Goto, Holders, sharedVars
<1>3. ASSUME NEW q \in Queries, AcquireCancelled(q) \/ Store(q) PROVE Goal
  BY <1>0, <1>3 DEF AcquireCancelled, Store, Goto, Holders, sharedVars
<1>4. ASSUME NEW q \in Queries, Unlist(q) \/ UnlistCancelled(q) \/ Complete(q) PROVE Goal
  BY <1>0, <1>4 DEF Unlist, UnlistCancelled, Complete, Return, Goto, Holders, sharedVars
<1>5. ASSUME NEW q \in Queries, Acquire(q) PROVE Goal
  <2>1. q \in Queries \ Holders /\ Holders' = Holders \cup {q}
    BY <1>0, <1>5 DEF Acquire, Goto, Holders
  <2>2. permits > 0 /\ permits' = permits - 1
    BY <1>5 DEF Acquire
  <2> QED
    BY <2>1, <2>2
<1>6. ASSUME NEW q \in Queries, NEW answer, pc[q] = "try", Leave(q, answer) PROVE Goal
  <2>1. q \in Holders /\ Holders' = Holders \ {q} /\ permits' = permits + 1
    BY <1>0, <1>6 DEF Leave, Goto, Holders
  <2> QED
    BY <2>1
<1>7. ASSUME NEW q \in Queries, Exhausted(q) \/ Try(q) \/ TryCancelled(q) PROVE Goal
  <2>1. CASE UNCHANGED <<pc, permits>>
    BY <2>1 DEF Holders
  <2>2. CASE pc[q] = "try" /\ \E answer : Leave(q, answer)
    BY <2>2, <1>6
  <2> QED
    BY <1>7, <2>1, <2>2 DEF Exhausted, Try, TryCancelled
<1>8. ASSUME Tick \/ Cancel \/ UNCHANGED vars \/ \E t \in Indices : Flap(t) PROVE Goal
  BY <1>8 DEF Tick, Cancel, Flap, vars, sharedVars, Holders
<1> QED
  BY <1>1, <1>2, <1>3, <1>4, <1>5, <1>7, <1>8 DEF Next, Step

\* So the permits go on adding up.
LEMMA StepPermits == ASSUME IInv, PermitsInv, [Next]_vars PROVE PermitsInv'
<1>1. /\ IsFiniteSet(Holders) /\ permits + Cardinality(Holders) = MaxPermits
      /\ permits \in Nat /\ MaxPermits \in Nat
  BY BoundsAssumption DEF IInv, TypeOK, PermitsInv, PermitsKept
<1>2. Cardinality(Holders) \in Nat
  BY <1>1, FS_CardinalityType
<1>3. CASE Holders' = Holders /\ permits' = permits
  BY <1>1, <1>3 DEF PermitsInv, PermitsKept
<1>4. ASSUME NEW q \in Queries \ Holders,
             Holders' = Holders \cup {q}, permits > 0, permits' = permits - 1
      PROVE  PermitsInv'
  <2>1. IsFiniteSet(Holders') /\ Cardinality(Holders') = Cardinality(Holders) + 1
    BY <1>1, <1>4, FS_AddElement
  <2> QED
    BY <1>1, <1>2, <1>4, <2>1 DEF PermitsInv, PermitsKept
<1>5. ASSUME NEW q \in Holders, Holders' = Holders \ {q}, permits' = permits + 1
      PROVE  PermitsInv'
  <2>1. IsFiniteSet(Holders') /\ Cardinality(Holders') = Cardinality(Holders) - 1
    BY <1>1, <1>5, FS_RemoveElement
  <2> QED
    BY <1>1, <1>2, <1>5, <2>1 DEF PermitsInv, PermitsKept
<1> QED
  BY <1>3, <1>4, <1>5, PermitMoves

\* The permits add up in every reachable state.
LEMMA AlwaysPermitsInv == Spec => []PermitsInv
<1>1. Init => PermitsInv
  <2>1. Init => Holders = {} /\ permits = MaxPermits
    BY DEF Init, Holders
  <2>2. Init => Cardinality(Holders) = 0 /\ IsFiniteSet(Holders)
    BY <2>1, FS_EmptySet
  <2> QED
    BY <2>1, <2>2, BoundsAssumption DEF PermitsInv, PermitsKept
<1>2. IInv /\ PermitsInv /\ [Next]_vars => PermitsInv'
  BY StepPermits
<1> QED
  BY <1>1, <1>2, AlwaysIInv, PTL DEF Spec

\* Semaphore permits are neither lost nor invented, however many queries there
\* are and whichever of them fail or are cancelled: withPermit gives back what
\* it took.
THEOREM PermitsAddUp == Spec => []PermitsKept
<1>1. PermitsInv => PermitsKept
  BY DEF PermitsInv
<1> QED
  BY <1>1, AlwaysPermitsInv, PTL

-----------------------------------------------------------------------------
\* Nobody that joined an owner is left behind by a step: an owner leaves the
\* table before it completes its deferred, and completes it before it is done.
LEMMA StepJoinersServed == ASSUME IInv, JoinersServed, [Next]_vars PROVE JoinersServed'
<1> USE DEF Key, Cancelled, Working
<1>0. /\ pc \in [Queries -> Steps] /\ local \in [Queries -> Locals]
      /\ deferred \in [Queries -> Messages \cup {None, Open}]
      /\ inFlight \in [Keys -> Queries \cup {None}] /\ None \notin Queries
      /\ \A q \in Queries : /\ pc[q] # "idle" => local[q].key \in Keys
                            /\ pc[q] = "join" => local[q].owner \in Queries
                            /\ Working(q) => inFlight[local[q].key] = q
  BY NullAssumption DEF IInv, TypeOK, KeysKnown, Listed
<1>1. ASSUME NEW q \in Queries, NEW k \in Keys, Ask(q, k) PROVE JoinersServed'
  <2>1. /\ pc[q] = "idle" /\ pc' = [pc EXCEPT ![q] = "cache"]
        /\ UNCHANGED <<inFlight, deferred, cancelled>>
        /\ \A r \in Queries \ {q} : local'[r] = local[r]
    BY <1>0, <1>1 DEF Ask, Goto, Set, sharedVars
  <2> QED
    BY <1>0, <2>1 DEF JoinersServed
<1>2. ASSUME NEW q \in Queries, Lookup(q) \/ Evict(q) \/ Join(q) PROVE JoinersServed'
  <2>1. /\ pc[q] \in {"cache", "evict", "join"}
        /\ \E l \in {"lock", "done", "evict"} : pc' = [pc EXCEPT ![q] = l]
        /\ UNCHANGED <<inFlight, deferred, cancelled>>
    BY <1>2 DEF Lookup, Evict, Join, Return, Goto, sharedVars
  <2>2. \A r \in Queries : local'[r].owner = local[r].owner /\ local'[r].key = local[r].key
    BY <1>0, <1>2 DEF Lookup, Evict, Join, Set, Locals
  <2> QED
    BY <1>0, <2>1, <2>2 DEF JoinersServed
<1>3. ASSUME NEW q \in Queries, JoinOrOwn(q) PROVE JoinersServed'
  <2>1. UNCHANGED <<deferred, cancelled>> /\ pc[q] = "lock" /\ local[q].key \in Keys
    BY <1>0, <1>3 DEF JoinOrOwn
  <2>2. CASE inFlight[local[q].key] # None
    <3>1. /\ pc' = [pc EXCEPT ![q] = "join"] /\ inFlight' = inFlight
          /\ local'[q].owner = inFlight[local[q].key]
          /\ \A r \in Queries : local'[r].key = local[r].key
          /\ \A r \in Queries \ {q} : local'[r].owner = local[r].owner
      BY <1>0, <1>3, <2>2 DEF JoinOrOwn, Goto, Set, Locals
    <3> QED
      BY <1>0, <2>1, <2>2, <3>1 DEF JoinersServed
  <2>3. CASE inFlight[local[q].key] = None
    <3>1. /\ pc' = [pc EXCEPT ![q] = "gate"] /\ local' = local
          /\ inFlight' = [inFlight EXCEPT ![local[q].key] = q]
      BY <1>3, <2>3 DEF JoinOrOwn, Goto
    <3> QED
      BY <1>0, <2>1, <3>1 DEF JoinersServed
  <2> QED
    BY <2>2, <2>3
<1>4. ASSUME NEW q \in Queries,
             Acquire(q) \/ AcquireCancelled(q) \/ Try(q) \/ TryCancelled(q) \/ Exhausted(q) \/ Store(q)
      PROVE  JoinersServed'
  <2>1. /\ pc[q] \in {"gate", "try", "store"}
        /\ \E l \in {"try", "store", "unlist"} : pc' = [pc EXCEPT ![q] = l]
        /\ UNCHANGED <<inFlight, deferred, cancelled>>
    BY <1>0, <1>4 DEF Acquire, AcquireCancelled, Try, TryCancelled, Exhausted, Store, Leave, Goto,
       sharedVars
  <2>2. \A r \in Queries : local'[r].owner = local[r].owner /\ local'[r].key = local[r].key
    <3>1. CASE Acquire(q)
      BY <1>0, <3>1 DEF Acquire, Set, Locals
    <3>2. CASE Try(q)
      BY <1>0, <3>2 DEF Try, Leave, Set, Locals
    <3>3. CASE TryCancelled(q) \/ Exhausted(q)
      BY <1>0, <3>3 DEF TryCancelled, Exhausted, Leave, Set, Locals
    <3>4. CASE AcquireCancelled(q) \/ Store(q)
      BY <3>4 DEF AcquireCancelled, Store
    <3> QED
      BY <1>4, <3>1, <3>2, <3>3, <3>4
  <2> QED
    BY <1>0, <2>1, <2>2 DEF JoinersServed
<1>5. ASSUME NEW q \in Queries, Unlist(q) PROVE JoinersServed'
  <2>1. /\ pc[q] = "unlist" /\ pc' = [pc EXCEPT ![q] = "complete"]
        /\ inFlight' = [inFlight EXCEPT ![local[q].key] = None]
        /\ UNCHANGED <<deferred, cancelled, local>>
    BY <1>5 DEF Unlist, Goto
  <2> QED
    BY <1>0, <2>1 DEF JoinersServed
<1>6. ASSUME NEW q \in Queries, UnlistCancelled(q) PROVE JoinersServed'
  <2>1. /\ pc' = [pc EXCEPT ![q] = "done"] /\ cancelled /\ q \in Scoped
        /\ UNCHANGED <<inFlight, deferred, cancelled, local>>
    BY <1>6 DEF UnlistCancelled, Return, Goto, sharedVars
  <2> QED
    BY <1>0, <2>1 DEF JoinersServed
<1>7. ASSUME NEW q \in Queries, Complete(q) PROVE JoinersServed'
  <2>1. /\ pc[q] = "complete" /\ pc' = [pc EXCEPT ![q] = "done"]
        /\ deferred' = [deferred EXCEPT ![q] = local[q].answer]
        /\ UNCHANGED <<inFlight, cancelled, local>>
    BY <1>7 DEF Complete, Return, Goto
  <2>2. local[q].answer # Open
    BY <1>0, NullAssumption DEF Locals
  <2> QED
    BY <1>0, <2>1, <2>2 DEF JoinersServed
<1>8. ASSUME Tick \/ UNCHANGED vars \/ \E t \in Indices : Flap(t) PROVE JoinersServed'
  <2>1. UNCHANGED <<inFlight, deferred, cancelled, local, pc>>
    BY <1>8 DEF Tick, Flap, vars, sharedVars
  <2> QED
    BY <2>1 DEF JoinersServed
<1>9. ASSUME Cancel PROVE JoinersServed'
  <2>1. UNCHANGED <<inFlight, deferred, local, pc>> /\ cancelled'
    BY <1>9 DEF Cancel, sharedVars
  <2> QED
    BY <2>1, <1>9 DEF JoinersServed, Cancel
<1> QED
  BY <1>1, <1>2, <1>3, <1>4, <1>5, <1>6, <1>7, <1>8, <1>9 DEF Next, Step

\* A query that joined another one's lookup (inFlight[key], awaited) is served by
\* it, or by an owner on its way to complete(): no answer, null answer, failure
\* or eviction in between leaves it waiting for nobody.  Only a cancelled owner
\* can, by throwing at the mutex.
THEOREM JoinersServedAlways == Spec => []JoinersServed
<1>1. Init => JoinersServed
  BY DEF Init, JoinersServed
<1>2. IInv /\ JoinersServed /\ [Next]_vars => JoinersServed'
  BY StepJoinersServed
<1> QED
  BY <1>1, <1>2, AlwaysIInv, PTL DEF Spec

\* The gate and the shared lookups never have all queries wait for each other:
\* who waits for a permit waits for a query at a transport, and who waits for an
\* answer waits for an owner that has, or waits for, a permit.
THEOREM DeadlockFree == Spec => []NoDeadlock
<1>1. ASSUME IInv, JoinersServed, PermitsInv PROVE NoDeadlock
  <2> SUFFICES ASSUME ~cancelled, NEW q \in Queries, pc[q] \notin {"idle", "done"}
               PROVE  \E r \in Queries : GoesOn(r)
    BY DEF NoDeadlock
  <2>1. ASSUME NEW r \in Queries, pc[r] = "gate" PROVE \E p \in Queries : GoesOn(p)
    <3>1. CASE permits > 0
      BY <2>1, <3>1 DEF GoesOn
    <3>2. CASE ~(permits > 0)
      <4>1. permits = 0
        BY <1>1, <3>2 DEF IInv, TypeOK
      <4>2. Cardinality(Holders) # 0
        <5>1. permits + Cardinality(Holders) = MaxPermits /\ IsFiniteSet(Holders)
          BY <1>1 DEF PermitsInv, PermitsKept
        <5>2. Cardinality(Holders) \in Nat
          BY <5>1, FS_CardinalityType
        <5> QED
          BY <4>1, <5>1, <5>2, BoundsAssumption
      <4>3. PICK p \in Queries : pc[p] = "try"
        BY <4>2, FS_EmptySet DEF Holders
      <4> QED
        BY <4>3 DEF GoesOn
    <3> QED
      BY <3>1, <3>2
  <2>2. CASE pc[q] = "gate"
    BY <2>1, <2>2
  <2>3. CASE pc[q] = "join"
    <3> DEFINE owner == local[q].owner
    <3>1. owner \in Queries
      BY <1>1, <2>3 DEF IInv, KeysKnown
    <3>2. deferred[owner] # Open \/ Working(owner) \/ pc[owner] = "complete"
      BY <1>1, <2>3 DEF JoinersServed, Cancelled
    <3>3. CASE deferred[owner] # Open
      BY <2>3, <3>3 DEF GoesOn
    <3>4. CASE pc[owner] \in {"try", "store", "unlist", "complete"}
      BY <3>1, <3>4 DEF GoesOn
    <3>5. CASE pc[owner] = "gate"
      BY <2>1, <3>1, <3>5
    <3> QED
      BY <3>2, <3>3, <3>4, <3>5 DEF Working
  <2>4. CASE pc[q] \notin {"gate", "join"}
    BY <1>1, <2>4 DEF GoesOn, IInv, TypeOK, Steps
  <2> QED
    BY <2>2, <2>3, <2>4
<1> QED
  BY <1>1, AlwaysIInv, JoinersServedAlways, AlwaysPermitsInv, PTL
==============================================================================
