---------------------------- MODULE StoreProofs -----------------------------
(***************************************************************************)
(* The lists the app keeps: the saved proxies (Vault), for any number of   *)
(* entries, operations and deaths of the process, and the free proxies     *)
(* (Servers), for any finite set of candidates and any number of           *)
(* refreshes.                                                              *)
(***************************************************************************)
EXTENDS Vault, Servers, SequenceTheorems, FiniteSetTheorems, TLAPS

(***************************************************************************)
(* Sequences: what the writes of the store do to them.                     *)
(***************************************************************************)

\* A sequence as a function on an initial segment.
LEMMA SeqFacts ==
  ASSUME NEW S, NEW s \in Seq(S)
  PROVE  /\ Len(s) \in Nat /\ DOMAIN s = 1 .. Len(s)
         /\ \A n \in DOMAIN s : s[n] \in S
  OBVIOUS

\* A list of the same length, element by element.
LEMMA SeqMapped ==
  ASSUME NEW S, NEW T, NEW s \in Seq(S), NEW t, t \in [DOMAIN s -> T]
  PROVE  t \in Seq(T)
<1>1. DOMAIN s = 1 .. Len(s) /\ Len(s) \in Nat
  OBVIOUS
<1> QED
  BY <1>1, SeqDef

\* A list with an element put at its end.
LEMMA AppendFacts ==
  ASSUME NEW S, NEW s \in Seq(S), NEW e \in S
  PROVE  /\ Append(s, e) \in Seq(S)
         /\ DOMAIN Append(s, e) = 1 .. Len(s) + 1
         /\ \A k \in DOMAIN s : k \in DOMAIN Append(s, e) /\ Append(s, e)[k] = s[k]
         /\ Append(s, e)[Len(s) + 1] = e
         /\ \A k \in DOMAIN Append(s, e) : k \in DOMAIN s \/ k = Len(s) + 1
  OBVIOUS

\* A queue whose head has been taken.
LEMMA TailFacts ==
  ASSUME NEW S, NEW s \in Seq(S), s # <<>>
  PROVE  /\ Tail(s) \in Seq(S) /\ Head(s) = s[1] /\ 1 \in DOMAIN s /\ Head(s) \in S
         /\ \A k \in DOMAIN Tail(s) : Tail(s)[k] = s[k + 1] /\ k + 1 \in DOMAIN s
  OBVIOUS

\* A list without the element at one place.
LEMMA RemoveFacts ==
  ASSUME NEW S, NEW s \in Seq(S), NEW n \in DOMAIN s
  PROVE  /\ RemoveAt(s, n) \in Seq(S)
         /\ DOMAIN RemoveAt(s, n) = 1 .. Len(s) - 1
         /\ \A k \in 1 .. Len(s) - 1 : RemoveAt(s, n)[k] = IF k < n THEN s[k] ELSE s[k + 1]
<1> DEFINE a == SubSeq(s, 1, n - 1)
           b == SubSeq(s, n + 1, Len(s))
<1>0. Len(s) \in Nat /\ n \in 1 .. Len(s)
  OBVIOUS
<1>1. a \in Seq(S) /\ Len(a) = n - 1 /\ \A k \in 1 .. n - 1 : a[k] = s[k]
  BY <1>0
<1>2. b \in Seq(S) /\ Len(b) = Len(s) - n /\ \A k \in 1 .. Len(s) - n : b[k] = s[n + k]
  BY <1>0
<1>3. RemoveAt(s, n) = a \o b
  BY DEF RemoveAt
<1> HIDE DEF a, b
<1>4. a \o b \in Seq(S) /\ Len(a \o b) = Len(a) + Len(b)
  <2>1. a \in Seq(S) /\ b \in Seq(S)
    BY <1>1, <1>2
  <2> QED
    BY <2>1, ConcatProperties
<1>5. Len(a \o b) = Len(s) - 1 /\ DOMAIN (a \o b) = 1 .. Len(s) - 1
  <2>1. Len(a) = n - 1 /\ Len(b) = Len(s) - n
    BY <1>1, <1>2
  <2>2. Len(a \o b) = Len(s) - 1
    BY <1>0, <1>4, <2>1
  <2>3. DOMAIN (a \o b) = 1 .. Len(a \o b)
    BY <1>4, LenProperties
  <2> QED
    BY <2>2, <2>3
<1>6. \A k \in 1 .. Len(s) - 1 : (a \o b)[k] = IF k < n THEN s[k] ELSE s[k + 1]
  BY <1>0, <1>1, <1>2
<1> QED
  BY <1>3, <1>4, <1>5, <1>6

(***************************************************************************)
(* The saved proxies.                                                      *)
(***************************************************************************)

\* The initial states satisfy the invariant.
LEMMA InitVaultInv == ASSUME VaultInit PROVE VaultInv
<1> USE VaultAssumption DEF VaultInit, EmptyStore, NoEdit
<1>1. EmptyStore \in Stores /\ NoEdit \in EditStates
  BY DEF Stores, EditStates
<1>2. VaultTypeOK
  <2>1. 0 \in 0 .. MaxSaves /\ 0 \in 0 .. MaxEdits /\ 0 \in 0 .. MaxVaultDeaths
    OBVIOUS
  <2>2. proxies = <<>> /\ queued = <<>> /\ kv = EmptyStore /\ disk = EmptyStore /\ edit = NoEdit
    OBVIOUS
  <2>3. saved = 0 /\ edits = 0 /\ vaultDeaths = 0 /\ listed = {} /\ torn = FALSE /\ defaultId = 0
    OBVIOUS
  <2> HIDE DEF VaultInit, EmptyStore, NoEdit
  <2>4. proxies \in Seq([id : Ids, version : 1 .. MaxEdits, hasPassword : BOOLEAN,
                         isDefault : BOOLEAN])
    BY <2>2
  <2>5. queued \in Seq(Stores) /\ kv \in Stores /\ disk \in Stores /\ edit \in EditStates
    BY <1>1, <2>2
  <2> QED
    BY <2>1, <2>3, <2>4, <2>5 DEF VaultTypeOK
<1>3. Load(kv) = <<>> /\ Encoded(proxies) = <<>>
  BY DEF Load, Overlay, Encoded
<1>4. OpSteps /\ IndexInStep /\ RestartShowsSame
  BY <1>3 DEF OpSteps, IndexInStep, RestartShowsSame
<1>5. Proposed /\ GivenOut /\ NewUnwritten /\ BlobFirst
  BY DEF Proposed, GivenOut, NewUnwritten, BlobFirst, Named
<1>6. OrphansUnlisted /\ TornOnlyHere
  BY DEF OrphansUnlisted, Orphans, TornOnlyHere
<1>7. UniqueIds
  BY DEF UniqueIds, Unique
<1> QED
  BY <1>2, <1>4, <1>5, <1>6, <1>7 DEF VaultInv

\* overlay keeps the ids, the versions and the order of an index, and what the
\* codec keeps of the result is the index again.
LEMMA OverlayFacts ==
  ASSUME NEW store \in Stores, NEW d
  PROVE  /\ Overlay(store, d) \in Seq([id : Ids, version : 1 .. MaxEdits,
                                       hasPassword : BOOLEAN, isDefault : BOOLEAN])
         /\ DOMAIN Overlay(store, d) = DOMAIN store.index
         /\ \A n \in DOMAIN store.index : Overlay(store, d)[n].id = store.index[n].id
         /\ Encoded(Overlay(store, d)) = store.index
<1>1. store.index \in Seq(Entries)
  BY DEF Stores
<1>2. \A n \in DOMAIN store.index : store.index[n] \in Entries
  BY <1>1
<1>3. Overlay(store, d) \in [DOMAIN store.index ->
          [id : Ids, version : 1 .. MaxEdits, hasPassword : BOOLEAN, isDefault : BOOLEAN]]
  BY <1>2 DEF Overlay, Entries, Stores
<1>4. \A n \in DOMAIN store.index :
        [id |-> store.index[n].id, version |-> store.index[n].version] = store.index[n]
  BY <1>2 DEF Entries
<1>5. Encoded(Overlay(store, d)) =
        [n \in DOMAIN store.index |->
            [id |-> store.index[n].id, version |-> store.index[n].version]]
  BY DEF Encoded, Overlay
<1>6. store.index = [n \in DOMAIN store.index |-> store.index[n]]
  BY <1>1
<1>7. Overlay(store, d) \in Seq([id : Ids, version : 1 .. MaxEdits,
                                hasPassword : BOOLEAN, isDefault : BOOLEAN])
  BY <1>1, <1>3, SeqMapped
<1>8. Encoded(Overlay(store, d)) = store.index
  <2>1. [n \in DOMAIN store.index |->
            [id |-> store.index[n].id, version |-> store.index[n].version]]
        = [n \in DOMAIN store.index |-> store.index[n]]
    BY <1>4
  <2> QED
    BY <1>5, <1>6, <2>1
<1>9. /\ DOMAIN Overlay(store, d) = DOMAIN store.index
      /\ \A n \in DOMAIN store.index : Overlay(store, d)[n].id = store.index[n].id
  BY DEF Overlay
<1> QED
  BY <1>7, <1>8, <1>9

\* A new file in the queue is a file like the others, and whoever is given out
\* or orphaned in it was before.
LEMMA Written ==
  ASSUME VaultTypeOK, GivenOut, OrphansUnlisted, UniqueIds,
         NEW store \in Stores, Write(store), UNCHANGED <<disk, listed, saved>>,
         Named(store.index) \subseteq 1 .. saved, Unique(store.index),
         \A id \in Orphans(store) :
             id \notin listed /\ \A m \in DOMAIN queued : id \notin Named(queued[m].index)
  PROVE  /\ queued' \in Seq(Stores) /\ kv' \in Stores
         /\ GivenOut' /\ OrphansUnlisted'
         /\ \A n \in DOMAIN queued' :
               queued'[n] = store \/ (n \in DOMAIN queued /\ queued'[n] = queued[n])
<1>1. queued \in Seq(Stores) /\ queued' = Append(queued, store) /\ kv' = store
  BY DEF VaultTypeOK, Write
<1>2. /\ queued' \in Seq(Stores) /\ DOMAIN queued' = 1 .. Len(queued) + 1
      /\ DOMAIN queued = 1 .. Len(queued) /\ Len(queued) \in Nat
      /\ queued'[Len(queued) + 1] = store
      /\ \A n \in DOMAIN queued : queued'[n] = queued[n]
  BY <1>1, AppendFacts, SeqFacts
<1>3. \A n \in DOMAIN queued' :
        queued'[n] = store \/ (n \in DOMAIN queued /\ queued'[n] = queued[n])
  BY <1>2
<1>4. GivenOut'
  BY <1>1, <1>3 DEF GivenOut
<1>5. OrphansUnlisted'
  <2>1. ASSUME NEW n \in DOMAIN queued', NEW id \in Orphans(queued'[n]), NEW m \in 1 .. n
        PROVE  id \notin listed' /\ id \notin Named(queued'[m].index)
    <3>1. CASE n \in DOMAIN queued
      <4>1. m \in DOMAIN queued /\ queued'[m] = queued[m] /\ queued'[n] = queued[n]
        BY <1>2, <3>1
      <4> QED
        BY <2>1, <3>1, <4>1 DEF OrphansUnlisted
    <3>2. CASE n = Len(queued) + 1
      <4>1. queued'[n] = store /\ (m \in DOMAIN queued \/ m = n)
        BY <1>2, <3>2
      <4>2. id \in Orphans(store)
        BY <2>1, <4>1
      <4>3. id \notin Named(store.index)
        BY <4>2 DEF Orphans
      <4> QED
        BY <1>2, <4>1, <4>2, <4>3
    <3> QED
      BY <1>2, <3>1, <3>2
  <2>2. ASSUME NEW id \in Orphans(kv'), NEW m \in DOMAIN queued'
        PROVE  id \notin listed' /\ id \notin Named(queued'[m].index)
    <3>1. id \notin Named(store.index)
      BY <1>1, <2>2 DEF Orphans
    <3> QED
      BY <1>1, <1>3, <2>2, <3>1
  <2>3. \A n \in DOMAIN queued' : 1 \in 1 .. n
    BY <1>2
  <2>4. \A id \in Orphans(disk) : id \notin listed
    BY DEF OrphansUnlisted
  <2>5. \A id \in Orphans(disk') : id \notin listed'
    BY <2>4
  <2>6. \A id \in Orphans(kv') : id \notin listed'
    BY <1>1
  <2>7. OrphansUnlisted' =
          (/\ \A id \in Orphans(disk') : id \notin listed'
           /\ \A n \in DOMAIN queued' : \A id \in Orphans(queued'[n]) :
                  id \notin listed' /\ \A m \in 1 .. n : id \notin Named(queued'[m].index)
           /\ \A id \in Orphans(kv') :
                  id \notin listed' /\ \A m \in DOMAIN queued' : id \notin Named(queued'[m].index))
    BY DEF OrphansUnlisted, Orphans, Named
  <2> QED
    BY <2>1, <2>2, <2>3, <2>5, <2>6, <2>7
<1> QED
  BY <1>1, <1>2, <1>3, <1>4, <1>5

\* Between operations what would be encoded of the list is the index.
LEMMA ListIsIndex ==
  ASSUME VaultTypeOK, IndexInStep, edit = NoEdit
  PROVE  /\ kv.index \in Seq(Entries) /\ Encoded(proxies) = kv.index
         /\ DOMAIN proxies = DOMAIN kv.index
         /\ \A n \in DOMAIN kv.index : /\ kv.index[n] \in Entries
                                      /\ proxies[n].id = kv.index[n].id
                                      /\ proxies[n].version = kv.index[n].version
         /\ Known = Named(kv.index)
<1>1. kv.index \in Seq(Entries)
  BY DEF VaultTypeOK, Stores
<1>2. Encoded(proxies) = kv.index
  BY DEF IndexInStep, NoEdit
<1>3. DOMAIN proxies = DOMAIN kv.index
  BY <1>2 DEF Encoded
<1>4. \A n \in DOMAIN kv.index : /\ proxies[n].id = kv.index[n].id
                                /\ proxies[n].version = kv.index[n].version
  BY <1>2, <1>3 DEF Encoded
<1>5. \A n \in DOMAIN kv.index : kv.index[n] \in Entries
  BY <1>1
<1> QED
  BY <1>1, <1>2, <1>3, <1>4, <1>5 DEF Known, Named

\* An operation that has just begun: what it proposes is all it has to answer
\* for, since nothing but its own state has changed.
LEMMA Started ==
  ASSUME VaultInv, NEW op, NEW id, NEW pc, NEW index, Edit(op, id, pc, index),
         <<op, pc>> \in {<<"save", "password">>, <<"update", "password">>,
                         <<"delete", "password">>, <<"reorder", "metadata">>,
                         <<"default", "default">>},
         id \in Ids \cup {0}, op \in {"save", "update", "delete"} => id \in Ids,
         index \in Seq(Entries), Unique(index),
         saved' \in 0 .. MaxSaves, saved' >= saved,
         op = "save" => id = saved + 1 /\ saved' = saved + 1,
         Proposed'
  PROVE  VaultInv'
<1> USE VaultAssumption
<1>0. VaultTypeOK /\ edit = NoEdit
  BY DEF VaultInv, Edit
<1>1. /\ edit' = [op |-> op, pc |-> pc, id |-> id, version |-> edits + 1, index |-> index]
      /\ edits < MaxEdits /\ edits' = edits + 1
      /\ UNCHANGED <<proxies, defaultId, kv, queued, disk, vaultDeaths, listed, torn>>
  BY DEF Edit
<1>2. /\ edit'.op = op /\ edit'.pc = pc /\ edit'.id = id /\ edit'.index = index
      /\ edit'.version = edits + 1
  BY <1>1
<1>3. edits + 1 \in 0 .. MaxEdits
  BY <1>0, <1>1 DEF VaultTypeOK
<1>4. edit' \in EditStates
  BY <1>1, <1>3 DEF EditStates
<1>5. VaultTypeOK'
  BY <1>0, <1>1, <1>3, <1>4 DEF VaultTypeOK
<1>6. OpSteps'
  BY <1>2 DEF OpSteps
<1>7. IndexInStep'
  <2>1. Encoded(proxies) = kv.index /\ defaultId = kv.default
    BY <1>0 DEF VaultInv, IndexInStep, NoEdit
  <2>2. Encoded(proxies)' = Encoded(proxies)
    BY <1>1 DEF Encoded
  <2> QED
    BY <1>1, <1>2, <2>1, <2>2 DEF IndexInStep
<1>8. RestartShowsSame'
  BY <1>2 DEF RestartShowsSame, NoEdit
<1>9. GivenOut /\ GivenOut'
  <2>1. GivenOut
    BY DEF VaultInv
  <2>2. 1 .. saved \subseteq 1 .. saved'
    BY <1>0 DEF VaultTypeOK
  <2>3. GivenOut'
    BY <1>1, <2>1, <2>2 DEF GivenOut, Named
  <2> QED
    BY <2>1, <2>3
<1>10. NewUnwritten'
  <2>1. saved + 1 \notin 1 .. saved
    BY <1>0 DEF VaultTypeOK
  <2> QED
    BY <1>1, <1>2, <1>9, <2>1 DEF NewUnwritten, GivenOut, Named
<1>11. OrphansUnlisted'
  BY <1>1 DEF VaultInv, OrphansUnlisted, Orphans, Named
<1>12. BlobFirst'
  BY <1>2 DEF BlobFirst
<1>13. TornOnlyHere'
  BY <1>0, <1>1, <1>2 DEF VaultInv, TornOnlyHere, NoEdit
<1>14. UniqueIds'
  BY <1>1, <1>2 DEF VaultInv, UniqueIds, Unique
<1> QED
  BY <1>5, <1>6, <1>7, <1>8, <1>9, <1>10, <1>11, <1>12, <1>13, <1>14 DEF VaultInv

\* save
LEMMA SaveKeeps == ASSUME VaultInv, Save PROVE VaultInv'
<1> USE VaultAssumption
<1> DEFINE entry == [id |-> saved + 1, version |-> edits + 1]
           index == Append(kv.index, entry)
<1>0. VaultTypeOK /\ IndexInStep /\ GivenOut /\ UniqueIds /\ edit = NoEdit
  BY DEF VaultInv, Save, Edit
<1>1. /\ saved < MaxSaves /\ saved' = saved + 1
      /\ Edit("save", saved + 1, "password", Append(Encoded(proxies), entry))
  BY DEF Save
<1>2. /\ Encoded(proxies) = kv.index /\ kv.index \in Seq(Entries)
      /\ \A n \in DOMAIN kv.index : kv.index[n] \in Entries
  BY <1>0, ListIsIndex
<1>3. saved + 1 \in Ids /\ saved' \in 0 .. MaxSaves /\ saved' >= saved
  BY <1>0, <1>1 DEF VaultTypeOK, Ids
<1>4. edits + 1 \in 1 .. MaxEdits
  BY <1>0, <1>1 DEF VaultTypeOK, Edit
<1>5. entry \in Entries
  BY <1>3, <1>4 DEF Entries
<1>6. entry.id = saved + 1 /\ entry.version = edits + 1
  OBVIOUS
<1>7. saved + 1 \notin Named(kv.index)
  <2>1. saved + 1 \notin 1 .. saved
    BY <1>0 DEF VaultTypeOK
  <2> QED
    BY <1>0, <2>1 DEF GivenOut
<1> HIDE DEF entry
<1>8. /\ index \in Seq(Entries) /\ DOMAIN index = 1 .. Len(kv.index) + 1
      /\ Len(kv.index) \in Nat /\ DOMAIN kv.index = 1 .. Len(kv.index)
      /\ \A k \in DOMAIN kv.index : k \in DOMAIN index /\ index[k] = kv.index[k]
      /\ index[Len(kv.index) + 1] = entry
      /\ \A k \in DOMAIN index : k \in DOMAIN kv.index \/ k = Len(kv.index) + 1
  BY <1>2, <1>5, AppendFacts, SeqFacts
<1>9. Edit("save", saved + 1, "password", index)
  BY <1>1, <1>2
<1> HIDE DEF index
<1>10. \A k \in DOMAIN kv.index : kv.index[k].id # saved + 1
  BY <1>7 DEF Named
<1>11. Unique(index)
  BY <1>0, <1>6, <1>8, <1>10 DEF Unique, UniqueIds
<1>12. Proposed'
  <2>1. /\ edit'.op = "save" /\ edit'.id = saved' /\ edit'.index = index /\ edit'.pc = "password"
        /\ edit'.version = edits + 1 /\ kv' = kv
    BY <1>1, <1>9 DEF Edit
  <2>2. Named(kv.index) \subseteq Named(index)
    BY <1>8 DEF Named
  <2>3. \A n \in DOMAIN index :
           IF index[n].id = saved + 1 THEN index[n].version = edits + 1
           ELSE \E m \in DOMAIN kv.index : kv.index[m] = index[n]
    BY <1>6, <1>8, <1>10
  <2> QED
    BY <1>1, <1>7, <2>1, <2>2, <2>3 DEF Proposed, Named
<1> QED
  BY <1>1, <1>3, <1>8, <1>9, <1>11, <1>12, Started

\* update
LEMMA UpdateKeeps == ASSUME VaultInv, NEW id \in Ids, Update(id) PROVE VaultInv'
<1> USE VaultAssumption
<1> DEFINE index == [n \in DOMAIN proxies |->
                        [id |-> proxies[n].id,
                         version |-> IF proxies[n].id = id THEN edits + 1 ELSE proxies[n].version]]
<1>0. VaultTypeOK /\ IndexInStep /\ UniqueIds /\ edit = NoEdit
  BY DEF VaultInv, Update, Edit
<1>1. id \in Known /\ saved' = saved /\ Edit("update", id, "password", index)
  BY DEF Update
<1>2. /\ kv.index \in Seq(Entries) /\ DOMAIN proxies = DOMAIN kv.index
      /\ \A n \in DOMAIN kv.index : /\ kv.index[n] \in Entries
                                    /\ proxies[n].id = kv.index[n].id
                                    /\ proxies[n].version = kv.index[n].version
      /\ Known = Named(kv.index)
  BY <1>0, ListIsIndex
<1>3. edits + 1 \in 1 .. MaxEdits
  BY <1>0, <1>1 DEF VaultTypeOK, Edit
<1>4. /\ DOMAIN index = DOMAIN kv.index
      /\ \A n \in DOMAIN kv.index :
            index[n] = [id |-> kv.index[n].id,
                        version |-> IF kv.index[n].id = id THEN edits + 1 ELSE kv.index[n].version]
  BY <1>2
<1>5. index \in [DOMAIN kv.index -> Entries]
  BY <1>2, <1>3 DEF Entries
<1>6. index \in Seq(Entries)
  BY <1>2, <1>5, SeqMapped
<1> HIDE DEF index
<1>7. \A n \in DOMAIN kv.index :
        /\ index[n].id = kv.index[n].id
        /\ kv.index[n].id = id => index[n].version = edits + 1
        /\ kv.index[n].id # id => index[n] = kv.index[n]
  <2> SUFFICES ASSUME NEW n \in DOMAIN kv.index
               PROVE  /\ index[n].id = kv.index[n].id
                      /\ kv.index[n].id = id => index[n].version = edits + 1
                      /\ kv.index[n].id # id => index[n] = kv.index[n]
    OBVIOUS
  <2>1. kv.index[n] = [id |-> kv.index[n].id, version |-> kv.index[n].version]
    BY <1>2 DEF Entries
  <2>2. index[n] = [id |-> kv.index[n].id,
                    version |-> IF kv.index[n].id = id THEN edits + 1 ELSE kv.index[n].version]
    BY <1>4
  <2> QED
    BY <2>1, <2>2
<1>8. Unique(index)
  BY <1>0, <1>4, <1>7 DEF Unique, UniqueIds
<1>9. Proposed'
  <2>1. /\ edit'.op = "update" /\ edit'.id = id /\ edit'.index = index /\ edit'.pc = "password"
        /\ edit'.version = edits + 1 /\ kv' = kv
    BY <1>1 DEF Edit
  <2>2. Named(kv.index) \subseteq Named(index)
    BY <1>4, <1>7 DEF Named
  <2>3. \A n \in DOMAIN index :
           IF index[n].id = id THEN index[n].version = edits + 1
           ELSE \E m \in DOMAIN kv.index : kv.index[m] = index[n]
    BY <1>4, <1>7
  <2>4. id \in Named(kv.index) /\ Named(kv.index) \ Named(index) \subseteq {}
    BY <1>1, <1>2, <2>2
  <2> QED
    BY <2>1, <2>3, <2>4 DEF Proposed, Named
<1>10. saved' \in 0 .. MaxSaves /\ saved' >= saved
  BY <1>0, <1>1 DEF VaultTypeOK
<1> QED
  BY <1>1, <1>6, <1>8, <1>9, <1>10, Started

\* delete
LEMMA DeleteKeeps == ASSUME VaultInv, NEW id \in Ids, Delete(id) PROVE VaultInv'
<1> USE VaultAssumption
<1> DEFINE p == Place(id)
           index == RemoveAt(kv.index, p)
<1>0. VaultTypeOK /\ IndexInStep /\ UniqueIds /\ edit = NoEdit
  BY DEF VaultInv, Delete, Edit
<1>1. id \in Known /\ saved' = saved /\ Edit("delete", id, "password", Without(id))
  BY DEF Delete
<1>2. /\ kv.index \in Seq(Entries) /\ DOMAIN proxies = DOMAIN kv.index
      /\ Encoded(proxies) = kv.index
      /\ \A n \in DOMAIN kv.index : proxies[n].id = kv.index[n].id
      /\ Known = Named(kv.index)
  BY <1>0, ListIsIndex
<1>3. p \in DOMAIN kv.index /\ kv.index[p].id = id
  <2>1. \E n \in DOMAIN proxies : proxies[n].id = id
    BY <1>1 DEF Known, Named
  <2>2. p \in DOMAIN proxies /\ proxies[p].id = id
    BY <2>1 DEF Place
  <2> QED
    BY <1>2, <2>2
<1>4. Edit("delete", id, "password", index)
  BY <1>1, <1>2 DEF Without
<1> HIDE DEF p
<1>5. /\ index \in Seq(Entries) /\ DOMAIN index = 1 .. Len(kv.index) - 1
      /\ \A k \in 1 .. Len(kv.index) - 1 :
            index[k] = IF k < p THEN kv.index[k] ELSE kv.index[k + 1]
      /\ Len(kv.index) \in Nat /\ DOMAIN kv.index = 1 .. Len(kv.index)
  BY <1>2, <1>3, RemoveFacts, SeqFacts
<1> HIDE DEF index
<1>6. \A m, n \in DOMAIN kv.index : kv.index[m].id = kv.index[n].id => m = n
  BY <1>0 DEF Unique, UniqueIds
<1>7. Unique(index)
  <2> SUFFICES ASSUME NEW m \in DOMAIN index, NEW n \in DOMAIN index, index[m].id = index[n].id
               PROVE  m = n
    BY DEF Unique
  <2>1. PICK i \in DOMAIN kv.index : index[m] = kv.index[i] /\ i = IF m < p THEN m ELSE m + 1
    BY <1>3, <1>5
  <2>2. PICK j \in DOMAIN kv.index : index[n] = kv.index[j] /\ j = IF n < p THEN n ELSE n + 1
    BY <1>3, <1>5
  <2>3. i = j
    BY <1>6, <2>1, <2>2
  <2> QED
    BY <1>3, <1>5, <2>1, <2>2, <2>3
<1>8. Proposed'
  <2>1. /\ edit'.op = "delete" /\ edit'.id = id /\ edit'.index = index /\ edit'.pc = "password"
        /\ kv' = kv
    BY <1>4 DEF Edit
  <2>2. ASSUME NEW i \in DOMAIN kv.index, kv.index[i].id # id
        PROVE  \E k \in DOMAIN index : index[k].id = kv.index[i].id
    <3>1. CASE i < p
      <4>1. i \in DOMAIN index /\ index[i] = kv.index[i]
        BY <1>3, <1>5, <3>1
      <4> QED
        BY <4>1
    <3>2. CASE i > p
      <4>1. i - 1 \in DOMAIN index /\ index[i - 1] = kv.index[i]
        BY <1>3, <1>5, <3>2
      <4> QED
        BY <4>1
    <3>3. i # p
      BY <1>3, <2>2
    <3> QED
      BY <1>3, <1>5, <3>1, <3>2, <3>3
  <2>3. Named(kv.index) \ Named(index) \subseteq {id}
    BY <2>2 DEF Named
  <2>4. ASSUME NEW n \in DOMAIN index PROVE \E m \in DOMAIN kv.index : kv.index[m] = index[n]
    <3>1. CASE n < p
      <4>1. n \in DOMAIN kv.index /\ index[n] = kv.index[n]
        BY <1>3, <1>5, <3>1
      <4> QED
        BY <4>1
    <3>2. CASE ~(n < p)
      <4>1. n + 1 \in DOMAIN kv.index /\ index[n] = kv.index[n + 1]
        BY <1>3, <1>5, <3>2
      <4> QED
        BY <4>1
    <3> QED
      BY <3>1, <3>2
  <2>5. id \in Named(kv.index)
    BY <1>3 DEF Named
  <2> QED
    BY <2>1, <2>3, <2>4, <2>5 DEF Proposed
<1>9. saved' \in 0 .. MaxSaves /\ saved' >= saved
  BY <1>0, <1>1 DEF VaultTypeOK
<1> QED
  BY <1>4, <1>5, <1>7, <1>8, <1>9, Started

\* reorder
LEMMA ReorderKeeps == ASSUME VaultInv, NEW n, Reorder(n) PROVE VaultInv'
<1> USE VaultAssumption
<1> DEFINE index == [kv.index EXCEPT ![n] = kv.index[n + 1], ![n + 1] = kv.index[n]]
<1>0. VaultTypeOK /\ IndexInStep /\ UniqueIds /\ edit = NoEdit
  BY DEF VaultInv, Reorder, Edit
<1>1. /\ n \in 1 .. Len(proxies) - 1 /\ saved' = saved
      /\ Edit("reorder", 0, "metadata",
              [Encoded(proxies) EXCEPT ![n] = Encoded(proxies)[n + 1],
                                       ![n + 1] = Encoded(proxies)[n]])
  BY DEF Reorder
<1>2. /\ kv.index \in Seq(Entries) /\ DOMAIN proxies = DOMAIN kv.index
      /\ Encoded(proxies) = kv.index
      /\ \A k \in DOMAIN kv.index : kv.index[k] \in Entries
  BY <1>0, ListIsIndex
<1>3. n \in DOMAIN kv.index /\ n + 1 \in DOMAIN kv.index /\ n # n + 1
  <2>1. DOMAIN proxies = 1 .. Len(proxies) /\ Len(proxies) \in Nat
    BY <1>0, SeqFacts DEF VaultTypeOK
  <2> QED
    BY <1>1, <1>2, <2>1
<1>4. Edit("reorder", 0, "metadata", index)
  BY <1>1, <1>2
<1>5. /\ DOMAIN index = DOMAIN kv.index
      /\ index[n] = kv.index[n + 1] /\ index[n + 1] = kv.index[n]
      /\ \A k \in DOMAIN kv.index : k \notin {n, n + 1} => index[k] = kv.index[k]
  BY <1>2, <1>3
<1>6. index \in [DOMAIN kv.index -> Entries]
  BY <1>2, <1>3
<1>7. index \in Seq(Entries)
  BY <1>2, <1>6, SeqMapped
<1> HIDE DEF index
<1>8. \A i, j \in DOMAIN kv.index : kv.index[i].id = kv.index[j].id => i = j
  BY <1>0 DEF Unique, UniqueIds
<1>9. Unique(index)
  BY <1>3, <1>5, <1>8 DEF Unique
<1>10. Proposed'
  <2>1. /\ edit'.op = "reorder" /\ edit'.index = index /\ edit'.pc = "metadata" /\ kv' = kv
    BY <1>4 DEF Edit
  <2>2. \A k \in DOMAIN index : \E m \in DOMAIN kv.index : kv.index[m] = index[k]
    BY <1>3, <1>5
  <2>3. \A m \in DOMAIN kv.index : \E k \in DOMAIN index : kv.index[m] = index[k]
    BY <1>3, <1>5
  <2>4. Named(kv.index) \subseteq Named(index)
    BY <2>3 DEF Named
  <2> QED
    <3>1. Named(edit'.index) = Named(index) /\ Named(kv'.index) = Named(kv.index)
      BY <2>1
    <3> QED
      BY <2>1, <2>2, <2>4, <3>1 DEF Proposed
<1>11. saved' \in 0 .. MaxSaves /\ saved' >= saved
  BY <1>0, <1>1 DEF VaultTypeOK
<1> QED
  BY <1>4, <1>7, <1>9, <1>10, <1>11, Started

\* setDefault
LEMMA SetDefaultKeeps == ASSUME VaultInv, NEW id \in Ids \cup {0}, SetDefault(id) PROVE VaultInv'
<1>0. VaultTypeOK /\ saved' = saved /\ Edit("default", id, "default", <<>>)
  BY DEF VaultInv, SetDefault
<1>1. <<>> \in Seq(Entries) /\ Unique(<<>>)
  BY DEF Unique
<1>2. edit'.pc = "default"
  BY <1>0 DEF Edit
<1>3. Proposed'
  BY <1>2 DEF Proposed
<1>4. saved' \in 0 .. MaxSaves /\ saved' >= saved
  BY <1>0, VaultAssumption DEF VaultTypeOK
<1> QED
  BY <1>0, <1>1, <1>3, <1>4, Started

\* persistPassword: the blob that appears belongs to an entry that is there, or
\* to a save's, which is in no file yet.
LEMMA PersistPasswordKeeps == ASSUME VaultInv, PersistPassword PROVE VaultInv'
<1> USE VaultAssumption
<1>0. /\ VaultTypeOK /\ OpSteps /\ IndexInStep /\ Proposed /\ GivenOut /\ NewUnwritten
      /\ OrphansUnlisted /\ TornOnlyHere /\ UniqueIds
  BY DEF VaultInv
<1>1. PICK v \in {0, edit.version} :
        Write([kv EXCEPT !.pw[edit.id] = v]) /\ (edit.op = "delete" => v = 0)
  BY DEF PersistPassword
<1>2. /\ edit.pc = "password" /\ edit' = [edit EXCEPT !.pc = "metadata"]
      /\ UNCHANGED <<proxies, defaultId, disk, saved, edits, vaultDeaths, listed, torn>>
  BY DEF PersistPassword, EditAt, EditGoes, idleStore
<1> DEFINE store == [kv EXCEPT !.pw[edit.id] = v]
<1>3. edit \in EditStates /\ kv \in Stores /\ edit.id \in Ids /\ v \in 0 .. MaxEdits
  <2>1. edit \in EditStates /\ kv \in Stores /\ edit.id \in Ids
    BY <1>0, <1>2 DEF VaultTypeOK, OpSteps
  <2>2. edit.version \in 0 .. MaxEdits /\ 0 \in 0 .. MaxEdits
    BY <2>1 DEF EditStates
  <2> QED
    BY <2>1, <2>2
<1>4. /\ store \in Stores /\ store.index = kv.index /\ store.default = kv.default
      /\ store.pw[edit.id] = v /\ \A id \in Ids : id # edit.id => store.pw[id] = kv.pw[id]
  BY <1>3 DEF Stores
<1>5. Write(store)
  BY <1>1
<1> HIDE DEF store
<1>6. kv' = store
  BY <1>5 DEF Write
<1>7. /\ edit' \in EditStates /\ edit'.op = edit.op /\ edit'.pc = "metadata" /\ edit'.id = edit.id
      /\ edit'.version = edit.version /\ edit'.index = edit.index
  BY <1>2, <1>3 DEF EditStates
<1>8. ASSUME NEW id \in Orphans(store)
      PROVE  id \notin listed /\ \A m \in DOMAIN queued : id \notin Named(queued[m].index)
  <2>1. id \in Ids /\ store.pw[id] # 0 /\ id \notin Named(kv.index)
    BY <1>4, <1>8 DEF Orphans
  <2>2. CASE id \in Orphans(kv)
    BY <1>0, <2>2 DEF OrphansUnlisted
  <2>3. CASE id \notin Orphans(kv)
    <3>1. id = edit.id /\ v # 0
      BY <1>4, <2>1, <2>3 DEF Orphans
    <3>2. edit.op = "save"
      BY <1>0, <1>1, <1>2, <2>1, <3>1 DEF OpSteps, Proposed
    <3> QED
      BY <1>0, <1>2, <3>1, <3>2 DEF NewUnwritten
  <2> QED
    BY <2>2, <2>3
<1>9. Unique(store.index) /\ Named(store.index) \subseteq 1 .. saved
  BY <1>0, <1>4 DEF UniqueIds, GivenOut
<1>10. /\ queued' \in Seq(Stores) /\ kv' \in Stores /\ GivenOut' /\ OrphansUnlisted'
       /\ \A n \in DOMAIN queued' :
             queued'[n] = store \/ (n \in DOMAIN queued /\ queued'[n] = queued[n])
  BY <1>0, <1>2, <1>4, <1>5, <1>8, <1>9, Written
<1>11. VaultTypeOK'
  BY <1>0, <1>2, <1>7, <1>10 DEF VaultTypeOK
<1>12. OpSteps' /\ RestartShowsSame'
  BY <1>0, <1>2, <1>7 DEF OpSteps, RestartShowsSame, NoEdit
<1>13. IndexInStep'
  <2>1. Encoded(proxies)' = Encoded(proxies)
    BY <1>2 DEF Encoded
  <2>2. Encoded(proxies) = kv.index /\ defaultId = kv.default
    BY <1>0, <1>2 DEF IndexInStep
  <2> QED
    BY <1>2, <1>4, <1>6, <1>7, <2>1, <2>2 DEF IndexInStep
<1>14. Proposed'
  <2>1. kv'.index = kv.index
    BY <1>4, <1>6
  <2> QED
    BY <1>0, <1>2, <1>7, <2>1 DEF Proposed, Named
<1>15. NewUnwritten'
  <2>1. edit.op = "save" => edit.id \notin Named(store.index)
    BY <1>0, <1>2, <1>4 DEF Proposed
  <2> QED
    BY <1>0, <1>2, <1>7, <1>10, <2>1 DEF NewUnwritten, Named
<1>16. BlobFirst'
  BY <1>1, <1>4, <1>6, <1>7 DEF BlobFirst
<1>17. TornOnlyHere'
  <2> SUFFICES ASSUME ~torn PROVE TornOnlyHere'
    BY <1>2 DEF TornOnlyHere
  <2>1. \A n \in DOMAIN kv.index : kv.pw[kv.index[n].id] \in {0, kv.index[n].version}
    BY <1>0, <1>2 DEF TornOnlyHere
  <2>2. ASSUME NEW n \in DOMAIN kv.index
        PROVE  \/ store.pw[kv.index[n].id] \in {0, kv.index[n].version}
               \/ edit.op = "update" /\ edit.id = kv.index[n].id
    <3>1. kv.index[n].id \in Ids /\ kv.index[n].id \in Named(kv.index)
      <4>1. kv.index \in Seq(Entries)
        BY <1>3 DEF Stores
      <4>2. kv.index[n] \in Entries
        BY <4>1, SeqFacts
      <4> QED
        BY <4>2 DEF Entries, Named
    <3>2. CASE kv.index[n].id # edit.id
      BY <1>4, <2>1, <3>1, <3>2
    <3>3. CASE kv.index[n].id = edit.id
      <4>1. edit.op \in {"update", "delete"}
        BY <1>0, <1>2, <3>1, <3>3 DEF Proposed, OpSteps
      <4> QED
        BY <1>1, <1>4, <3>3, <4>1
    <3> QED
      BY <3>2, <3>3
  <2> QED
    BY <1>1, <1>2, <1>4, <1>6, <1>7, <2>2 DEF TornOnlyHere
<1>18. UniqueIds'
  BY <1>0, <1>2, <1>6, <1>7, <1>9, <1>10 DEF UniqueIds, Unique
<1> QED
  BY <1>10, <1>11, <1>12, <1>13, <1>14, <1>15, <1>16, <1>17, <1>18 DEF VaultInv

\* persistMetadata: an entry that goes has lost its blob, and one that comes has
\* the operation's.
LEMMA PersistMetadataKeeps == ASSUME VaultInv, PersistMetadata PROVE VaultInv'
<1> USE VaultAssumption
<1>0. /\ VaultTypeOK /\ OpSteps /\ IndexInStep /\ Proposed /\ GivenOut /\ NewUnwritten
      /\ OrphansUnlisted /\ BlobFirst /\ TornOnlyHere /\ UniqueIds
  BY DEF VaultInv
<1> DEFINE store == [kv EXCEPT !.index = edit.index]
           next == IF edit.op = "delete" /\ defaultId = edit.id THEN "default" ELSE "overlay"
<1>1. /\ Write(store) /\ edit.pc = "metadata" /\ edit' = [edit EXCEPT !.pc = next]
      /\ UNCHANGED <<proxies, defaultId, disk, saved, edits, vaultDeaths, listed, torn>>
  BY DEF PersistMetadata, EditAt, EditGoes, idleStore
<1>2. edit \in EditStates /\ kv \in Stores /\ edit.index \in Seq(Entries)
  BY <1>0 DEF VaultTypeOK, EditStates
<1>3. /\ store \in Stores /\ store.index = edit.index /\ store.default = kv.default
      /\ store.pw = kv.pw
  BY <1>2 DEF Stores
<1>4. next \in {"default", "overlay"} /\ (next = "default" => edit.op = "delete")
  OBVIOUS
<1> HIDE DEF store, next
<1>5. kv' = store
  BY <1>1 DEF Write
<1>6. /\ edit' \in EditStates /\ edit'.op = edit.op /\ edit'.pc = next /\ edit'.id = edit.id
      /\ edit'.version = edit.version /\ edit'.index = edit.index
  BY <1>1, <1>2, <1>4 DEF EditStates
<1>7. /\ edit.op \in {"update", "delete"} => edit.id \in Named(kv.index)
      /\ edit.op = "save" => edit.id = saved
      /\ \A id \in Named(kv.index) :
             id \in Named(edit.index) \/ (edit.op = "delete" /\ id = edit.id)
      /\ \A n \in DOMAIN edit.index :
             IF edit.op \in {"save", "update"} /\ edit.index[n].id = edit.id
               THEN edit.index[n].version = edit.version
               ELSE \E m \in DOMAIN kv.index : kv.index[m] = edit.index[n]
  BY <1>0, <1>1 DEF Proposed
<1>8. ASSUME NEW id \in Orphans(store)
      PROVE  id \notin listed /\ \A m \in DOMAIN queued : id \notin Named(queued[m].index)
  <2>1. id \in Ids /\ kv.pw[id] # 0 /\ id \notin Named(edit.index)
    BY <1>3, <1>8 DEF Orphans
  <2>2. id \notin Named(kv.index)
    BY <1>0, <1>1, <1>7, <2>1 DEF BlobFirst
  <2>3. id \in Orphans(kv)
    BY <2>1, <2>2 DEF Orphans
  <2> QED
    BY <1>0, <2>3 DEF OrphansUnlisted
<1>9. Unique(store.index) /\ Named(store.index) \subseteq 1 .. saved
  <2>1. Unique(store.index)
    BY <1>0, <1>3 DEF UniqueIds
  <2>2. Named(kv.index) \subseteq 1 .. saved
    BY <1>0 DEF GivenOut
  <2>3. ASSUME NEW n \in DOMAIN edit.index PROVE edit.index[n].id \in 1 .. saved
    <3>1. CASE edit.op = "save" /\ edit.index[n].id = edit.id
      <4>1. edit.id = saved /\ edit.id \in 1 .. MaxSaves
        BY <1>0, <1>7, <3>1 DEF OpSteps, Ids
      <4> QED
        BY <3>1, <4>1
    <3>2. CASE edit.op = "update" /\ edit.index[n].id = edit.id
      BY <1>7, <2>2, <3>2
    <3>3. CASE ~(edit.op \in {"save", "update"} /\ edit.index[n].id = edit.id)
      <4>1. PICK m \in DOMAIN kv.index : kv.index[m] = edit.index[n]
        BY <1>7, <3>3
      <4> QED
        BY <2>2, <4>1 DEF Named
    <3> QED
      BY <3>1, <3>2, <3>3
  <2> QED
    BY <1>3, <2>1, <2>3 DEF Named
<1>10. /\ queued' \in Seq(Stores) /\ kv' \in Stores /\ GivenOut' /\ OrphansUnlisted'
       /\ \A n \in DOMAIN queued' :
             queued'[n] = store \/ (n \in DOMAIN queued /\ queued'[n] = queued[n])
  BY <1>0, <1>1, <1>3, <1>8, <1>9, Written
<1>11. VaultTypeOK'
  BY <1>0, <1>1, <1>6, <1>10 DEF VaultTypeOK
<1>12. OpSteps' /\ RestartShowsSame'
  BY <1>0, <1>1, <1>4, <1>6 DEF OpSteps, RestartShowsSame, NoEdit
<1>13. IndexInStep'
  <2>1. defaultId = kv.default /\ edit.op # "default"
    BY <1>0, <1>1 DEF IndexInStep, OpSteps
  <2> QED
    BY <1>1, <1>3, <1>4, <1>5, <1>6, <2>1 DEF IndexInStep
<1>14. Proposed' /\ NewUnwritten' /\ BlobFirst'
  BY <1>4, <1>6 DEF Proposed, NewUnwritten, BlobFirst
<1>15. TornOnlyHere'
  <2> SUFFICES ASSUME ~torn, NEW n \in DOMAIN edit.index
               PROVE  kv.pw[edit.index[n].id] \in {0, edit.index[n].version}
    BY <1>1, <1>3, <1>4, <1>5, <1>6 DEF TornOnlyHere
  <2>1. CASE edit.op \in {"save", "update"} /\ edit.index[n].id = edit.id
    BY <1>0, <1>1, <1>7, <2>1 DEF TornOnlyHere
  <2>2. CASE ~(edit.op \in {"save", "update"} /\ edit.index[n].id = edit.id)
    <3>1. PICK m \in DOMAIN kv.index : kv.index[m] = edit.index[n]
      BY <1>7, <2>2
    <3> QED
      BY <1>0, <2>2, <3>1 DEF TornOnlyHere
  <2> QED
    BY <2>1, <2>2
<1>16. UniqueIds'
  BY <1>0, <1>1, <1>5, <1>6, <1>9, <1>10 DEF UniqueIds, Unique
<1> QED
  BY <1>10, <1>11, <1>12, <1>13, <1>14, <1>15, <1>16 DEF VaultInv

\* setDefault, and delete of the default: neither the index nor a blob changes.
LEMMA PersistDefaultKeeps == ASSUME VaultInv, PersistDefault PROVE VaultInv'
<1> USE VaultAssumption
<1>0. /\ VaultTypeOK /\ OpSteps /\ IndexInStep /\ GivenOut
      /\ OrphansUnlisted /\ TornOnlyHere /\ UniqueIds
  BY DEF VaultInv
<1> DEFINE id == IF edit.op = "delete" THEN 0 ELSE edit.id
           store == [kv EXCEPT !.default = id]
<1>1. /\ Write(store) /\ defaultId' = id /\ edit.pc = "default"
      /\ edit' = [edit EXCEPT !.pc = "overlay"]
      /\ UNCHANGED <<proxies, disk, saved, edits, vaultDeaths, listed, torn>>
  BY DEF PersistDefault, EditAt, EditGoes, idleStore
<1>2. edit \in EditStates /\ kv \in Stores
  BY <1>0 DEF VaultTypeOK
<1>3. id \in Ids \cup {0}
  BY <1>2 DEF EditStates
<1> HIDE DEF id
<1>4. store \in Stores /\ store.index = kv.index /\ store.default = id /\ store.pw = kv.pw
  BY <1>2, <1>3 DEF Stores
<1> HIDE DEF store
<1>5. kv' = store
  BY <1>1 DEF Write
<1>6. /\ edit' \in EditStates /\ edit'.op = edit.op /\ edit'.pc = "overlay" /\ edit'.id = edit.id
      /\ edit'.version = edit.version /\ edit'.index = edit.index
  BY <1>1, <1>2 DEF EditStates
<1>7. \A o \in Orphans(store) :
        o \notin listed /\ \A m \in DOMAIN queued : o \notin Named(queued[m].index)
  BY <1>0, <1>4 DEF OrphansUnlisted, Orphans
<1>8. Unique(store.index) /\ Named(store.index) \subseteq 1 .. saved
  BY <1>0, <1>4 DEF UniqueIds, GivenOut
<1>9. /\ queued' \in Seq(Stores) /\ kv' \in Stores /\ GivenOut' /\ OrphansUnlisted'
      /\ \A n \in DOMAIN queued' :
            queued'[n] = store \/ (n \in DOMAIN queued /\ queued'[n] = queued[n])
  BY <1>0, <1>1, <1>4, <1>7, <1>8, Written
<1>10. VaultTypeOK'
  BY <1>0, <1>1, <1>3, <1>6, <1>9 DEF VaultTypeOK
<1>11. OpSteps' /\ RestartShowsSame'
  BY <1>0, <1>1, <1>6 DEF OpSteps, RestartShowsSame, NoEdit
<1>12. IndexInStep'
  <2>1. Encoded(proxies)' = Encoded(proxies)
    BY <1>1 DEF Encoded
  <2> QED
    BY <1>0, <1>1, <1>4, <1>5, <1>6, <2>1 DEF IndexInStep
<1>13. Proposed' /\ NewUnwritten' /\ BlobFirst'
  BY <1>6 DEF Proposed, NewUnwritten, BlobFirst
<1>14. TornOnlyHere'
  <2> SUFFICES ASSUME ~torn, NEW n \in DOMAIN kv.index
               PROVE  kv.pw[kv.index[n].id] \in {0, kv.index[n].version}
    BY <1>1, <1>4, <1>5, <1>6 DEF TornOnlyHere
  <2> QED
    BY <1>0, <1>1 DEF TornOnlyHere
<1>15. UniqueIds'
  BY <1>0, <1>1, <1>5, <1>6, <1>8, <1>9 DEF UniqueIds, Unique
<1> QED
  BY <1>9, <1>10, <1>11, <1>12, <1>13, <1>14, <1>15 DEF VaultInv

\* An idle store that shows what it holds: what is left to prove of a step that
\* ends with no operation under way.
LEMMA EditsSettled ==
  ASSUME VaultTypeOK', edit' = NoEdit, proxies' = Load(kv'), defaultId' = kv'.default,
         GivenOut', OrphansUnlisted', Unique(kv'.index), Unique(disk'.index),
         \A n \in DOMAIN queued' : Unique(queued'[n].index),
         ~torn' => \A n \in DOMAIN kv'.index : kv'.pw[kv'.index[n].id] \in {0, kv'.index[n].version}
  PROVE  VaultInv'
<1>1. /\ edit'.op = "none" /\ edit'.pc = "none" /\ edit'.index = <<>>
  BY DEF NoEdit
<1>2. kv' \in Stores
  BY DEF VaultTypeOK
<1>3. /\ DOMAIN proxies' = DOMAIN kv'.index /\ Encoded(proxies') = kv'.index
      /\ \A n \in DOMAIN kv'.index : proxies'[n].id = kv'.index[n].id
  BY <1>2, OverlayFacts DEF Load
<1>4. OpSteps'
  BY <1>1 DEF OpSteps
<1>5. IndexInStep'
  <2>1. Encoded(proxies') = Encoded(proxies)'
    BY DEF Encoded
  <2> QED
    BY <1>1, <1>3, <2>1 DEF IndexInStep
<1>6. RestartShowsSame'
  <2>1. Load(kv') = Load(kv)'
    BY DEF Load, Overlay
  <2> QED
    BY <2>1 DEF RestartShowsSame
<1>7. Proposed' /\ NewUnwritten' /\ BlobFirst'
  BY <1>1 DEF Proposed, NewUnwritten, BlobFirst
<1>8. TornOnlyHere'
  BY <1>1 DEF TornOnlyHere
<1>9. Unique(<<>>) /\ Unique(proxies')
  BY <1>3 DEF Unique
<1>10. UniqueIds'
  BY <1>1, <1>9 DEF UniqueIds, Unique
<1> QED
  BY <1>4, <1>5, <1>6, <1>7, <1>8, <1>10 DEF VaultInv

\* The list is emitted again: it is the written index, with its flags.
LEMMA EmitKeeps == ASSUME VaultInv, Emit PROVE VaultInv'
<1>0. /\ VaultTypeOK /\ OpSteps /\ IndexInStep /\ GivenOut
      /\ OrphansUnlisted /\ TornOnlyHere /\ UniqueIds
  BY DEF VaultInv
<1> DEFINE list == IF edit.op = "default" THEN Encoded(proxies) ELSE edit.index
<1>1. /\ edit.pc = "overlay" /\ edit' = NoEdit
      /\ proxies' = Overlay([kv EXCEPT !.index = list], defaultId)
      /\ UNCHANGED <<defaultId, kv, queued, disk, saved, edits, vaultDeaths, listed, torn>>
  BY DEF Emit, EditAt, idleStore
<1>2. list = kv.index /\ defaultId = kv.default
  BY <1>0, <1>1 DEF IndexInStep
<1> HIDE DEF list
<1>3. kv \in Stores /\ [kv EXCEPT !.index = list] = kv
  BY <1>0, <1>2 DEF VaultTypeOK, Stores
<1>4. proxies' = Load(kv') /\ kv' = kv
  BY <1>1, <1>2, <1>3 DEF Load
<1>5. proxies' \in Seq([id : Ids, version : 1 .. MaxEdits, hasPassword : BOOLEAN,
                        isDefault : BOOLEAN])
  BY <1>3, <1>4, OverlayFacts DEF Load
<1>6. NoEdit \in EditStates
  BY VaultAssumption DEF NoEdit, EditStates
<1>7. VaultTypeOK'
  BY <1>0, <1>1, <1>5, <1>6 DEF VaultTypeOK
<1>8. GivenOut' /\ OrphansUnlisted'
  BY <1>0, <1>1 DEF GivenOut, OrphansUnlisted, Orphans, Named
<1>9. /\ Unique(kv'.index) /\ Unique(disk'.index)
      /\ \A n \in DOMAIN queued' : Unique(queued'[n].index)
  BY <1>0, <1>1 DEF UniqueIds
<1>10. ~torn' => \A n \in DOMAIN kv'.index : kv'.pw[kv'.index[n].id] \in {0, kv'.index[n].version}
  BY <1>0, <1>1 DEF TornOnlyHere
<1> QED
  BY <1>1, <1>2, <1>4, <1>7, <1>8, <1>9, <1>10, EditsSettled

\* The process dies: the next one starts from the file, an operation's later
\* writes with the queue.
LEMMA VaultDiesKeeps == ASSUME VaultInv, VaultDies PROVE VaultInv'
<1>0. VaultTypeOK /\ GivenOut /\ OrphansUnlisted /\ UniqueIds
  BY DEF VaultInv
<1>1. /\ vaultDeaths < MaxVaultDeaths /\ vaultDeaths' = vaultDeaths + 1
      /\ kv' = disk /\ queued' = <<>> /\ edit' = NoEdit
      /\ defaultId' = disk.default /\ proxies' = Load(disk)
      /\ torn' = (torn \/ Torn(disk))
      /\ UNCHANGED <<disk, saved, edits, listed>>
  BY DEF VaultDies
<1>2. disk \in Stores /\ disk.default \in Ids \cup {0}
  BY <1>0 DEF VaultTypeOK, Stores
<1>3. proxies' \in Seq([id : Ids, version : 1 .. MaxEdits, hasPassword : BOOLEAN,
                        isDefault : BOOLEAN])
  BY <1>1, <1>2, OverlayFacts DEF Load
<1>4. NoEdit \in EditStates /\ <<>> \in Seq(Stores)
  BY VaultAssumption DEF NoEdit, EditStates
<1>5. vaultDeaths' \in 0 .. MaxVaultDeaths
  BY <1>0, <1>1, VaultAssumption DEF VaultTypeOK
<1>6. VaultTypeOK'
  BY <1>0, <1>1, <1>2, <1>3, <1>4, <1>5 DEF VaultTypeOK
<1>7. GivenOut'
  BY <1>0, <1>1 DEF GivenOut, Named
<1>8. OrphansUnlisted'
  BY <1>0, <1>1 DEF OrphansUnlisted, Orphans, Named
<1>9. ~torn' => \A n \in DOMAIN kv'.index : kv'.pw[kv'.index[n].id] \in {0, kv'.index[n].version}
  BY <1>1 DEF Torn
<1>10. /\ Unique(kv'.index) /\ Unique(disk'.index)
       /\ \A n \in DOMAIN queued' : Unique(queued'[n].index)
  BY <1>0, <1>1 DEF UniqueIds
<1> QED
  BY <1>1, <1>6, <1>7, <1>8, <1>9, <1>10, EditsSettled

\* A queued file is written: its entries count as listed, and no orphan of a
\* later file is among them.
LEMMA FlushKeeps == ASSUME VaultInv, Flush PROVE VaultInv'
<1>0. VaultTypeOK /\ GivenOut /\ OrphansUnlisted /\ UniqueIds /\ NewUnwritten
  BY DEF VaultInv
<1>1. /\ queued # <<>> /\ disk' = Head(queued) /\ queued' = Tail(queued)
      /\ listed' = listed \cup Named(Head(queued).index)
      /\ UNCHANGED <<proxies, defaultId, kv, edit, saved, edits, vaultDeaths, torn>>
  BY DEF Flush
<1>2. queued \in Seq(Stores)
  BY <1>0 DEF VaultTypeOK
<1>3. /\ queued' \in Seq(Stores) /\ disk' = queued[1] /\ 1 \in DOMAIN queued /\ disk' \in Stores
      /\ \A k \in DOMAIN queued' : queued'[k] = queued[k + 1] /\ k + 1 \in DOMAIN queued
      /\ listed' = listed \cup Named(queued[1].index)
  BY <1>1, <1>2, TailFacts
<1>4. Named(queued[1].index) \subseteq Ids
  <2>1. Named(queued[1].index) \subseteq 1 .. saved
    BY <1>0, <1>3 DEF GivenOut
  <2> QED
    BY <1>0, <2>1, VaultAssumption DEF VaultTypeOK, Ids
<1>5. VaultTypeOK'
  BY <1>0, <1>1, <1>3, <1>4 DEF VaultTypeOK
<1>6. OpSteps' /\ IndexInStep' /\ RestartShowsSame' /\ Proposed' /\ BlobFirst' /\ TornOnlyHere'
  <2>1. Encoded(proxies)' = Encoded(proxies) /\ Load(kv)' = Load(kv)
    BY <1>1 DEF Encoded, Load, Overlay
  <2>2. OpSteps' /\ IndexInStep' /\ RestartShowsSame'
    BY <1>1, <2>1 DEF VaultInv, OpSteps, IndexInStep, RestartShowsSame
  <2>3. Proposed'
    <3>1. Proposed /\ kv' = kv /\ edit' = edit /\ saved' = saved
      BY <1>1 DEF VaultInv
    <3> QED
      BY <3>1 DEF Proposed, Named
  <2>4. BlobFirst' /\ TornOnlyHere'
    BY <1>1 DEF VaultInv, BlobFirst, TornOnlyHere
  <2> QED
    BY <2>2, <2>3, <2>4
<1>7. GivenOut'
  <2>1. Named(queued[1].index) \subseteq 1 .. saved /\ listed \subseteq 1 .. saved
    BY <1>0, <1>3 DEF GivenOut
  <2>2. \A k \in DOMAIN queued' : Named(queued'[k].index) \subseteq 1 .. saved
    BY <1>0, <1>3 DEF GivenOut
  <2>3. Named(disk'.index) \subseteq 1 .. saved /\ listed' \subseteq 1 .. saved
    BY <1>3, <2>1
  <2>4. Named(kv.index) \subseteq 1 .. saved /\ kv' = kv /\ saved' = saved
    BY <1>0, <1>1 DEF GivenOut
  <2> QED
    BY <2>2, <2>3, <2>4 DEF GivenOut
<1>8. NewUnwritten'
  BY <1>0, <1>1, <1>3 DEF NewUnwritten, Named
<1>9. OrphansUnlisted'
  <2>1. \A id \in Orphans(disk') : id \notin listed'
    <3> SUFFICES ASSUME NEW id \in Orphans(queued[1]) PROVE id \notin listed'
      BY <1>3
    <3>1. id \notin listed /\ id \notin Named(queued[1].index)
      BY <1>0, <1>3 DEF OrphansUnlisted, Orphans
    <3> QED
      BY <1>3, <3>1
  <2>2. ASSUME NEW n \in DOMAIN queued', NEW id \in Orphans(queued'[n])
        PROVE  id \notin listed' /\ \A m \in 1 .. n : id \notin Named(queued'[m].index)
    <3>1. queued'[n] = queued[n + 1] /\ n + 1 \in DOMAIN queued /\ n \in Nat
      BY <1>3, SeqFacts
    <3>2. id \notin listed /\ \A m \in 1 .. n + 1 : id \notin Named(queued[m].index)
      BY <1>0, <2>2, <3>1 DEF OrphansUnlisted
    <3>3. 1 \in 1 .. n + 1
      BY <3>1
    <3>4. \A m \in 1 .. n : m + 1 \in 1 .. n + 1 /\ queued'[m] = queued[m + 1]
      <4>1. DOMAIN queued' = 1 .. Len(queued') /\ Len(queued') \in Nat
        BY <1>3, SeqFacts
      <4> QED
        BY <1>3, <2>2, <3>1, <4>1
    <3> QED
      BY <1>3, <3>2, <3>3, <3>4
  <2>3. ASSUME NEW id \in Orphans(kv')
        PROVE  id \notin listed' /\ \A m \in DOMAIN queued' : id \notin Named(queued'[m].index)
    <3>1. id \notin listed /\ \A m \in DOMAIN queued : id \notin Named(queued[m].index)
      BY <1>0, <1>1, <2>3 DEF OrphansUnlisted
    <3> QED
      BY <1>3, <3>1
  <2>4. OrphansUnlisted' =
          (/\ \A id \in Orphans(disk') : id \notin listed'
           /\ \A n \in DOMAIN queued' : \A id \in Orphans(queued'[n]) :
                  id \notin listed' /\ \A m \in 1 .. n : id \notin Named(queued'[m].index)
           /\ \A id \in Orphans(kv') :
                  id \notin listed' /\ \A m \in DOMAIN queued' : id \notin Named(queued'[m].index))
    BY DEF OrphansUnlisted, Orphans, Named
  <2> QED
    BY <2>1, <2>2, <2>3, <2>4
<1>10. UniqueIds'
  BY <1>0, <1>1, <1>3 DEF UniqueIds, Unique
<1> QED
  BY <1>5, <1>6, <1>7, <1>8, <1>9, <1>10 DEF VaultInv

\* Every step of the store, a death included, preserves the invariant.
LEMMA StepVaultInv == ASSUME VaultInv, [VaultNext]_vaultVars PROVE VaultInv'
<1>1. CASE UNCHANGED vaultVars
  <2>1. VaultTypeOK' /\ OpSteps' /\ BlobFirst' /\ TornOnlyHere'
    BY <1>1 DEF vaultVars, VaultInv, VaultTypeOK, OpSteps, BlobFirst, TornOnlyHere
  <2>2. IndexInStep' /\ RestartShowsSame'
    BY <1>1 DEF vaultVars, VaultInv, IndexInStep, RestartShowsSame, Load, Overlay, Encoded
  <2>3. Proposed'
    BY <1>1 DEF vaultVars, VaultInv, Proposed, Named
  <2>4. GivenOut'
    BY <1>1 DEF vaultVars, VaultInv, GivenOut, Named
  <2>5. NewUnwritten'
    BY <1>1 DEF vaultVars, VaultInv, NewUnwritten, Named
  <2>6. OrphansUnlisted'
    BY <1>1 DEF vaultVars, VaultInv, OrphansUnlisted, Orphans, Named
  <2>7. UniqueIds'
    BY <1>1 DEF vaultVars, VaultInv, UniqueIds, Unique
  <2> QED
    BY <2>1, <2>2, <2>3, <2>4, <2>5, <2>6, <2>7 DEF VaultInv
<1> QED
  BY <1>1, SaveKeeps, UpdateKeeps, DeleteKeeps, ReorderKeeps, SetDefaultKeeps,
     PersistPasswordKeeps, PersistMetadataKeeps, PersistDefaultKeeps, EmitKeeps,
     FlushKeeps, VaultDiesKeeps DEF VaultNext

\* The saved proxies keep their invariant.
THEOREM VaultInvariance == VaultSpec => []VaultInv
<1>1. VaultInit => VaultInv
  BY InitVaultInv
<1>2. VaultInv /\ [VaultNext]_vaultVars => VaultInv'
  BY StepVaultInv
<1> QED
  BY <1>1, <1>2, PTL DEF VaultSpec

\* The store's types, the contents of its file and of its queue included.
THEOREM VaultTypeCorrect == VaultSpec => []VaultTypeOK
<1>1. VaultInv => VaultTypeOK
  BY DEF VaultInv
<1> QED
  BY <1>1, VaultInvariance, PTL

\* Between operations (save, update, delete, reorder, setDefault) the list on
\* the screen, its order and its flags are what a restart would load.
THEOREM RestartShowsSameAlways == VaultSpec => []RestartShowsSame
<1>1. VaultInv => RestartShowsSame
  BY DEF VaultInv
<1> QED
  BY <1>1, VaultInvariance, PTL

\* No blob is left under an id that was taken from the list.
LEMMA NoneLeftBehind == ASSUME VaultInv PROVE DeletedForgotten
<1>1. listed \subseteq Ids /\ OrphansUnlisted
  BY DEF VaultInv, VaultTypeOK
<1> QED
  BY <1>1 DEF DeletedForgotten, OrphansUnlisted, Orphans

\* delete removes the blob before the entry, so that no death in between leaves
\* the password of a deleted entry in the file.
THEOREM DeletedForgottenAlways == VaultSpec => []DeletedForgotten
<1>1. VaultInv => DeletedForgotten
  BY NoneLeftBehind
<1> QED
  BY <1>1, VaultInvariance, PTL

\* An entry's password is its own, but where a death tore an update.
LEMMA PasswordInPlace == ASSUME VaultInv PROVE PasswordBelongs
<1>1. edit = NoEdit => edit.op = "none"
  BY DEF NoEdit
<1>2. TornOnlyHere
  BY DEF VaultInv
<1> QED
  BY <1>1, <1>2 DEF PasswordBelongs, TornOnlyHere, Torn

\* update writes or removes the blob, and never leaves the last
\* configuration's password with the new one unless a death tore it.
THEOREM PasswordBelongsAlways == VaultSpec => []PasswordBelongs
<1>1. VaultInv => PasswordBelongs
  BY PasswordInPlace
<1> QED
  BY <1>1, VaultInvariance, PTL

\* No two entries of the list, of the index or of any file have the same id:
\* what delete's filterNot and update's match rely on.
THEOREM UniqueIdsAlways == VaultSpec => []UniqueIds
<1>1. VaultInv => UniqueIds
  BY DEF VaultInv
<1> QED
  BY <1>1, VaultInvariance, PTL

(***************************************************************************)
(* The free proxies.                                                       *)
(***************************************************************************)

\* The rows of a cache are the candidates, each of them once.
LEMMA CachedRows == SetToSeq(Pool) \in Seq(Pool) /\ IsInjective(SetToSeq(Pool))
<1> DEFINE n == Cardinality(Pool)
<1>1. n \in Nat /\ ExistsBijection(1 .. n, Pool)
  BY FS_CardinalityType, ServersAssumption
<1>2. PICK f : f \in Bijection(1 .. n, Pool)
  BY <1>1 DEF ExistsBijection
<1>3. f \in [1 .. n -> Pool] /\ IsInjective(f)
  BY <1>2 DEF Bijection, Injection, IsInjective
<1>4. SetToSeq(Pool) \in [1 .. n -> Pool] /\ IsInjective(SetToSeq(Pool))
  BY <1>3 DEF SetToSeq
<1> QED
  BY <1>1, <1>4, SeqDef

\* A row at the end of a list it is not in.
LEMMA AppendOnce ==
  ASSUME NEW S, NEW s \in Seq(S), NEW e \in S, IsInjective(s), \A n \in DOMAIN s : s[n] # e
  PROVE  IsInjective(Append(s, e))
<1>1. /\ DOMAIN Append(s, e) = 1 .. Len(s) + 1 /\ Len(s) \in Nat /\ DOMAIN s = 1 .. Len(s)
      /\ \A k \in DOMAIN s : Append(s, e)[k] = s[k]
      /\ Append(s, e)[Len(s) + 1] = e
  BY AppendFacts, SeqFacts
<1> QED
  BY <1>1 DEF IsInjective

\* The initial states satisfy the invariant.
LEMMA InitFreeInv == ASSUME FreeInit PROVE FreeInv
<1> USE ServersAssumption DEF FreeInit
<1>1. 0 \in 0 .. MaxRefreshes /\ <<>> \in Seq(Pool)
  OBVIOUS
<1>2. sweep \in [Refreshes -> [pc : {"none", "fetch", "sweep", "done"}, left : SUBSET Pool]]
  BY DEF NoSweep
<1>3. FreeTypeOK
  BY <1>1, <1>2 DEF FreeTypeOK
<1>4. \A r \in Refreshes : sweep[r].pc = "none"
  BY DEF NoSweep
<1>5. OneSweep /\ RowsOnce /\ SweepHonest
  BY <1>4 DEF OneSweep, Refreshed, RowsOnce, SweepHonest, IsInjective
<1> QED
  BY <1>3, <1>5 DEF FreeInv

\* A refresh that ends leaves none under way.
LEMMA FreeDoneFacts ==
  ASSUME FreeInv, NEW r \in Refreshes, Refreshed(r), FreeDone(r)
  PROVE  /\ sweep' \in [Refreshes -> [pc : {"none", "fetch", "sweep", "done"}, left : SUBSET Pool]]
         /\ \A s \in Refreshes : ~Refreshed(s)'
         /\ freeBusy' = FALSE
         /\ \A s \in Refreshes : sweep'[s].pc = "none" <=> sweep[s].pc = "none"
<1> DEFINE over == [NoSweep EXCEPT !.pc = "done"]
<1>0. /\ sweep \in [Refreshes -> [pc : {"none", "fetch", "sweep", "done"}, left : SUBSET Pool]]
      /\ OneSweep /\ sweep' = [sweep EXCEPT ![r] = over] /\ freeBusy' = FALSE
  BY DEF FreeInv, FreeTypeOK, FreeDone
<1>1. over.pc = "done" /\ over \in [pc : {"none", "fetch", "sweep", "done"}, left : SUBSET Pool]
  BY DEF NoSweep
<1> HIDE DEF over
<1>2. \A s \in Refreshes : s # r => ~Refreshed(s) /\ sweep'[s] = sweep[s]
  BY <1>0 DEF OneSweep
<1>3. sweep'[r].pc = "done"
  BY <1>0, <1>1
<1>4. \A s \in Refreshes : ~Refreshed(s)'
  BY <1>2, <1>3 DEF Refreshed
<1>5. sweep' \in [Refreshes -> [pc : {"none", "fetch", "sweep", "done"}, left : SUBSET Pool]]
  BY <1>0, <1>1
<1>6. \A s \in Refreshes : sweep'[s].pc = "none" <=> sweep[s].pc = "none"
  BY <1>2, <1>3 DEF Refreshed
<1> QED
  BY <1>0, <1>4, <1>5, <1>6

\* What the steps that leave no refresh under way have left to show.
LEMMA NoneUnderWay ==
  ASSUME FreeTypeOK', \A s \in Refreshes : ~Refreshed(s)',
         \A s \in Refreshes : s > sweeps' => sweep'[s].pc = "none",
         IsInjective(freeProxies'), IsInjective(liveSoFar'), progress'.live = Len(liveSoFar')
  PROVE  FreeInv'
<1>1. OneSweep'
  BY DEF OneSweep
<1>2. RowsOnce' /\ SweepHonest'
  BY DEF RowsOnce, SweepHonest, Refreshed, IsInjective
<1> QED
  BY <1>1, <1>2 DEF FreeInv

\* Every step of the refresh preserves the invariant.
LEMMA StepFreeInv == ASSUME FreeInv, [FreeNext]_freeVars PROVE FreeInv'
<1> USE ServersAssumption
<1>0. FreeTypeOK /\ OneSweep /\ RowsOnce /\ SweepHonest
  BY DEF FreeInv
<1>1. CASE RefreshFree
  <2> USE <1>1 DEF RefreshFree
  <2>1. sweeps + 1 \in Refreshes /\ sweeps' = sweeps + 1 /\ sweeps + 1 \in 0 .. MaxRefreshes
    BY <1>0 DEF FreeTypeOK, Refreshes
  <2>2. sweep' = [sweep EXCEPT ![sweeps + 1] = [sweep[sweeps + 1] EXCEPT !.pc = "fetch"]]
    BY <1>0 DEF FreeTypeOK
  <2>3. FreeTypeOK'
    <3>1. sweep' \in [Refreshes -> [pc : {"none", "fetch", "sweep", "done"}, left : SUBSET Pool]]
      BY <1>0, <2>1, <2>2 DEF FreeTypeOK
    <3>2. /\ freeBusy' = TRUE /\ freeState' = "Loading"
          /\ UNCHANGED <<freeProxies, liveSoFar, progress, freeCache>>
      OBVIOUS
    <3> HIDE <1>1 DEF RefreshFree
    <3> QED
      BY <1>0, <2>1, <3>1, <3>2 DEF FreeTypeOK
  <2>4. /\ sweep'[sweeps + 1].pc = "fetch"
        /\ \A r \in Refreshes : r # sweeps + 1 => sweep'[r] = sweep[r] /\ ~Refreshed(r)
    BY <1>0, <2>1, <2>2 DEF FreeTypeOK, OneSweep
  <2>5. OneSweep'
    <3>1. \A r \in Refreshes : r # sweeps + 1 => ~Refreshed(r)'
      BY <2>4 DEF Refreshed
    <3>2. \A r \in Refreshes : r > sweeps + 1 => r # sweeps + 1 /\ r > sweeps
      BY <1>0 DEF FreeTypeOK, Refreshes
    <3>3. \A r \in Refreshes : r > sweeps' => sweep'[r].pc = "none"
      BY <1>0, <2>1, <2>4, <3>2 DEF OneSweep
    <3> QED
      BY <3>1, <3>3 DEF OneSweep
  <2>6. RowsOnce' /\ SweepHonest'
    <3>1. \A r \in Refreshes : sweep'[r].pc # "sweep"
      BY <2>4 DEF Refreshed
    <3> QED
      BY <1>0, <3>1 DEF RowsOnce, SweepHonest, IsInjective
  <2> QED
    BY <2>3, <2>5, <2>6 DEF FreeInv
<1>2. CASE FreeLeft
  <2> USE <1>2 DEF FreeLeft
  <2>1. sweep' \in [Refreshes -> [pc : {"none", "fetch", "sweep", "done"}, left : SUBSET Pool]]
    BY <1>0 DEF NoSweep
  <2>2. FreeTypeOK'
    <3>1. <<>> \in Seq(Pool) /\ progress' \in [checked : Nat, total : Nat, live : Nat]
      OBVIOUS
    <3>2. freeProxies' \in Seq(Pool) /\ liveSoFar' \in Seq(Pool)
      BY <3>1
    <3> QED
      BY <1>0, <2>1, <3>1, <3>2 DEF FreeTypeOK
  <2>3. \A s \in Refreshes : ~Refreshed(s)' /\ (sweep[s].pc = "none" => sweep'[s].pc = "none")
    BY DEF Refreshed, NoSweep
  <2>4. \A s \in Refreshes : s > sweeps' => sweep'[s].pc = "none"
    BY <1>0, <2>3 DEF OneSweep
  <2>5. IsInjective(freeProxies') /\ IsInjective(liveSoFar') /\ progress'.live = Len(liveSoFar')
    BY DEF IsInjective
  <2> QED
    BY <2>2, <2>3, <2>4, <2>5, NoneUnderWay
<1>3. CASE LoadFree
  <2> USE <1>3 DEF LoadFree
  <2>1. freeProxies' \in {<<>>, SetToSeq(Pool)}
    OBVIOUS
  <2>2. freeProxies' \in Seq(Pool) /\ IsInjective(freeProxies')
    BY <2>1, CachedRows DEF IsInjective
  <2>3. FreeTypeOK'
    BY <1>0, <2>2 DEF FreeTypeOK
  <2>4. OneSweep' /\ RowsOnce' /\ SweepHonest'
    BY <1>0, <2>2 DEF OneSweep, Refreshed, RowsOnce, SweepHonest, IsInjective
  <2> QED
    BY <2>3, <2>4 DEF FreeInv
<1>4. ASSUME NEW r \in Refreshes, FetchFails(r) PROVE FreeInv'
  <2> USE <1>4 DEF FetchFails
  <2>1. Refreshed(r) /\ FreeDone(r)
    BY DEF Refreshed
  <2>2. /\ sweep' \in [Refreshes -> [pc : {"none", "fetch", "sweep", "done"}, left : SUBSET Pool]]
        /\ \A s \in Refreshes : ~Refreshed(s)'
        /\ freeBusy' = FALSE
        /\ \A s \in Refreshes : sweep'[s].pc = "none" <=> sweep[s].pc = "none"
    BY <2>1, FreeDoneFacts
  <2>3. freeProxies' \in {freeProxies, <<>>, SetToSeq(Pool)}
    OBVIOUS
  <2>4. freeProxies' \in Seq(Pool) /\ IsInjective(freeProxies')
    <3>1. <<>> \in Seq(Pool) /\ IsInjective(<<>>)
      BY DEF IsInjective
    <3>2. freeProxies \in Seq(Pool) /\ IsInjective(freeProxies)
      BY <1>0 DEF FreeTypeOK, SweepHonest
    <3> QED
      BY <2>3, <3>1, <3>2, CachedRows
  <2>5. FreeTypeOK'
    BY <1>0, <2>2, <2>4 DEF FreeTypeOK
  <2>6. \A s \in Refreshes : s > sweeps' => sweep'[s].pc = "none"
    BY <1>0, <2>2 DEF OneSweep
  <2>7. IsInjective(liveSoFar') /\ progress'.live = Len(liveSoFar')
    BY <1>0 DEF RowsOnce, SweepHonest
  <2> QED
    BY <2>2, <2>4, <2>5, <2>6, <2>7, NoneUnderWay
<1>5. ASSUME NEW r \in Refreshes, SweepBegins(r) PROVE FreeInv'
  <2> USE <1>5 DEF SweepBegins
  <2>0. PICK candidates \in {Pool, {}} :
          /\ sweep' = [sweep EXCEPT ![r] = [pc |-> "sweep", left |-> candidates]]
          /\ progress' = [checked |-> 0, total |-> Cardinality(candidates), live |-> 0]
    OBVIOUS
  <2>1. Cardinality(candidates) \in Nat /\ candidates \in SUBSET Pool /\ Refreshed(r)
    BY FS_CardinalityType, FS_EmptySet DEF Refreshed
  <2>2. FreeTypeOK'
    <3>1. freeProxies' \in Seq(Pool) /\ liveSoFar' \in Seq(Pool)
      BY <1>0 DEF FreeTypeOK
    <3>2. progress' \in [checked : Nat, total : Nat, live : Nat]
      BY <2>0, <2>1
    <3>3. sweep' \in [Refreshes -> [pc : {"none", "fetch", "sweep", "done"}, left : SUBSET Pool]]
      BY <1>0, <2>0, <2>1 DEF FreeTypeOK
    <3> QED
      BY <1>0, <3>1, <3>2, <3>3 DEF FreeTypeOK
  <2>3. /\ sweep'[r].pc = "sweep" /\ sweep'[r].left = candidates
        /\ \A s \in Refreshes : s # r => sweep'[s] = sweep[s] /\ ~Refreshed(s)
    BY <1>0, <2>0, <2>1 DEF FreeTypeOK, OneSweep
  <2>4. \A s \in Refreshes : s # r => ~Refreshed(s)' /\ sweep'[s].pc # "sweep"
    BY <2>3 DEF Refreshed
  <2>5. OneSweep'
    BY <1>0, <2>1, <2>3, <2>4 DEF OneSweep, Refreshed
  <2>6. RowsOnce'
    BY <2>4 DEF RowsOnce, IsInjective
  <2>7. SweepHonest'
    <3>1. IsInjective(freeProxies')
      BY <1>0 DEF SweepHonest, RowsOnce
    <3>2. progress'.live = Len(liveSoFar') /\ progress'.checked = 0
          /\ progress'.total = Cardinality(candidates)
      BY <2>0
    <3> QED
      BY <2>1, <2>3, <2>4, <3>1, <3>2 DEF SweepHonest, IsInjective
  <2> QED
    BY <2>2, <2>5, <2>6, <2>7 DEF FreeInv
<1>6. ASSUME NEW r \in Refreshes, NEW e \in Pool, Swept(r, e) PROVE FreeInv'
  <2> DEFINE left == sweep[r].left
  <2>0. /\ sweep[r].pc = "sweep" /\ e \in left
        /\ sweep' = [sweep EXCEPT ![r] = [sweep[r] EXCEPT !.left = left \ {e}]]
        /\ UNCHANGED <<freeBusy, freeState, freeProxies, sweeps, freeCache>>
    BY <1>6 DEF Swept
  <2>1. left \in SUBSET Pool /\ IsFiniteSet(left) /\ Cardinality(left) \in Nat
    <3>1. left \in SUBSET Pool
      BY <1>0 DEF FreeTypeOK
    <3> QED
      BY <3>1, FS_Subset, FS_CardinalityType
  <2>2. Cardinality(left \ {e}) = Cardinality(left) - 1
    BY <2>0, <2>1, FS_RemoveElement
  <2>3. /\ sweep'[r].pc = "sweep" /\ sweep'[r].left = left \ {e}
        /\ \A s \in Refreshes : s # r => sweep'[s] = sweep[s] /\ sweep'[s].pc # "sweep"
        /\ \A s \in Refreshes : sweep'[s].pc = sweep[s].pc
        /\ sweep' \in [Refreshes -> [pc : {"none", "fetch", "sweep", "done"}, left : SUBSET Pool]]
    <3>1. \A s \in Refreshes : s # r => sweep[s].pc # "sweep"
      BY <1>0, <2>0 DEF OneSweep, Refreshed
    <3> QED
      BY <1>0, <2>0, <2>1, <3>1 DEF FreeTypeOK
  <2>4. \A n \in DOMAIN liveSoFar : liveSoFar[n] \notin left
    BY <1>0, <2>0 DEF RowsOnce
  <2>5. progress.checked + Cardinality(left) = progress.total /\ progress.live = Len(liveSoFar)
    BY <1>0, <2>0 DEF SweepHonest
  <2>6. progress \in [checked : Nat, total : Nat, live : Nat] /\ liveSoFar \in Seq(Pool)
    BY <1>0 DEF FreeTypeOK
  <2> HIDE DEF left
  <2>7. /\ progress' \in [checked : Nat, total : Nat, live : Nat] /\ liveSoFar' \in Seq(Pool)
        /\ progress'.checked = progress.checked + 1 /\ progress'.total = progress.total
        /\ progress'.live = Len(liveSoFar') /\ IsInjective(liveSoFar')
        /\ \A n \in DOMAIN liveSoFar' : liveSoFar'[n] \notin left \ {e}
    <3>1. CASE /\ liveSoFar' = Append(liveSoFar, e)
               /\ progress' = [progress EXCEPT !.checked = @ + 1, !.live = @ + 1]
      <4>1. /\ liveSoFar' \in Seq(Pool) /\ Len(liveSoFar') = Len(liveSoFar) + 1
            /\ \A k \in DOMAIN liveSoFar' :
                  (k \in DOMAIN liveSoFar /\ liveSoFar'[k] = liveSoFar[k]) \/ liveSoFar'[k] = e
        BY <2>6, <3>1
      <4>2. IsInjective(liveSoFar')
        <5>1. IsInjective(liveSoFar) /\ \A n \in DOMAIN liveSoFar : liveSoFar[n] # e
          BY <1>0, <2>0, <2>4 DEF RowsOnce
        <5> QED
          BY <2>6, <3>1, <5>1, AppendOnce
      <4>3. /\ progress' \in [checked : Nat, total : Nat, live : Nat]
            /\ progress'.checked = progress.checked + 1 /\ progress'.total = progress.total
            /\ progress'.live = progress.live + 1
        <5>1. progress' = [progress EXCEPT !.checked = progress.checked + 1,
                                           !.live = progress.live + 1]
          BY <2>6, <3>1
        <5>2. progress.checked + 1 \in Nat /\ progress.live + 1 \in Nat
          BY <2>6
        <5> QED
          BY <2>6, <5>1, <5>2
      <4>4. \A n \in DOMAIN liveSoFar' : liveSoFar'[n] \notin left \ {e}
        BY <2>4, <4>1
      <4> QED
        BY <2>5, <4>1, <4>2, <4>3, <4>4
    <3>2. CASE progress' = [progress EXCEPT !.checked = @ + 1] /\ liveSoFar' = liveSoFar
      BY <1>0, <2>4, <2>5, <2>6, <3>2 DEF RowsOnce
    <3> QED
      BY <1>6, <3>1, <3>2 DEF Swept
  <2>8. FreeTypeOK'
    BY <1>0, <2>0, <2>3, <2>7 DEF FreeTypeOK
  <2>9. OneSweep'
    BY <1>0, <2>0, <2>3 DEF OneSweep, Refreshed
  <2>10. RowsOnce'
    BY <2>3, <2>7 DEF RowsOnce, IsInjective
  <2>11. SweepHonest'
    <3>1. progress'.checked + Cardinality(left \ {e}) = progress'.total
      BY <2>1, <2>2, <2>5, <2>6, <2>7
    <3> QED
      BY <1>0, <2>0, <2>3, <2>7, <3>1 DEF SweepHonest, IsInjective
  <2> QED
    BY <2>8, <2>9, <2>10, <2>11 DEF FreeInv
<1>7. ASSUME NEW r \in Refreshes, SweepEnds(r) PROVE FreeInv'
  <2> USE <1>7 DEF SweepEnds
  <2>1. Refreshed(r) /\ FreeDone(r)
    BY DEF Refreshed
  <2>2. /\ sweep' \in [Refreshes -> [pc : {"none", "fetch", "sweep", "done"}, left : SUBSET Pool]]
        /\ \A s \in Refreshes : ~Refreshed(s)'
        /\ freeBusy' = FALSE
        /\ \A s \in Refreshes : sweep'[s].pc = "none" <=> sweep[s].pc = "none"
    BY <2>1, FreeDoneFacts
  <2>3. FreeTypeOK'
    BY <1>0, <2>2 DEF FreeTypeOK
  <2>4. \A s \in Refreshes : s > sweeps' => sweep'[s].pc = "none"
    BY <1>0, <2>2 DEF OneSweep
  <2>5. IsInjective(freeProxies') /\ IsInjective(liveSoFar') /\ progress'.live = Len(liveSoFar')
    BY <1>0 DEF RowsOnce, SweepHonest
  <2> QED
    BY <2>2, <2>3, <2>4, <2>5, NoneUnderWay
<1>8. ASSUME NEW r \in Refreshes, Stream(r) PROVE FreeInv'
  <2> USE <1>8 DEF Stream
  <2>1. FreeTypeOK'
    BY <1>0 DEF FreeTypeOK
  <2>2. OneSweep' /\ RowsOnce'
    BY <1>0 DEF OneSweep, Refreshed, RowsOnce, IsInjective
  <2>3. SweepHonest'
    BY <1>0 DEF RowsOnce, SweepHonest, IsInjective
  <2> QED
    BY <2>1, <2>2, <2>3 DEF FreeInv
<1>9. CASE UNCHANGED freeVars
  BY <1>0, <1>9 DEF freeVars, FreeInv, FreeTypeOK, OneSweep, Refreshed, RowsOnce, SweepHonest,
     IsInjective
<1> QED
  BY <1>1, <1>2, <1>3, <1>4, <1>5, <1>6, <1>7, <1>8, <1>9 DEF FreeNext, Sweeping

\* refreshFreeProxies keeps its invariant.
THEOREM FreeInvariance == FreeSpec => []FreeInv
<1>1. FreeInit => FreeInv
  BY InitFreeInv
<1>2. FreeInv /\ [FreeNext]_freeVars => FreeInv'
  BY StepFreeInv
<1> QED
  BY <1>1, <1>2, PTL DEF FreeSpec

\* Whatever the refreshes, the cache and the screens do, no row of the free
\* list appears twice, and the progress counters are those of the sweep under
\* way.
THEOREM SweepHonestAlways == FreeSpec => []SweepHonest
<1>1. FreeInv => SweepHonest
  BY DEF FreeInv
<1> QED
  BY <1>1, FreeInvariance, PTL
-----------------------------------------------------------------------------
(***************************************************************************)
(* Whatever shows work in progress has somebody at work on it.             *)
(***************************************************************************)

\* Initially nothing is checked, fetched or swept.
LEMMA InitListsOwned ==
  ASSUME StatusInit, GateInit, FreeInit
  PROVE  StatusTypeOK /\ GateTypeOK /\ ListsOwned
<1> USE ServersAssumption
<1>1. (CHOOSE k \in Keys : TRUE) \in Keys
  OBVIOUS
<1>2. StatusTypeOK
  BY <1>1 DEF StatusInit, StatusTypeOK, NoCheck
<1>3. GateTypeOK
  BY DEF GateInit, GateTypeOK
<1>4. ChecksOwned
  BY DEF StatusInit, ChecksOwned, NoCheck
<1>5. FetchOwned
  BY DEF GateInit, FetchOwned, Refreshes
<1>6. SweepOwned
  BY DEF FreeInit, SweepOwned
<1> QED
  BY <1>2, <1>3, <1>4, <1>5, <1>6 DEF ListsOwned

\* The servers of a batch, each of them at one place of it.
LEMMA BatchOrder ==
  /\ Len(SetToSeq(Keys)) = Cardinality(Keys) /\ Cardinality(Keys) \in Nat
  /\ SetToSeq(Keys) \in [1 .. Cardinality(Keys) -> Keys]
  /\ \A k \in Keys : \E i \in 1 .. Cardinality(Keys) : SetToSeq(Keys)[i] = k
<1> DEFINE n == Cardinality(Keys)
<1>1. n \in Nat /\ ExistsBijection(1 .. n, Keys)
  BY FS_CardinalityType, ServersAssumption
<1>2. PICK f : f \in Bijection(1 .. n, Keys)
  BY <1>1 DEF ExistsBijection
<1>3. f \in [1 .. n -> Keys] /\ IsInjective(f)
  BY <1>2 DEF Bijection, Injection, IsInjective
<1>4. SetToSeq(Keys) \in [1 .. n -> Keys] /\ IsInjective(SetToSeq(Keys))
  BY <1>3 DEF SetToSeq
<1>5. Len(SetToSeq(Keys)) = n
  <2>1. SetToSeq(Keys) \in Seq(Keys)
    BY <1>1, <1>4, SeqDef
  <2>2. Len(SetToSeq(Keys)) \in Nat /\ 1 .. Len(SetToSeq(Keys)) = 1 .. n
    BY <1>4, <2>1, LenProperties
  <2>3. ASSUME NEW a \in Nat, NEW b \in Nat, 1 .. a = 1 .. b PROVE a = b
    <3>1. a > 0 => a \in 1 .. b
      BY <2>3
    <3>2. b > 0 => b \in 1 .. a
      BY <2>3
    <3> QED
      BY <3>1, <3>2
  <2> QED
    BY <1>1, <2>2, <2>3
<1>6. SetToSeq(Keys) \in Injection(1 .. n, Keys)
  BY <1>4 DEF Injection, IsInjective
<1>7. SetToSeq(Keys) \in Surjection(1 .. n, Keys)
  <2>1. IsFiniteSet(1 .. n) /\ Cardinality(1 .. n) = Cardinality(Keys)
    BY <1>1, FS_Interval
  <2> QED
    BY <1>6, <2>1, ServersAssumption, FS_Injection
<1> QED
  BY <1>1, <1>4, <1>5, <1>7 DEF Surjection

\* check, checkAll and the answers of the validator.
LEMMA StepChecksOwned ==
  ASSUME StatusTypeOK, ChecksOwned, [StatusNext]_statusVars
  PROVE  StatusTypeOK' /\ ChecksOwned'
<1> USE DEF Checks
<1>0. /\ check \in [Checks -> [pc : {"none", "queued", "validate"}, key : Keys, permit : BOOLEAN]]
      /\ statuses \in [Keys -> {"Unknown", "Checking", "Reachable", "Unreachable"}]
      /\ checks \in 0 .. MaxChecks /\ MaxChecks \in Nat
  BY ServersAssumption DEF StatusTypeOK
<1>1. ASSUME NEW k \in Keys, CheckOne(k) PROVE StatusTypeOK' /\ ChecksOwned'
  <2>1. checks + 1 \in Checks /\ checks' \in 0 .. MaxChecks
    BY <1>0, <1>1 DEF CheckOne
  <2>2. StatusTypeOK'
    BY <1>0, <1>1, <2>1 DEF CheckOne, StatusTypeOK
  <2>3. check'[checks + 1].pc = "validate" /\ check'[checks + 1].key = k
    BY <1>0, <1>1, <2>1 DEF CheckOne
  <2>4. \A c \in Checks : c # checks + 1 => check'[c] = check[c]
    BY <1>0, <1>1 DEF CheckOne
  <2>5. \A c \in Checks : c > checks' => check'[c].pc = "none"
    BY <1>0, <1>1, <2>4 DEF CheckOne, ChecksOwned
  <2>6. ASSUME NEW j \in Keys, statuses'[j] = "Checking"
        PROVE  \E c \in Checks : check'[c].pc # "none" /\ check'[c].key = j
    <3>1. CASE j = k
      BY <2>1, <2>3, <3>1
    <3>2. CASE j # k
      <4>1. PICK c \in Checks : check[c].pc # "none" /\ check[c].key = j
        BY <1>0, <1>1, <2>6, <3>2 DEF CheckOne, ChecksOwned
      <4>2. c # checks + 1
        BY <1>0, <4>1 DEF ChecksOwned
      <4> QED
        BY <2>4, <4>1, <4>2
    <3> QED
      BY <3>1, <3>2
  <2> QED
    BY <2>2, <2>5, <2>6 DEF ChecksOwned
<1>2. ASSUME CheckAll PROVE StatusTypeOK' /\ ChecksOwned'
  <2> DEFINE n == Cardinality(Keys)
             order == SetToSeq(Keys)
  <2>1. /\ n \in Nat /\ checks + n <= MaxChecks /\ checks' = checks + n
        /\ order \in [1 .. n -> Keys] /\ \A k \in Keys : \E i \in 1 .. n : order[i] = k
    BY <1>2, BatchOrder DEF CheckAll
  <2>2. check' = [c \in Checks |-> IF c \in checks + 1 .. checks + n
                                   THEN [pc |-> "queued", key |-> order[c - checks], permit |-> FALSE]
                                   ELSE check[c]]
    BY <1>2, BatchOrder DEF CheckAll
  <2>3. statuses' = [k \in Keys |-> "Checking"]
    BY <1>2 DEF CheckAll
  <2> HIDE DEF n, order
  <2>4. \A c \in checks + 1 .. checks + n : c - checks \in 1 .. n /\ order[c - checks] \in Keys
    BY <1>0, <2>1
  <2>5. StatusTypeOK'
    <3>1. checks' \in 0 .. MaxChecks
      BY <1>0, <2>1
    <3>2. check' \in [Checks -> [pc : {"none", "queued", "validate"}, key : Keys, permit : BOOLEAN]]
      BY <1>0, <2>2, <2>4
    <3> QED
      BY <2>3, <3>1, <3>2 DEF StatusTypeOK
  <2>6. \A c \in Checks : c > checks' => check'[c].pc = "none"
    BY <1>0, <2>1, <2>2 DEF ChecksOwned
  <2>7. ASSUME NEW k \in Keys
        PROVE  \E c \in Checks : check'[c].pc # "none" /\ check'[c].key = k
    <3>1. PICK i \in 1 .. n : order[i] = k
      BY <2>1
    <3>2. checks + i \in Checks
      BY <1>0, <2>1
    <3>3. PICK c \in Checks : c = checks + i
      BY <3>2
    <3>4. c \in checks + 1 .. checks + n /\ c - checks = i
      BY <1>0, <2>1, <3>3
    <3>5. check'[c] = [pc |-> "queued", key |-> order[c - checks], permit |-> FALSE]
      BY <2>2, <3>4 DEF Checks
    <3>6. check'[c].pc # "none" /\ check'[c].key = k
      BY <3>1, <3>4, <3>5
    <3> QED
      BY <3>6
  <2> QED
    BY <2>3, <2>5, <2>6, <2>7 DEF ChecksOwned
<1>3. ASSUME NEW c \in Checks, WithPermit(c) PROVE StatusTypeOK' /\ ChecksOwned'
  <2>1. /\ UNCHANGED <<statuses, checks>> /\ check[c].pc = "queued"
        /\ check' = [check EXCEPT ![c].pc = "validate", ![c].permit = TRUE]
    BY <1>3 DEF WithPermit
  <2>2. StatusTypeOK'
    BY <1>0, <2>1 DEF StatusTypeOK
  <2>3. \A d \in Checks : check'[d].key = check[d].key /\ (check'[d].pc = "none" <=> check[d].pc = "none")
    BY <1>0, <2>1
  <2> QED
    BY <1>0, <2>1, <2>2, <2>3 DEF ChecksOwned
<1>4. ASSUME NEW c \in Checks, Validated(c) PROVE StatusTypeOK' /\ ChecksOwned'
  <2>1. PICK s \in {"Reachable", "Unreachable"} : statuses' = [statuses EXCEPT ![check[c].key] = s]
    BY <1>4 DEF Validated
  <2>2. checks' = checks /\ check' = [check EXCEPT ![c] = NoCheck] /\ check[c].key \in Keys
    BY <1>0, <1>4 DEF Validated
  <2>3. /\ NoCheck \in [pc : {"none", "queued", "validate"}, key : Keys, permit : BOOLEAN]
        /\ NoCheck.pc = "none"
    BY ServersAssumption DEF NoCheck
  <2>4. StatusTypeOK'
    BY <1>0, <2>1, <2>2, <2>3 DEF StatusTypeOK
  <2>5. \A d \in Checks : d > checks' => check'[d].pc = "none"
    BY <1>0, <2>2, <2>3 DEF ChecksOwned
  <2>6. ASSUME NEW k \in Keys, statuses'[k] = "Checking"
        PROVE  \E d \in Checks : check'[d].pc # "none" /\ check'[d].key = k
    <3>1. k # check[c].key /\ statuses[k] = "Checking"
      BY <1>0, <2>1, <2>2, <2>6
    <3> QED
      BY <1>0, <2>2, <3>1 DEF ChecksOwned
  <2> QED
    BY <2>4, <2>5, <2>6 DEF ChecksOwned
<1>5. CASE UNCHANGED statusVars
  BY <1>5 DEF statusVars, StatusTypeOK, ChecksOwned
<1> QED
  BY <1>1, <1>2, <1>3, <1>4, <1>5 DEF StatusNext, Checking

\* Where a refresh goes next, it stays a refresh.
LEMMA RefreshTyped ==
  ASSUME GateTypeOK, NEW r \in Refreshes, NEW pc \in {"none", "wait", "fetch", "done"},
         RefreshGoes(r, pc)
  PROVE  refresh' \in [Refreshes -> [pc : {"none", "wait", "fetch", "done"}, cancelled : BOOLEAN]]
  BY DEF GateTypeOK, RefreshGoes

\* The refreshes of the catalogue, whichever screens go away during them.
LEMMA StepFetchOwned ==
  ASSUME GateTypeOK, FetchOwned, [GateNext]_gateVars
  PROVE  GateTypeOK' /\ FetchOwned'
<1> USE DEF Refreshes, RefreshAt, RefreshGoes
<1>0. /\ refresh \in [Refreshes -> [pc : {"none", "wait", "fetch", "done"}, cancelled : BOOLEAN]]
      /\ catalogue \in 0 .. MaxRefreshes /\ gateCache \in 0 .. MaxRefreshes
      /\ refreshLock \in 0 .. MaxRefreshes /\ refreshes \in 0 .. MaxRefreshes
      /\ MaxRefreshes \in Nat /\ screens \in 0 .. MaxScreens /\ MaxScreens \in Nat
      /\ refreshState \in {"Idle", "Loading", "Success", "Error"}
  BY ServersAssumption DEF GateTypeOK
<1>1. CASE RefreshTap
  <2>1. refreshes + 1 \in Refreshes /\ refreshes' \in 0 .. MaxRefreshes
    BY <1>0, <1>1 DEF RefreshTap
  <2>2. GateTypeOK'
    BY <1>0, <1>1, <2>1 DEF RefreshTap, GateTypeOK
  <2>3. refreshState # "Loading" /\ UNCHANGED <<refreshState, refreshLock>> /\ refreshes' = refreshes + 1
    BY <1>1 DEF RefreshTap
  <2>4. refresh' = [refresh EXCEPT ![refreshes + 1].pc = "wait"]
    BY <1>1 DEF RefreshTap
  <2>5. refresh[refreshes + 1].pc # "fetch"
    BY <1>0, <2>1 DEF FetchOwned
  <2> QED
    BY <1>0, <2>1, <2>2, <2>3, <2>4, <2>5 DEF FetchOwned
<1>2. ASSUME NEW r \in Refreshes, RefreshLocked(r) PROVE GateTypeOK' /\ FetchOwned'
  <2>1. GateTypeOK'
    <3>1. refresh' \in [Refreshes -> [pc : {"none", "wait", "fetch", "done"}, cancelled : BOOLEAN]]
      BY <1>2, RefreshTyped DEF RefreshLocked
    <3>2. /\ UNCHANGED <<catalogue, gateCache, refreshes, screens>>
          /\ refreshLock' \in {refreshLock, r} /\ refreshState' \in {refreshState, "Loading"}
      BY <1>2 DEF RefreshLocked
    <3>3. r \in 0 .. MaxRefreshes
      BY <1>0
    <3> QED
      BY <1>0, <3>1, <3>2, <3>3 DEF GateTypeOK
  <2>2. CASE ~refresh[r].cancelled
    <3>1. /\ refresh[r].pc = "wait" /\ refreshLock = 0 /\ refreshLock' = r /\ r # 0
          /\ refresh' = [refresh EXCEPT ![r].pc = "fetch"] /\ refreshes' = refreshes
      BY <1>2, <2>2 DEF RefreshLocked
    <3>2. \A s \in Refreshes : s # r => refresh'[s].pc = refresh[s].pc
      BY <1>0, <3>1
    <3>3. refresh'[r].pc = "fetch" /\ \A s \in Refreshes : refresh[s].pc # "fetch"
      BY <1>0, <3>1 DEF FetchOwned
    <3> QED
      BY <1>0, <2>1, <3>1, <3>2, <3>3 DEF FetchOwned
  <2>3. CASE refresh[r].cancelled
    <3>1. /\ refresh[r].pc = "wait" /\ UNCHANGED <<refreshLock, refreshState, refreshes>>
          /\ refresh' = [refresh EXCEPT ![r].pc = "done"]
      BY <1>2, <2>3 DEF RefreshLocked
    <3> QED
      BY <1>0, <2>1, <3>1 DEF FetchOwned
  <2> QED
    BY <2>2, <2>3
<1>3. ASSUME NEW r \in Refreshes, Fetched(r) PROVE GateTypeOK' /\ FetchOwned'
  <2>1. GateTypeOK'
    <3>1. refresh' \in [Refreshes -> [pc : {"none", "wait", "fetch", "done"}, cancelled : BOOLEAN]]
      BY <1>3, RefreshTyped DEF Fetched, FetchDone
    <3>2. /\ UNCHANGED <<refreshes, screens>> /\ refreshLock' = 0
          /\ gateCache' \in {gateCache, r} /\ catalogue' \in {catalogue, gateCache, r}
          /\ refreshState' \in {"Success", "Error"}
      BY <1>3 DEF Fetched, FetchDone
    <3>3. {0, r} \subseteq 0 .. MaxRefreshes
      BY <1>0
    <3> QED
      BY <1>0, <3>1, <3>2, <3>3 DEF GateTypeOK
  <2> QED
    BY <1>0, <1>3, <2>1 DEF Fetched, FetchDone, FetchOwned
<1>4. ASSUME NEW r \in Refreshes, ScreenGoes(r) PROVE GateTypeOK' /\ FetchOwned'
  <2>1. GateTypeOK'
    BY <1>0, <1>4 DEF ScreenGoes, GateTypeOK
  <2> QED
    BY <1>0, <1>4, <2>1 DEF ScreenGoes, FetchOwned
<1>5. CASE LoadCache
  <2>1. GateTypeOK'
    BY <1>0, <1>5 DEF LoadCache, GateTypeOK
  <2> QED
    BY <1>0, <1>5, <2>1 DEF LoadCache, FetchOwned
<1>6. CASE UNCHANGED gateVars
  BY <1>6 DEF gateVars, GateTypeOK, FetchOwned
<1> QED
  BY <1>1, <1>2, <1>3, <1>4, <1>5, <1>6 DEF GateNext, Refreshing

\* The refreshes of the free list.
LEMMA StepSweepOwned ==
  ASSUME FreeInv, SweepOwned, [FreeNext]_freeVars
  PROVE  SweepOwned'
<1>0. /\ sweep \in [Refreshes -> [pc : {"none", "fetch", "sweep", "done"}, left : SUBSET Pool]]
      /\ freeBusy \in BOOLEAN /\ sweeps \in 0 .. MaxRefreshes /\ MaxRefreshes \in Nat
  BY ServersAssumption DEF FreeInv, FreeTypeOK
<1>1. CASE RefreshFree
  <2>1. sweeps + 1 \in Refreshes
    BY <1>0, <1>1 DEF RefreshFree, Refreshes
  <2> QED
    BY <1>0, <1>1, <2>1 DEF RefreshFree, SweepOwned, Refreshed
<1>2. CASE FreeLeft
  BY <1>2 DEF FreeLeft, SweepOwned
<1>3. CASE LoadFree
  BY <1>0, <1>3 DEF LoadFree, SweepOwned
<1>4. ASSUME NEW r \in Refreshes, FetchFails(r) \/ SweepEnds(r) PROVE SweepOwned'
  BY <1>0, <1>4 DEF FetchFails, SweepEnds, FreeDone, SweepOwned
<1>5. ASSUME NEW r \in Refreshes, SweepBegins(r) PROVE SweepOwned'
  BY <1>0, <1>5 DEF SweepBegins, SweepOwned, Refreshed
<1>6. ASSUME NEW r \in Refreshes, NEW e \in Pool, Swept(r, e) PROVE SweepOwned'
  BY <1>0, <1>6 DEF Swept, SweepOwned, Refreshed
<1>7. ASSUME NEW r \in Refreshes, Stream(r) PROVE SweepOwned'
  BY <1>0, <1>7 DEF Stream, SweepOwned, Refreshed
<1>8. CASE UNCHANGED freeVars
  BY <1>8 DEF freeVars, SweepOwned, Refreshed
<1> QED
  BY <1>1, <1>2, <1>3, <1>4, <1>5, <1>6, <1>7, <1>8 DEF FreeNext, Sweeping
=============================================================================
