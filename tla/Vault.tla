------------------------------- MODULE Vault --------------------------------
(***************************************************************************)
(* The saved proxies: SharedPreferencesProxyStore over SharedPreferences.  *)
(* (SharedPreferencesOvpnVault is the same store on a file of its own,     *)
(* with the profile's text for the password and without update, default    *)
(* and cipher.)                                                            *)
(*                                                                         *)
(* Operations run one at a time, on the main thread.  apply() changes the  *)
(* preferences in memory at once and queues the file to be written; the    *)
(* process may die between any two statements.  A configuration is its     *)
(* version number, and the password that belongs to it has the same        *)
(* number.                                                                 *)
(*                                                                         *)
(* External: SharedPreferences, whose file is replaced as a whole, in the  *)
(* order of the apply() calls; the KeyStore, which may be unable to        *)
(* encrypt.                                                                *)
(***************************************************************************)
EXTENDS Naturals, Sequences, SequencesExt

CONSTANTS
    MaxSaves,       \* bound on entries saved
    MaxEdits,       \* bound on operations
    MaxVaultDeaths  \* bound on deaths of the process

ASSUME VaultAssumption == MaxSaves \in Nat /\ MaxEdits \in Nat /\ MaxVaultDeaths \in Nat

Ids == 1 .. MaxSaves

VARIABLES
    proxies,    \* _proxies: records of id, config, hasPassword and isDefault
    defaultId,  \* _defaultId, 0 when null
    kv,         \* the preferences: vault.v1, vault.default and the pw.<id>
    queued,     \* files waiting to be written
    disk,       \* the file
    edit,       \* the operation under way
    saved,      \* ids given out
    edits, vaultDeaths,
    listed,     \* history: the ids that have been in the file's index
    torn        \* history: a death left an update half-written

vaultVars == <<proxies, defaultId, kv, queued, disk, edit, saved, edits, vaultDeaths, listed, torn>>

NoEdit == [op |-> "none", pc |-> "none", id |-> 0, version |-> 0, index |-> <<>>]
EmptyStore == [index |-> <<>>, default |-> 0, pw |-> [i \in Ids |-> 0]]

\* overlay: the flags come from the blobs and the default id.
Overlay(store, default) ==
    [n \in DOMAIN store.index |->
        [id |-> store.index[n].id, version |-> store.index[n].version,
         hasPassword |-> store.pw[store.index[n].id] # 0,
         isDefault |-> store.index[n].id = default]]

\* What the init block makes of a file.
Load(store) == Overlay(store, store.default)

VaultInit ==
    /\ proxies = <<>> /\ defaultId = 0 /\ kv = EmptyStore /\ queued = <<>> /\ disk = EmptyStore
    /\ edit = NoEdit /\ saved = 0 /\ edits = 0 /\ vaultDeaths = 0 /\ listed = {} /\ torn = FALSE

\* The ids of a list, or of an index.
Named(list) == {list[n].id : n \in DOMAIN list}

Known == Named(proxies)

\* What VaultCodec keeps of a list; the flags are not written.
Encoded(list) == [n \in DOMAIN list |-> [id |-> list[n].id, version |-> list[n].version]]

-----------------------------------------------------------------------------
(***************************************************************************)
(* The operations, up to their first write.                                *)
(***************************************************************************)

Edit(op, id, pc, index) ==
    /\ edit = NoEdit /\ edits < MaxEdits /\ edits' = edits + 1
    /\ edit' = [op |-> op, pc |-> pc, id |-> id, version |-> edits + 1, index |-> index]
    /\ UNCHANGED <<proxies, defaultId, kv, queued, disk, vaultDeaths, listed, torn>>

\* save: the metadata goes to the end of the order.
Save ==
    /\ saved < MaxSaves /\ saved' = saved + 1
    /\ Edit("save", saved + 1, "password",
            Append(Encoded(proxies), [id |-> saved + 1, version |-> edits + 1]))

\* update: the metadata is replaced in its place.
Update(id) ==
    /\ id \in Known /\ UNCHANGED saved
    /\ Edit("update", id, "password",
            [n \in DOMAIN proxies |-> [id |-> proxies[n].id,
                                       version |-> IF proxies[n].id = id THEN edits + 1
                                                                         ELSE proxies[n].version]])

\* filterNot drops one entry, since ids are unique (UniqueIds).
Place(id) == CHOOSE n \in DOMAIN proxies : proxies[n].id = id
Without(id) == RemoveAt(Encoded(proxies), Place(id))

\* Mutant: the entry goes, and its ciphertext stays.
DeleteKeepsBlob(id) ==
    /\ id \in Known /\ UNCHANGED saved
    /\ Edit("delete", id, "metadata", Without(id))

Delete(id) ==
    /\ id \in Known /\ UNCHANGED saved
    /\ Edit("delete", id, "password", Without(id))

\* moveSaved: two neighbours change places.
Reorder(n) ==
    /\ n \in 1 .. Len(proxies) - 1 /\ UNCHANGED saved
    /\ LET list == Encoded(proxies)
       IN Edit("reorder", 0, "metadata",
               [list EXCEPT ![n] = list[n + 1], ![n + 1] = list[n]])

SetDefault(id) ==
    /\ id \in Known \cup {0} /\ UNCHANGED saved
    /\ Edit("default", id, "default", <<>>)

-----------------------------------------------------------------------------
(***************************************************************************)
(* Their statements.                                                       *)
(***************************************************************************)

\* putString and remove: edit().apply()
Write(store) == kv' = store /\ queued' = Append(queued, store)
EditAt(pc) == edit.pc = pc
EditGoes(pc) == edit' = [edit EXCEPT !.pc = pc]
idleStore == <<disk, saved, edits, vaultDeaths, listed, torn>>

\* Mutant: an update without a password keeps the blob.
PersistPasswordKept ==
    /\ EditAt("password")
    /\ \/ edit.op # "delete" /\ Write([kv EXCEPT !.pw[edit.id] = edit.version])
       \/ edit.op = "delete" /\ Write([kv EXCEPT !.pw[edit.id] = 0])
       \/ edit.op # "delete" /\ UNCHANGED <<kv, queued>>
    /\ EditGoes("metadata")
    /\ UNCHANGED <<proxies, defaultId, idleStore>>

\* persistPassword: the ciphertext is stored, or the key is removed.
PersistPassword ==
    /\ EditAt("password")
    /\ \/ edit.op # "delete" /\ Write([kv EXCEPT !.pw[edit.id] = edit.version])
       \/ Write([kv EXCEPT !.pw[edit.id] = 0])
    /\ EditGoes("metadata")
    /\ UNCHANGED <<proxies, defaultId, idleStore>>

\* Mutant: the default is only cleared in memory.
PersistMetadataOnly ==
    /\ EditAt("metadata")
    /\ Write([kv EXCEPT !.index = edit.index])
    /\ defaultId' = IF edit.op = "delete" /\ defaultId = edit.id THEN 0 ELSE defaultId
    /\ EditGoes("overlay")
    /\ UNCHANGED <<proxies, idleStore>>

\* persistMetadata
PersistMetadata ==
    /\ EditAt("metadata")
    /\ Write([kv EXCEPT !.index = edit.index])
    /\ EditGoes(IF edit.op = "delete" /\ defaultId = edit.id THEN "default" ELSE "overlay")
    /\ UNCHANGED <<proxies, defaultId, idleStore>>

\* setDefault, and delete of the default.
PersistDefault ==
    /\ EditAt("default")
    /\ LET id == IF edit.op = "delete" THEN 0 ELSE edit.id
       IN Write([kv EXCEPT !.default = id]) /\ defaultId' = id
    /\ EditGoes("overlay")
    /\ UNCHANGED <<proxies, idleStore>>

\* The list is emitted again, with its flags.
Emit ==
    /\ EditAt("overlay")
    /\ LET list == IF edit.op = "default" THEN Encoded(proxies) ELSE edit.index
       IN proxies' = Overlay([kv EXCEPT !.index = list], defaultId)
    /\ edit' = NoEdit
    /\ UNCHANGED <<defaultId, kv, queued, idleStore>>

\* A queued file is written.
Flush ==
    /\ queued # <<>> /\ disk' = Head(queued) /\ queued' = Tail(queued)
    /\ listed' = listed \cup Named(Head(queued).index)
    /\ UNCHANGED <<proxies, defaultId, kv, edit, saved, edits, vaultDeaths, torn>>

Torn(store) ==
    \E n \in DOMAIN store.index :
        store.pw[store.index[n].id] \notin {0, store.index[n].version}

\* The process dies, and the next one loads the file.
VaultDies ==
    /\ vaultDeaths < MaxVaultDeaths /\ vaultDeaths' = vaultDeaths + 1
    /\ kv' = disk /\ queued' = <<>> /\ edit' = NoEdit
    /\ defaultId' = disk.default /\ proxies' = Load(disk)
    /\ torn' = (torn \/ Torn(disk))
    /\ UNCHANGED <<disk, saved, edits, listed>>

VaultNext ==
    \/ Save
    \/ \E id \in Ids : Update(id) \/ Delete(id)
    \/ \E n \in Ids : Reorder(n)
    \/ \E id \in Ids \cup {0} : SetDefault(id)
    \/ PersistPassword \/ PersistMetadata \/ PersistDefault \/ Emit
    \/ Flush \/ VaultDies

VaultSpec == VaultInit /\ [][VaultNext]_vaultVars

-----------------------------------------------------------------------------
Entries == [id : Ids, version : 1 .. MaxEdits]
Stores == [index : Seq(Entries), default : Ids \cup {0}, pw : [Ids -> 0 .. MaxEdits]]
EditStates ==
    [op : {"none", "save", "update", "delete", "reorder", "default"},
     pc : {"none", "password", "metadata", "default", "overlay"},
     id : Ids \cup {0}, version : 0 .. MaxEdits, index : Seq(Entries)]

\* Every variable has its type.
VaultTypeOK ==
    /\ proxies \in Seq([id : Ids, version : 1 .. MaxEdits, hasPassword : BOOLEAN,
                        isDefault : BOOLEAN])
    /\ defaultId \in Ids \cup {0} /\ kv \in Stores /\ queued \in Seq(Stores) /\ disk \in Stores
    /\ edit \in EditStates
    /\ saved \in 0 .. MaxSaves /\ edits \in 0 .. MaxEdits /\ vaultDeaths \in 0 .. MaxVaultDeaths
    /\ listed \subseteq Ids /\ torn \in BOOLEAN

\* Between operations the list on the screen, with its order and its flags, is
\* the one a restart would load from what has been written.
RestartShowsSame == edit = NoEdit => proxies = Load(kv) /\ defaultId = kv.default

\* A deleted entry leaves no password in the file, however the process dies on
\* the way: the blob goes before the entry (delete: "Remove an entry and its
\* ciphertext blob").
DeletedForgotten ==
    \A id \in listed :
        disk.pw[id] # 0 => id \in Named(disk.index)

\* resolve() never puts the password of one configuration into another: an
\* update replaces or removes it (update: "an empty password clears any stored
\* blob"), unless the process died in the middle of one.
PasswordBelongs == edit = NoEdit /\ ~torn => ~Torn(kv)

-----------------------------------------------------------------------------
(***************************************************************************)
(* The parts of the inductive invariant.                                   *)
(***************************************************************************)

\* Which operation has which statements.
OpSteps ==
    /\ edit.op = "default" => edit.pc \in {"default", "overlay"}
    /\ edit.pc = "password" => edit.op \in {"save", "update", "delete"}
    /\ edit.pc = "metadata" => edit.op \in {"save", "update", "delete", "reorder"}
    /\ edit.pc = "none" <=> edit.op = "none"
    /\ edit.op \in {"save", "update", "delete"} => edit.id \in Ids

\* The index in memory is the list's until persistMetadata, and the
\* operation's after it.
IndexInStep ==
    /\ defaultId = kv.default
    /\ edit.pc \in {"none", "password", "metadata"} \/ edit.op = "default"
         => Encoded(proxies) = kv.index
    /\ edit.pc \in {"default", "overlay"} /\ edit.op # "default" => kv.index = edit.index

\* What an operation is about to write, against what is there.
Proposed ==
    edit.pc \in {"password", "metadata"} =>
        /\ edit.op \in {"update", "delete"} => edit.id \in Named(kv.index)
        /\ edit.op = "save" => edit.id = saved /\ edit.id \notin Named(kv.index)
        /\ Named(kv.index) \ Named(edit.index) \subseteq
               IF edit.op = "delete" THEN {edit.id} ELSE {}
        /\ \A n \in DOMAIN edit.index :
               IF edit.op \in {"save", "update"} /\ edit.index[n].id = edit.id
                 THEN edit.index[n].version = edit.version
                 ELSE \E m \in DOMAIN kv.index : kv.index[m] = edit.index[n]

\* An id that has been written anywhere has been given out.
GivenOut ==
    /\ listed \subseteq 1 .. saved
    /\ Named(kv.index) \subseteq 1 .. saved /\ Named(disk.index) \subseteq 1 .. saved
    /\ \A n \in DOMAIN queued : Named(queued[n].index) \subseteq 1 .. saved

\* The new id of a save is in no file before persistMetadata.
NewUnwritten ==
    edit.op = "save" /\ edit.pc \in {"password", "metadata"} =>
        /\ edit.id \notin listed
        /\ \A n \in DOMAIN queued : edit.id \notin Named(queued[n].index)

\* Passwords without an entry.
Orphans(store) == {id \in Ids : store.pw[id] # 0 /\ id \notin Named(store.index)}

\* They belong to entries that are in no file up to this one: saves cut short.
OrphansUnlisted ==
    /\ \A id \in Orphans(disk) : id \notin listed
    /\ \A n \in DOMAIN queued : \A id \in Orphans(queued[n]) :
           id \notin listed /\ \A m \in 1 .. n : id \notin Named(queued[m].index)
    /\ \A id \in Orphans(kv) :
           id \notin listed /\ \A m \in DOMAIN queued : id \notin Named(queued[m].index)

\* delete: the blob is gone before the entry.
BlobFirst == edit.op = "delete" /\ edit.pc = "metadata" => kv.pw[edit.id] = 0

\* While no death has torn an update, only the entry being saved or updated may
\* have a password that is not its own, and that one is the operation's.
TornOnlyHere ==
    ~torn =>
        /\ \A n \in DOMAIN kv.index :
              \/ kv.pw[kv.index[n].id] \in {0, kv.index[n].version}
              \/ edit.op = "update" /\ edit.pc = "metadata" /\ edit.id = kv.index[n].id
        /\ edit.op \in {"save", "update"} /\ edit.pc = "metadata"
              => kv.pw[edit.id] \in {0, edit.version}

\* No two entries of an index have the same id.
Unique(list) == \A m, n \in DOMAIN list : list[m].id = list[n].id => m = n
UniqueIds ==
    /\ Unique(proxies) /\ Unique(kv.index) /\ Unique(disk.index) /\ Unique(edit.index)
    /\ \A n \in DOMAIN queued : Unique(queued[n].index)

\* What every step preserves.
VaultInv ==
    /\ VaultTypeOK /\ OpSteps
    /\ IndexInStep /\ RestartShowsSame
    /\ Proposed /\ GivenOut /\ NewUnwritten
    /\ OrphansUnlisted /\ BlobFirst /\ TornOnlyHere /\ UniqueIds
=============================================================================
