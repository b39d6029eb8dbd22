--------------------------- MODULE VaultBootstrap ---------------------------
(***************************************************************************)
(* How a process opens the vault of crates/hk-proton-manager/src/store.rs, *)
(* or creates it: vault.meta (the vault's identity, which enters every     *)
(* DPAPI envelope), the authentication key that signs every generation,    *)
(* and store.meta, whose appearance commits the initialisation.            *)
(*                                                                         *)
(* A file is created empty and filled in a second step, so a process that  *)
(* dies in between leaves it torn.  store.lock covers everything from the  *)
(* first look at store.meta on; vault.meta is created before it, guarded   *)
(* by create_new alone.  What is committed later is one step here, the     *)
(* subject of StateStore: this module keeps which keys signed something.   *)
(***************************************************************************)
EXTENDS Naturals, FiniteSets

CONSTANTS
  Client,      \* processes of the user that open the vault
  Id,          \* random identifiers, of vaults and of keys
  MaxAborts,   \* bound: how many processes die or fail before they are done
  MaxFaults,   \* bound: how many files the medium damages or loses
  Free,        \* the store lock is not held
  Absent,      \* the file does not exist
  Torn         \* the file exists, but does not hold what was meant for it

ASSUME BootstrapAssumption ==
  /\ MaxAborts \in Nat
  /\ MaxFaults \in Nat
  /\ Free \notin Client
  /\ Absent \notin Id
  /\ Torn \notin Id
  /\ Absent # Torn

VARIABLES
  vaultMeta,  \* vault.meta: the vault's identifier
  key,        \* vault-auth-key.dpapi: a key and the vault it is protected for
  pending,    \* .store.meta.pending: the key it refers to
  meta,       \* store.meta: the key it refers to
  entries,    \* generations, secrets and .staging exist
  data,       \* the keys that signed what these directories contain
  lock,       \* the process that holds store.lock
  pc,         \* how far each process is
  mine,       \* the vault and the key each process works with
  aborts, faults

files == <<vaultMeta, key, pending, meta>>
vars == <<vaultMeta, key, pending, meta, entries, data, lock, pc, mine, aborts, faults>>

NoKey == [vault |-> Absent, key |-> Absent]
KeyFile == [vault : Id, key : Id] \cup {NoKey}
TornKey == [vault |-> Torn, key |-> Torn]

Init ==
  /\ vaultMeta = Absent
  /\ key = NoKey
  /\ pending = Absent
  /\ meta = Absent
  /\ entries = FALSE
  /\ data = {}
  /\ lock = Free
  /\ pc = [c \in Client |-> "closed"]
  /\ mine = [c \in Client |-> NoKey]
  /\ aborts = 0
  /\ faults = 0

\* The identifiers in use; Uuid::new_v4 and getrandom give another one.
VaultsInUse == {vaultMeta, key.vault} \cup {mine[c].vault : c \in Client}
KeysInUse == {key.key, pending, meta} \cup {mine[c].key : c \in Client} \cup data

----------------------------------------------------------------------------
(* open_current_user: the identity of the vault *)

Goto(c, label) == pc' = [pc EXCEPT ![c] = label]

\* The attempt is over, with an error or by the death of the process.
Fail(c) ==
  /\ Goto(c, "closed")
  /\ mine' = [mine EXCEPT ![c] = NoKey]
  /\ lock' = IF lock = c THEN Free ELSE lock
  /\ UNCHANGED <<files, entries, data>>

LookForVault(c) ==
  /\ pc[c] = "closed"
  /\ Goto(c, IF vaultMeta = Absent THEN "root" ELSE "identify")
  /\ UNCHANGED <<files, entries, data, lock, mine, aborts, faults>>

RootIsEmpty ==
  /\ vaultMeta = Absent
  /\ key = NoKey
  /\ pending = Absent
  /\ meta = Absent
  /\ ~ entries

CheckRoot(c) ==
  /\ pc[c] = "root"
  /\ \/ /\ RootIsEmpty
        /\ Goto(c, "found")
        /\ UNCHANGED <<files, entries, data, lock, mine>>
     \/ ~ RootIsEmpty /\ Fail(c)
  /\ UNCHANGED <<aborts, faults>>

\* create_new: the loser of the race reads what the winner has written.
FoundVault(c) ==
  /\ pc[c] = "found"
  /\ \/ /\ vaultMeta = Absent
        /\ vaultMeta' = Torn
        /\ Goto(c, "name")
     \/ /\ vaultMeta # Absent
        /\ Goto(c, "identify")
        /\ UNCHANGED vaultMeta
  /\ UNCHANGED <<key, pending, meta, entries, data, lock, mine, aborts, faults>>

NameVault(c) ==
  /\ pc[c] = "name"
  /\ \E v \in Id \ VaultsInUse :
        /\ vaultMeta' = v
        /\ mine' = [mine EXCEPT ![c] = [vault |-> v, key |-> Absent]]
  /\ Goto(c, "enter")
  /\ UNCHANGED <<key, pending, meta, entries, data, lock, aborts, faults>>

\* read_vault_metadata
IdentifyVault(c) ==
  /\ pc[c] = "identify"
  /\ \/ /\ vaultMeta \in Id
        /\ mine' = [mine EXCEPT ![c] = [vault |-> vaultMeta, key |-> Absent]]
        /\ Goto(c, "enter")
        /\ UNCHANGED <<files, entries, data, lock>>
     \/ vaultMeta \notin Id /\ Fail(c)
  /\ UNCHANGED <<aborts, faults>>

----------------------------------------------------------------------------
(* open: the directories and the lock *)

\* Mutant of EnterStore: nobody waits for the lock.
EnterWithoutLock(c) ==
  /\ pc[c] = "enter"
  /\ entries' = TRUE
  /\ lock' = c
  /\ Goto(c, "load")
  /\ UNCHANGED <<files, data, mine, aborts, faults>>

EnterStore(c) ==
  /\ pc[c] = "enter"
  /\ entries' = TRUE
  /\ \/ /\ lock = Free
        /\ lock' = c
        /\ Goto(c, "load")
        /\ UNCHANGED mine
     \/ /\ lock # Free
        /\ Goto(c, "closed")
        /\ mine' = [mine EXCEPT ![c] = NoKey]
        /\ UNCHANGED lock
  /\ UNCHANGED <<files, data, aborts, faults>>

----------------------------------------------------------------------------
(* load_or_initialize_auth_key *)

\* load_auth_key: the metadata refers to the key, which opens in this vault.
Loads(c, reference) ==
  /\ reference \in Id
  /\ key = [vault |-> mine[c].vault, key |-> reference]

\* The process has the key and drops the lock.
Opened(c, k) ==
  /\ mine' = [mine EXCEPT ![c].key = k]
  /\ lock' = Free
  /\ Goto(c, "open")

\* Mutant of Pristine: only a vault with metadata can hold data.
PristineWithoutMeta == meta = Absent

\* store_is_pristine, for the files its caller has not looked at itself.
Pristine == meta = Absent /\ data = {}

LoadMeta(c) ==
  /\ pc[c] = "load"
  /\ meta # Absent
  /\ \/ /\ pending = Absent /\ Loads(c, meta)
        /\ Opened(c, meta)
        /\ UNCHANGED <<files, entries, data>>
     \/ ~ (pending = Absent /\ Loads(c, meta)) /\ Fail(c)
  /\ UNCHANGED <<aborts, faults>>

\* The interrupted initialisation had written everything: commit it.
FinishPending(c) ==
  /\ pc[c] = "load"
  /\ meta = Absent
  /\ Loads(c, pending)
  /\ meta' = pending
  /\ pending' = Absent
  /\ Opened(c, pending)
  /\ UNCHANGED <<vaultMeta, key, entries, data, aborts, faults>>

\* It had not: discard it, unless the vault holds anything.
DiscardPending(c) ==
  /\ pc[c] = "load"
  /\ meta = Absent
  /\ ~ Loads(c, pending)
  /\ \/ /\ pending = Absent \/ Pristine
        /\ pending' = Absent
        /\ Goto(c, "orphan")
        /\ UNCHANGED <<vaultMeta, key, meta, entries, data, lock, mine>>
     \/ pending # Absent /\ ~ Pristine /\ Fail(c)
  /\ UNCHANGED <<aborts, faults>>

\* Mutant of DiscardKey: a key without metadata is an error.
RefuseOrphan(c) ==
  /\ pc[c] = "orphan"
  /\ \/ /\ Pristine /\ key = NoKey
        /\ Goto(c, "createKey")
        /\ UNCHANGED <<files, entries, data, lock, mine>>
     \/ ~ (Pristine /\ key = NoKey) /\ Fail(c)
  /\ UNCHANGED <<aborts, faults>>

DiscardKey(c) ==
  /\ pc[c] = "orphan"
  /\ \/ /\ Pristine
        /\ key' = NoKey
        /\ Goto(c, "createKey")
        /\ UNCHANGED <<vaultMeta, pending, meta, entries, data, lock, mine>>
     \/ ~ Pristine /\ Fail(c)
  /\ UNCHANGED <<aborts, faults>>

\* write_new_synced of the key: create_new, then its bytes.
CreateKey(c) ==
  /\ pc[c] = "createKey"
  /\ \/ /\ key = NoKey
        /\ key' = TornKey
        /\ Goto(c, "writeKey")
        /\ UNCHANGED <<vaultMeta, pending, meta, entries, data, lock, mine>>
     \/ key # NoKey /\ Fail(c)
  /\ UNCHANGED <<aborts, faults>>

WriteKey(c) ==
  /\ pc[c] = "writeKey"
  /\ \E k \in Id \ KeysInUse :
        /\ key' = [vault |-> mine[c].vault, key |-> k]
        /\ mine' = [mine EXCEPT ![c].key = k]
  /\ Goto(c, "createPending")
  /\ UNCHANGED <<vaultMeta, pending, meta, entries, data, lock, aborts, faults>>

CreatePending(c) ==
  /\ pc[c] = "createPending"
  /\ \/ /\ pending = Absent
        /\ pending' = Torn
        /\ Goto(c, "writePending")
        /\ UNCHANGED <<vaultMeta, key, meta, entries, data, lock, mine>>
     \/ pending # Absent /\ Fail(c)
  /\ UNCHANGED <<aborts, faults>>

WritePending(c) ==
  /\ pc[c] = "writePending"
  /\ pending' = mine[c].key
  /\ Goto(c, "publish")
  /\ UNCHANGED <<vaultMeta, key, meta, entries, data, lock, mine, aborts, faults>>

\* atomic_replace of store.meta
PublishMeta(c) ==
  /\ pc[c] = "publish"
  /\ meta' = pending
  /\ pending' = Absent
  /\ Opened(c, mine[c].key)
  /\ UNCHANGED <<vaultMeta, key, entries, data, aborts, faults>>

----------------------------------------------------------------------------
(* The open vault, failures and damage *)

\* A commit reads the head first, which fails on what another key signed.
Commit(c) ==
  /\ pc[c] = "open"
  /\ lock = Free
  /\ data \subseteq {mine[c].key}
  /\ data' = data \cup {mine[c].key}
  /\ UNCHANGED <<files, entries, lock, pc, mine, aborts, faults>>

Close(c) == pc[c] = "open" /\ Fail(c) /\ UNCHANGED <<aborts, faults>>

\* The process dies, or one of its writes fails: what it created stays.
Abort(c) ==
  /\ pc[c] \notin {"closed", "open"}
  /\ aborts < MaxAborts
  /\ aborts' = aborts + 1
  /\ Fail(c)
  /\ UNCHANGED faults

\* state_store.rs loses store.meta and damages the key.
Fault ==
  /\ faults < MaxFaults
  /\ faults' = faults + 1
  /\ \/ /\ vaultMeta \in Id /\ vaultMeta' \in {Absent, Torn}
        /\ UNCHANGED <<key, meta>>
     \/ /\ key.key \in Id /\ key' \in {NoKey, TornKey}
        /\ UNCHANGED <<vaultMeta, meta>>
     \/ /\ meta \in Id /\ meta' \in {Absent, Torn}
        /\ UNCHANGED <<vaultMeta, key>>
  /\ UNCHANGED <<pending, entries, data, lock, pc, mine, aborts>>

----------------------------------------------------------------------------
OpenStep(c) ==
  \/ LookForVault(c) \/ CheckRoot(c) \/ FoundVault(c) \/ NameVault(c)
  \/ IdentifyVault(c) \/ EnterStore(c) \/ LoadMeta(c) \/ FinishPending(c)
  \/ DiscardPending(c) \/ DiscardKey(c) \/ CreateKey(c) \/ WriteKey(c)
  \/ CreatePending(c) \/ WritePending(c) \/ PublishMeta(c)

Next ==
  \/ \E c \in Client : OpenStep(c) \/ Commit(c) \/ Close(c) \/ Abort(c)
  \/ Fault

Spec == Init /\ [][Next]_vars

\* A process that opens the vault runs on, and the user starts the program
\* again after it has failed.
FairSpec == Spec /\ \A c \in Client : WF_vars(OpenStep(c))

----------------------------------------------------------------------------
(* Properties *)

\* load_or_initialize_auth_key between its lock and its return, before and
\* after it has found the vault empty.
Loading == {"load", "orphan"}
Creating == {"createKey", "writeKey", "createPending", "writePending", "publish"}
Unlocked == {"closed", "root", "found", "name", "identify", "enter", "open"}

\* Files, locals and the lock hold what their writers put there.
TypeOK ==
  /\ vaultMeta \in Id \cup {Absent, Torn}
  /\ key \in KeyFile \cup {TornKey}
  /\ {pending, meta} \subseteq Id \cup {Absent, Torn}
  /\ entries \in BOOLEAN
  /\ data \subseteq Id
  /\ lock \in Client \cup {Free}
  /\ pc \in [Client -> Unlocked \cup Loading \cup Creating]
  /\ mine \in [Client -> [vault : Id \cup {Absent}, key : Id \cup {Absent}]]
  /\ aborts \in 0 .. MaxAborts
  /\ faults \in 0 .. MaxFaults

\* As long as the medium keeps what was written, every open process and every
\* generation uses the one key on disk, protected for the one identity on
\* disk, however many processes initialised the vault at once and died at it:
\* a second key would leave generations nobody can verify (the lock at
\* store.rs:168, the order key, pending, store.meta at 736-756).
OneKey ==
  faults = 0 =>
    /\ \A c \in Client :
         pc[c] = "open" => key = mine[c] /\ meta = key.key /\ vaultMeta = key.vault
    /\ data # {} => data = {key.key} /\ meta = key.key

\* Once anything is committed, no process removes or replaces the key, or a
\* store.meta that exists, whatever was lost or damaged and however far another
\* process had come with its initialisation: the code rather refuses to open
\* (store_is_pristine; "only an empty vault may clean up", store.rs:728).
KeyNeverDiscarded ==
  [][(data # {} /\ faults' = faults) => key' = key /\ meta \in {Absent, meta'}]_vars

\* However often an initialisation died, without damage the vault can be opened
\* again, except when a process died while it wrote vault.meta: that file
\* nothing replaces (store.rs:119-124).
EventuallyOpens ==
  [](faults = 0) =>
    \/ []<>(\E c \in Client : pc[c] = "open")
    \/ <>[](vaultMeta = Torn)

----------------------------------------------------------------------------
(* The inductive invariant behind KeyNeverDiscarded *)

\* What a process has got past, it knows.
LocalsFit ==
  \A c \in Client :
    /\ pc[c] \in {"enter", "open"} \cup Loading \cup Creating => mine[c].vault # Absent
    /\ pc[c] \in {"createPending", "writePending", "publish", "open"} => mine[c].key # Absent

\* The lock is held by the process inside load_or_initialize_auth_key, and only
\* a vault without data gets a new key.
KeyIsMadeUnderLock ==
  \A c \in Client :
    /\ pc[c] \in Loading \cup Creating => lock = c
    /\ pc[c] \in Creating => data = {} /\ meta = Absent

\* Before any damage: who knows the vault's identity knows the one on disk, only
\* one process names it, store.meta appears last and refers to the key beside
\* it, and the creating process finds its own files.
UndamagedVault ==
  faults = 0 =>
    /\ \A c \in Client : mine[c].vault # Absent => vaultMeta = mine[c].vault
    /\ \A c \in Client : pc[c] = "name" => vaultMeta = Torn
    /\ \A c, d \in Client : pc[c] = "name" /\ pc[d] = "name" => c = d
    /\ \A c \in Client : pc[c] = "open" => key = mine[c] /\ meta = mine[c].key /\ meta # Absent
    /\ meta # Absent =>
         pending = Absent /\ meta = key.key /\ meta \in Id /\ key.vault = vaultMeta
    /\ data # {} => data = {key.key} /\ meta = key.key
    /\ \A c \in Client :
         /\ pc[c] \in {"orphan", "createKey", "writeKey", "createPending"} =>
               pending = Absent /\ meta = Absent
         /\ pc[c] \in {"createPending", "writePending", "publish"} =>
               key = mine[c] /\ key.key \in Id
         /\ pc[c] = "publish" => pending = key.key

BootstrapInvariant == TypeOK /\ LocalsFit /\ KeyIsMadeUnderLock /\ UndamagedVault
============================================================================
