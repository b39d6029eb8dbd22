---------------------------- MODULE StateStore ----------------------------
(***************************************************************************)
(* The generation store of crates/hk-proton-manager/src/store.rs, shared   *)
(* by several processes.  A call takes the non-blocking file lock, works   *)
(* on the directory tree and drops the lock when it returns or dies.       *)
(*                                                                         *)
(* One visible change of the directory tree is one step: the rename of a   *)
(* secret out of staging, the rename of a generation directory, the        *)
(* replacement of a head slot.  A process may die between any two of them, *)
(* and the medium may damage a slot, a generation or a secret at any time. *)
(* What is written under .staging, and the temporary file of a head slot,  *)
(* is read by nobody before its rename, so writing it is not a step.       *)
(*                                                                         *)
(* Revision 0 stands for Option::None: next_revision starts at 1.  The     *)
(* HMAC and SHA-256 checks of a slot, a manifest or a state file are the   *)
(* single question whether the bytes are still those that were written.    *)
(***************************************************************************)
EXTENDS Integers, FiniteSets

CONSTANTS
  Client,     \* processes that have the store open
  Caretaker,  \* the clients among them that also mark and roll back
  Secret,     \* identifiers of SecretRef
  Value,      \* secret values
  Content,    \* what an AppState may say
  Candidate,  \* GenerationCandidates that clients may commit
  MaxU64,     \* the largest revision and head epoch (u64::MAX)
  MaxFaults,  \* bound: how many times the medium may do damage
  Free,       \* the store lock is not held
  Empty,      \* a slot, generation or secret file that does not exist
  Damaged     \* a slot or secret file whose bytes fail verification

Revision == 1 .. MaxU64
Option(S) == S \cup {0}
HeadName == {"current", "last-known-good"}
Slot == {0, 1}

\* The secret values a candidate brings with it.
Supply == UNION {[D -> Value] : D \in SUBSET Secret}

\* A candidate: what its state says, the secrets that state refers to, and the
\* values it supplies for the new ones among them.
CandidateType == [content : Content, needs : SUBSET Secret, supplied : Supply]

Generation ==
  [content : Content, needs : SUBSET Secret, supplied : Supply, parent : Option(Revision)]

Pointer == [epoch : Revision, revision : Revision]

ASSUME StoreAssumption ==
  /\ MaxU64 \in Nat
  /\ MaxFaults \in Nat
  /\ Caretaker \subseteq Client
  /\ Free \notin Client
  /\ Candidate \subseteq CandidateType
  /\ Empty # Damaged
  /\ {Empty, Damaged} \cap Value = {}
  /\ {Empty, Damaged} \cap Pointer = {}
  /\ Empty \notin CandidateType \cup Generation

VARIABLES
  lock,      \* the client that holds store.lock, or Free
  slot,      \* slot[name][i]: a head slot file
  gen,       \* gen[r]: generations/<r>, the candidate and its parent
  rotten,    \* published generations whose files the medium damaged
  vault,     \* vault[s]: secrets/<s>.dpapi
  pc,        \* where each client is in its call
  base,      \* the revision each client loaded or committed last
  call,      \* the arguments and locals of the call each client is in
  faults     \* damages so far

store == <<slot, gen, rotten, vault>>
vars == <<lock, slot, gen, rotten, vault, pc, base, call, faults>>

----------------------------------------------------------------------------
(* Reading the store *)

Published == {r \in Revision : gen[r] # Empty}

\* read_generation_unlocked succeeds.
Readable(r) ==
  /\ r \in Published
  /\ r \notin rotten
  /\ \A s \in gen[r].needs : vault[s] \in Value

Intact(name, i) == slot[name][i] \notin {Empty, Damaged}

\* The slots valid_head_slots returns.
ValidSlots(name) ==
  {i \in Slot : Intact(name, i) /\ Readable(slot[name][i].revision)}

\* Mutant of HeadReadable: one invalid slot makes the head unreadable.
HeadReadableOnlyIfAllAreValid(name) ==
  ValidSlots(name) = {i \in Slot : slot[name][i] # Empty}

\* valid_head_slots fails on two different pointers of one epoch, and when
\* slots exist but none of them is valid.
HeadReadable(name) ==
  /\ \A i, j \in ValidSlots(name) :
        slot[name][i].epoch = slot[name][j].epoch => slot[name][i] = slot[name][j]
  /\ (\A i \in Slot : slot[name][i] = Empty) \/ ValidSlots(name) # {}

\* The valid slot with the highest epoch.
NewestSlot(name) ==
  CHOOSE i \in ValidSlots(name) :
    \A j \in ValidSlots(name) : slot[name][j].epoch <= slot[name][i].epoch

\* read_head
HeadRevision(name) ==
  IF ValidSlots(name) = {} THEN 0 ELSE slot[name][NewestSlot(name)].revision

\* Mutant of IsNextRevision: the head's revision decides, not the directory.
FollowsHead(n) == n - 1 = HeadRevision("current")

\* next_revision: one more than the greatest published revision, or 1.  None
\* exists when that overflows.
IsNextRevision(n) ==
  /\ n - 1 \in Option(Published)
  /\ \A r \in Published : r < n

----------------------------------------------------------------------------
(* Writing a head *)

\* Mutant of NextEpoch: the epoch of the newest slot is used again.
SameEpoch(name) ==
  IF ValidSlots(name) = {} THEN 1 ELSE slot[name][NewestSlot(name)].epoch

NextEpoch(name) ==
  IF ValidSlots(name) = {} THEN 1 ELSE slot[name][NewestSlot(name)].epoch + 1

\* Mutant of TargetSlot: the newest slot is replaced, not the oldest.
NewestIsTarget(name) ==
  IF 0 \notin ValidSlots(name) THEN 0
  ELSE IF 1 \notin ValidSlots(name) THEN 1
  ELSE CHOOSE i \in Slot : \A j \in Slot : slot[name][j].epoch <= slot[name][i].epoch

TargetSlot(name) ==
  IF 0 \notin ValidSlots(name) THEN 0
  ELSE IF 1 \notin ValidSlots(name) THEN 1
  ELSE CHOOSE i \in Slot : \A j \in Slot : slot[name][i].epoch <= slot[name][j].epoch

\* Mutant of WriteHead: the epoch may overflow.
WriteHeadUnchecked(name, r) ==
  /\ HeadReadable(name)
  /\ slot' = [slot EXCEPT ![name][TargetSlot(name)] =
                [epoch |-> NextEpoch(name), revision |-> r]]

WriteHead(name, r) ==
  /\ HeadReadable(name)
  /\ NextEpoch(name) <= MaxU64
  /\ slot' = [slot EXCEPT ![name][TargetSlot(name)] =
                [epoch |-> NextEpoch(name), revision |-> r]]

----------------------------------------------------------------------------
(* The calls of a client *)

\* The locals of a client outside a call, in a commit, and in a rollback before
\* its commit.
NoCall == [cand |-> Empty, expected |-> 0, fresh |-> 0, target |-> 0, cursor |-> 0]
CommitCall(k, e, n) == [cand |-> k, expected |-> e, fresh |-> n, target |-> 0, cursor |-> 0]
RollbackCall(t, e) == [cand |-> Empty, expected |-> e, fresh |-> 0, target |-> t, cursor |-> e]

Init ==
  /\ lock = Free
  /\ slot = [n \in HeadName |-> [i \in Slot |-> Empty]]
  /\ gen = [r \in Revision |-> Empty]
  /\ rotten = {}
  /\ vault = [s \in Secret |-> Empty]
  /\ pc = [c \in Client |-> "idle"]
  /\ base = [c \in Client |-> 0]
  /\ call = [c \in Client |-> NoCall]
  /\ faults = 0

\* The call returns; the lock, if the client holds it, is dropped.
Finish(c) ==
  /\ lock' = IF lock = c THEN Free ELSE lock
  /\ pc' = [pc EXCEPT ![c] = "idle"]
  /\ call' = [call EXCEPT ![c] = NoCall]

LoadCurrent(c) ==
  /\ pc[c] = "idle"
  /\ lock = Free
  /\ HeadReadable("current")
  /\ base' = [base EXCEPT ![c] = HeadRevision("current")]
  /\ UNCHANGED <<lock, store, pc, call, faults>>

\* Mutants of SecretsAccepted: an existing secret is not compared with the
\* candidate's; or it is refused even when it is the same.
SecretsNotCompared(k) ==
  /\ DOMAIN k.supplied \subseteq k.needs
  /\ \A s \in k.needs \ DOMAIN k.supplied : vault[s] # Empty

SecretsMustBeNew(k) ==
  /\ DOMAIN k.supplied \subseteq k.needs
  /\ \A s \in DOMAIN k.supplied : vault[s] = Empty
  /\ \A s \in k.needs \ DOMAIN k.supplied : vault[s] # Empty

\* The checks write_pending_secrets makes before it writes anything.
SecretsAccepted(k) ==
  /\ DOMAIN k.supplied \subseteq k.needs
  /\ \A s \in DOMAIN k.supplied : vault[s] \in {Empty, k.supplied[s]}
  /\ \A s \in k.needs \ DOMAIN k.supplied : vault[s] # Empty

\* Mutant of CommitAccepted: the expected revision is not compared.
CommitWithoutCompare(k, expected) ==
  /\ lock = Free
  /\ HeadReadable("current")
  /\ expected \in Option(Revision)
  /\ \E n \in Revision : IsNextRevision(n)
  /\ SecretsAccepted(k)

\* commit up to the first rename: lock, compare-and-swap, revision, secrets.
CommitAccepted(k, expected) ==
  /\ lock = Free
  /\ HeadReadable("current")
  /\ HeadRevision("current") = expected
  /\ \E n \in Revision : IsNextRevision(n)
  /\ SecretsAccepted(k)

EnterCommit(c, k, expected) ==
  /\ CommitAccepted(k, expected)
  /\ lock' = c
  /\ pc' = [pc EXCEPT ![c] = "secrets"]
  /\ \E n \in Revision :
        /\ IsNextRevision(n)
        /\ call' = [call EXCEPT ![c] = CommitCall(k, expected, n)]
  /\ UNCHANGED <<store, base, faults>>

\* A refused commit of an idle client changes nothing and is a stuttering step.
BeginCommit(c) ==
  /\ pc[c] = "idle"
  /\ \E k \in Candidate : EnterCommit(c, k, base[c])

Unpublished(k) == {s \in DOMAIN k.supplied : vault[s] = Empty}

PublishSecret(c) ==
  /\ pc[c] = "secrets"
  /\ \E s \in Unpublished(call[c].cand) :
        vault' = [vault EXCEPT ![s] = call[c].cand.supplied[s]]
  /\ UNCHANGED <<lock, slot, gen, rotten, pc, base, call, faults>>

\* Mutant of VerifySecrets: the head is written before the generation.
HeadBeforeGeneration(c) ==
  /\ pc[c] = "secrets"
  /\ Unpublished(call[c].cand) = {}
  /\ pc' = [pc EXCEPT ![c] = "head"]
  /\ UNCHANGED <<lock, store, base, call, faults>>

\* verify_required_secrets
VerifySecrets(c) ==
  /\ pc[c] = "secrets"
  /\ Unpublished(call[c].cand) = {}
  /\ IF \A s \in call[c].cand.needs : vault[s] \in Value
     THEN pc' = [pc EXCEPT ![c] = "publish"] /\ UNCHANGED <<lock, call>>
     ELSE Finish(c)
  /\ UNCHANGED <<store, base, faults>>

PublishGeneration(c) ==
  /\ pc[c] = "publish"
  /\ gen' = [gen EXCEPT ![call[c].fresh] =
               [content |-> call[c].cand.content, needs |-> call[c].cand.needs,
                supplied |-> call[c].cand.supplied, parent |-> call[c].expected]]
  /\ pc' = [pc EXCEPT ![c] = "head"]
  /\ UNCHANGED <<lock, slot, rotten, vault, base, call, faults>>

CommitHead(c) ==
  /\ pc[c] = "head"
  /\ WriteHead("current", call[c].fresh)
  /\ base' = [base EXCEPT ![c] = call[c].fresh]
  /\ Finish(c)
  /\ UNCHANGED <<gen, rotten, vault, faults>>

\* write_head returns an error: the generation stays behind as an orphan.
CommitHeadFails(c) ==
  /\ pc[c] = "head"
  /\ ~ (HeadReadable("current") /\ NextEpoch("current") <= MaxU64)
  /\ Finish(c)
  /\ UNCHANGED <<store, base, faults>>

MarkLastKnownGood(c) ==
  /\ c \in Caretaker
  /\ pc[c] = "idle"
  /\ lock = Free
  /\ HeadReadable("current")
  /\ base[c] # 0
  /\ HeadRevision("current") = base[c]
  /\ WriteHead("last-known-good", base[c])
  /\ UNCHANGED <<lock, gen, rotten, vault, pc, base, call, faults>>

----------------------------------------------------------------------------
(* rollback: a chain of separately locked reads, then a commit *)

BeginRollback(c) ==
  /\ c \in Caretaker
  /\ pc[c] = "idle"
  /\ base[c] # 0
  /\ \E t \in Revision : call' = [call EXCEPT ![c] = RollbackCall(t, base[c])]
  /\ pc' = [pc EXCEPT ![c] = "walk"]
  /\ UNCHANGED <<lock, store, base, faults>>

\* One turn of is_ancestor_or_current.
AtTarget(c) == call[c].cursor = call[c].target
CanDescend(c) ==
  lock = Free /\ Readable(call[c].cursor) /\ gen[call[c].cursor].parent # 0

WalkParent(c) ==
  /\ pc[c] = "walk"
  /\ \/ /\ AtTarget(c)
        /\ pc' = [pc EXCEPT ![c] = "load"]
        /\ UNCHANGED <<lock, call>>
     \/ /\ ~ AtTarget(c) /\ CanDescend(c)
        /\ call' = [call EXCEPT ![c].cursor = gen[@].parent]
        /\ UNCHANGED <<lock, pc>>
     \/ ~ AtTarget(c) /\ ~ CanDescend(c) /\ Finish(c)
  /\ UNCHANGED <<store, base, faults>>

\* load_generation, then load_runtime_yaml: the same checks twice.
ReadTarget(c, from, to) ==
  /\ pc[c] = from
  /\ IF lock = Free /\ Readable(call[c].target)
     THEN pc' = [pc EXCEPT ![c] = to] /\ UNCHANGED <<lock, call>>
     ELSE Finish(c)
  /\ UNCHANGED <<store, base, faults>>

LoadTarget(c) == ReadTarget(c, "load", "yaml")
LoadTargetYaml(c) == ReadTarget(c, "yaml", "enter")

\* The rollback candidate is the target's state with no pending secret.
Restored(r) ==
  [content |-> gen[r].content, needs |-> gen[r].needs, supplied |-> [s \in {} |-> Empty]]

CommitRollback(c) ==
  /\ pc[c] = "enter"
  /\ EnterCommit(c, Restored(call[c].target), call[c].expected)

RollbackRefused(c) ==
  /\ pc[c] = "enter"
  /\ ~ CommitAccepted(Restored(call[c].target), call[c].expected)
  /\ Finish(c)
  /\ UNCHANGED <<store, base, faults>>

----------------------------------------------------------------------------
(* Crashes and media faults *)

\* The process dies; the operating system drops its file lock.
Crash(c) ==
  /\ Finish(c)
  /\ base' = [base EXCEPT ![c] = 0]
  /\ UNCHANGED <<store, faults>>

DamageSlot ==
  /\ \E n \in HeadName, i \in Slot :
        Intact(n, i) /\ slot' = [slot EXCEPT ![n][i] = Damaged]
  /\ UNCHANGED <<gen, rotten, vault>>

DamageGeneration ==
  /\ \E r \in Published \ rotten : rotten' = rotten \cup {r}
  /\ UNCHANGED <<slot, gen, vault>>

DamageSecret ==
  /\ \E s \in Secret : vault[s] \in Value /\ vault' = [vault EXCEPT ![s] = Damaged]
  /\ UNCHANGED <<slot, gen, rotten>>

Fault ==
  /\ faults < MaxFaults
  /\ faults' = faults + 1
  /\ DamageSlot \/ DamageGeneration \/ DamageSecret
  /\ UNCHANGED <<lock, pc, base, call>>

----------------------------------------------------------------------------
ClientStep(c) ==
  \/ LoadCurrent(c)
  \/ BeginCommit(c) \/ PublishSecret(c) \/ VerifySecrets(c)
  \/ PublishGeneration(c) \/ CommitHead(c) \/ CommitHeadFails(c)
  \/ MarkLastKnownGood(c)
  \/ BeginRollback(c) \/ WalkParent(c) \/ LoadTarget(c) \/ LoadTargetYaml(c)
  \/ CommitRollback(c) \/ RollbackRefused(c)
  \/ Crash(c)

Next == (\E c \in Client : ClientStep(c)) \/ Fault

Spec == Init /\ [][Next]_vars
----------------------------------------------------------------------------
(* Properties *)

CommitPhase == {"secrets", "publish", "head"}
RollbackPhase == {"walk", "load", "yaml", "enter"}
CallType ==
  [cand : CandidateType \cup {Empty}, expected : Option(Revision), fresh : Option(Revision),
   target : Option(Revision), cursor : Option(Revision)]

\* The files hold what their formats allow, and each client's locals fit the
\* call it is in.
TypeOK ==
  /\ lock \in Client \cup {Free}
  /\ slot \in [HeadName -> [Slot -> Pointer \cup {Empty, Damaged}]]
  /\ gen \in [Revision -> Generation \cup {Empty}]
  /\ rotten \subseteq Revision
  /\ vault \in [Secret -> Value \cup {Empty, Damaged}]
  /\ pc \in [Client -> CommitPhase \cup RollbackPhase \cup {"idle"}]
  /\ base \in [Client -> Option(Revision)]
  /\ call \in [Client -> CallType]
  /\ faults \in 0 .. MaxFaults
  /\ \A c \in Client :
        /\ pc[c] \in CommitPhase => call[c].fresh # 0 /\ call[c].cand # Empty
        /\ pc[c] \in RollbackPhase => call[c].target # 0 /\ call[c].cursor # 0
        /\ pc[c] \in {"yaml", "enter"} => gen[call[c].target] # Empty

\* Two slots never tie, and the current slot with the higher epoch holds the
\* later revision, whatever was damaged and whoever died: otherwise read_head
\* would answer GenerationCorrupt on an undamaged store, or go back to an old
\* revision (valid_head_slots, write_head).
HeadsOrdered ==
  \A n \in HeadName, i, j \in Slot :
    (i # j /\ Intact(n, i) /\ Intact(n, j)) =>
      /\ slot[n][i].epoch # slot[n][j].epoch
      /\ (n = "current" /\ slot[n][i].epoch < slot[n][j].epoch) =>
            slot[n][i].revision < slot[n][j].revision

\* An intact slot names a generation that was completely published before it:
\* no crash leaves a head that points into nothing (commit renames the
\* generation first and replaces the head last).
HeadsPointToGenerations ==
  \A n \in HeadName, i \in Slot :
    Intact(n, i) => slot[n][i].revision \in Published

\* While nothing is damaged, the slot that is not the head holds exactly the
\* head's parent: losing the newest slot costs one commit, never two
\* (write_head replaces the older slot; state_store.rs, "the newest slot is
\* damaged").
FallbackIsParent ==
  faults = 0 =>
    \A i, j \in Slot :
      (/\ Intact("current", i) /\ Intact("current", j)
       /\ slot["current"][i].epoch < slot["current"][j].epoch) =>
          gen[slot["current"][j].revision].parent = slot["current"][i].revision

\* Once two commits have filled both slots, one damaged slot or generation
\* never makes the store unreadable; a secret shared by both generations may.
OneFaultIsSurvived ==
  (/\ faults = 1
   /\ \A s \in Secret : vault[s] # Damaged
   /\ \A i \in Slot : slot["current"][i] # Empty) => HeadReadable("current")

\* A commit that renames its generation finds the directory free, even after
\* crashes that left orphans, and a published generation is never replaced.
GenerationsAreImmutable ==
  [][\A r \in Published : gen'[r] = gen[r]]_vars

\* Every generation keeps the secret values its own commit supplied, although
\* secrets are shared by generations and published one file at a time by
\* commits that may die in between.
SecretsAsSupplied ==
  \A r \in Published : \A s \in DOMAIN gen[r].supplied :
    vault[s] \in {gen[r].supplied[s], Damaged}

\* A commit that dies after publishing some of its secrets can be retried with
\* the same candidate: its own leftovers never make write_pending_secrets
\* refuse it (the comment at store.rs:462).
RetryIsAccepted ==
  \A c \in Client :
    (pc[c] \in CommitPhase /\ \A s \in Secret : vault[s] # Damaged) =>
      SecretsAccepted(call[c].cand)

\* No lost update: the head only moves to a child of the head it replaces, as
\* long as no fault removes that head; a commit built on anything else is
\* refused (the compare-and-swap at store.rs:196).
HeadExtendsHead ==
  [][(faults' = 0 /\ HeadRevision("current")' # HeadRevision("current")) =>
        gen'[HeadRevision("current")'].parent = HeadRevision("current")]_vars

\* A revision and all the revisions it descends from.
Ancestry ==
  LET A[r \in Option(Revision)] ==
        IF r = 0 \/ gen[r] = Empty THEN {}
        ELSE {r} \cup IF gen[r].parent < r THEN A[gen[r].parent] ELSE {}
  IN  A

\* Without faults the last known good revision stays in the ancestry of the
\* head, so a rollback to it passes is_ancestor_or_current.
LastKnownGoodIsAncestor ==
  faults = 0 =>
    HeadRevision("last-known-good")
      \in Ancestry[HeadRevision("current")] \cup {0}

----------------------------------------------------------------------------
(* The inductive invariant behind HeadsOrdered and GenerationsAreImmutable *)

\* The lock is held exactly by the client that is between the checks and the
\* end of a commit.
LockIsHeldByCommitter == \A c \in Client : lock = c <=> pc[c] \in CommitPhase

\* Generations descend from earlier ones.
ParentsAreEarlier ==
  \A r \in Published : gen[r].parent < r /\ gen[r].parent \in Option(Published)

\* The revision a commit reserved is above every published one until the commit
\* publishes it, and above every revision a current slot names after that.
FreshIsReserved ==
  \A c \in Client :
    /\ pc[c] \in {"secrets", "publish"} =>
          /\ \A r \in Published : r < call[c].fresh
          /\ call[c].expected \in Option(Published)
    /\ pc[c] = "head" =>
          /\ call[c].fresh \in Published
          /\ gen[call[c].fresh].parent = call[c].expected
          /\ \A r \in Published : r <= call[c].fresh
          /\ \A i \in Slot : Intact("current", i) => slot["current"][i].revision < call[c].fresh

StoreInvariant ==
  /\ TypeOK
  /\ LockIsHeldByCommitter
  /\ ParentsAreEarlier
  /\ FreshIsReserved
  /\ HeadsPointToGenerations
  /\ HeadsOrdered

----------------------------------------------------------------------------
(* The further invariant behind HeadExtendsHead *)

\* Until the medium does damage, every published generation is readable.
UndamagedFiles ==
  faults = 0 =>
    /\ rotten = {}
    /\ \A n \in HeadName, i \in Slot : slot[n][i] # Damaged
    /\ \A s \in Secret : vault[s] # Damaged
    /\ \A r \in Published, s \in Secret : s \in gen[r].needs => vault[s] # Empty
    /\ \A c \in Client : pc[c] = "publish" => \A s \in call[c].cand.needs : vault[s] # Empty

\* Until then the head a committer compared with is still the head when the
\* committer writes its own.
ExpectedIsHead ==
  faults = 0 =>
    \A c \in Client : pc[c] \in CommitPhase => HeadRevision("current") = call[c].expected

UndamagedStore == UndamagedFiles /\ ExpectedIsHead

----------------------------------------------------------------------------
(* The further invariants behind the properties of secrets and of one fault *)

\* A commit under way still finds its secrets as write_pending_secrets accepted
\* them, apart from damage, and no secret a generation needs goes away.
SecretsAreKept ==
  /\ \A c \in Client : pc[c] \in CommitPhase =>
        LET k == call[c].cand IN
          /\ DOMAIN k.supplied \subseteq k.needs
          /\ \A s \in DOMAIN k.supplied : vault[s] \in {Empty, k.supplied[s], Damaged}
          /\ \A s \in k.needs \ DOMAIN k.supplied : vault[s] # Empty
          /\ pc[c] = "publish" => \A s \in k.needs : vault[s] # Empty
  /\ \A r \in Published :
        /\ DOMAIN gen[r].supplied \subseteq gen[r].needs
        /\ \A s \in gen[r].needs : vault[s] # Empty

SecretInvariant == SecretsAreKept /\ SecretsAsSupplied

\* One fault damages one generation or one slot, unless it damages a secret.
OneFaultIsOneLoss ==
  (faults = 1 /\ \A s \in Secret : vault[s] # Damaged) =>
    LET lost == {i \in Slot : slot["current"][i] = Damaged}
    IN  \/ rotten = {} /\ lost # Slot
        \/ lost = {} /\ \A r, q \in rotten : r = q
============================================================================
