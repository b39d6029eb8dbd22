------------------------- MODULE StateStoreProofs -------------------------
(***************************************************************************)
(* Proofs about StateStore for any set of clients, secrets and candidates, *)
(* any u64::MAX and any number of crashes and media faults.                *)
(***************************************************************************)
EXTENDS StateStoreRefinement, FiniteSetTheorems, WellFoundedInduction, TLAPS

USE DEF Option, Slot, HeadName

\* Picking from a non-empty set of slots by epoch is well defined: the newest
\* slot of a name is one of its valid slots, with a pointer in it.
LEMMA NewestSlotIsValid ==
  ASSUME TypeOK, NEW n \in HeadName, ValidSlots(n) # {}
  PROVE  /\ NewestSlot(n) \in ValidSlots(n)
         /\ slot[n][NewestSlot(n)] \in Pointer
         /\ \A j \in ValidSlots(n) : slot[n][j].epoch <= slot[n][NewestSlot(n)].epoch
<1>1. \A i \in ValidSlots(n) : i \in Slot /\ slot[n][i] \in Pointer
  BY DEF TypeOK, ValidSlots, Intact
<1>2. \A i \in ValidSlots(n) : slot[n][i].epoch \in Int
  BY <1>1, StoreAssumption DEF Pointer, Revision
<1>3. \E i \in ValidSlots(n) : \A j \in ValidSlots(n) : slot[n][j].epoch <= slot[n][i].epoch
  <2>1. CASE 0 \in ValidSlots(n) /\ 1 \in ValidSlots(n)
    <3>1. \/ slot[n][0].epoch <= slot[n][1].epoch
          \/ slot[n][1].epoch <= slot[n][0].epoch
      BY <2>1, <1>2
    <3>2. ValidSlots(n) = {0, 1}
      BY <2>1, <1>1
    <3> QED
      BY <2>1, <1>2, <3>1, <3>2
  <2>2. CASE ~ (0 \in ValidSlots(n) /\ 1 \in ValidSlots(n))
    <3>1. PICK i \in ValidSlots(n) : TRUE
      OBVIOUS
    <3>2. ValidSlots(n) = {i}
      BY <2>2, <3>1, <1>1
    <3> QED
      BY <3>2, <1>2
  <2> QED
    BY <2>1, <2>2
<1> QED
  BY <1>1, <1>3 DEF NewestSlot

\* The slot write_head picks.
LEMMA TargetSlotIsSlot ==
  ASSUME TypeOK, NEW n \in HeadName
  PROVE  /\ TargetSlot(n) \in Slot
         /\ (0 \in ValidSlots(n) /\ 1 \in ValidSlots(n)) =>
              \A j \in Slot : slot[n][TargetSlot(n)].epoch <= slot[n][j].epoch
         /\ TargetSlot(n) \notin ValidSlots(n) \/ (0 \in ValidSlots(n) /\ 1 \in ValidSlots(n))
<1>1. CASE 0 \in ValidSlots(n) /\ 1 \in ValidSlots(n)
  <2>1. \A i \in Slot : slot[n][i].epoch \in Int
    BY <1>1, StoreAssumption DEF TypeOK, ValidSlots, Intact, Pointer, Revision
  <2>2. \E i \in Slot : \A j \in Slot : slot[n][i].epoch <= slot[n][j].epoch
    BY <2>1
  <2> QED
    BY <1>1, <2>2 DEF TargetSlot
<1>2. CASE ~ (0 \in ValidSlots(n) /\ 1 \in ValidSlots(n))
  BY <1>2 DEF TargetSlot
<1> QED
  BY <1>1, <1>2

\* A head written by write_head is a well-formed pointer.
LEMMA WriteHeadType ==
  ASSUME TypeOK, NEW n \in HeadName, NEW r \in Revision, WriteHead(n, r)
  PROVE  /\ NextEpoch(n) \in Revision
         /\ slot' \in [HeadName -> [Slot -> Pointer \cup {Empty, Damaged}]]
<1>1. NextEpoch(n) \in Revision
  <2>1. NextEpoch(n) \in Nat /\ NextEpoch(n) >= 1
    BY NewestSlotIsValid, StoreAssumption DEF NextEpoch, Pointer, Revision
  <2> QED
    BY <2>1, StoreAssumption DEF WriteHead, Revision
<1> QED
  BY <1>1, TargetSlotIsSlot DEF WriteHead, TypeOK, Pointer

\* The revision read_head reports.
LEMMA HeadRevisionType ==
  ASSUME TypeOK, NEW n \in HeadName
  PROVE  HeadRevision(n) \in Option(Revision)
BY NewestSlotIsValid DEF HeadRevision, Pointer

\* The locals of a client outside a call are well typed.
LEMMA NoCallType == NoCall \in CallType
BY DEF NoCall, CallType

\* The files always hold what their formats allow.
LEMMA TypeInit == Init => TypeOK
BY NoCallType, StoreAssumption DEF Init, TypeOK, CommitPhase, RollbackPhase

\* A returning call leaves well-typed locals behind.
LEMMA FinishType ==
  ASSUME TypeOK, NEW c \in Client, Finish(c), UNCHANGED gen
  PROVE  /\ lock' \in Client \cup {Free}
         /\ pc' \in [Client -> CommitPhase \cup RollbackPhase \cup {"idle"}]
         /\ call' \in [Client -> CallType]
         /\ \A d \in Client :
              /\ pc'[d] \in CommitPhase => call'[d].fresh # 0 /\ call'[d].cand # Empty
              /\ pc'[d] \in RollbackPhase => call'[d].target # 0 /\ call'[d].cursor # 0
              /\ pc'[d] \in {"yaml", "enter"} => gen'[call'[d].target] # Empty
BY NoCallType DEF Finish, TypeOK, CommitPhase, RollbackPhase

\* A commit that passed its checks enters with well-typed locals.
LEMMA EnterCommitType ==
  ASSUME TypeOK, NEW c \in Client, NEW k \in CandidateType, NEW e \in Option(Revision),
         EnterCommit(c, k, e)
  PROVE  TypeOK'
<1>1. k # Empty
  BY StoreAssumption
<1>2. \A n \in Revision : CommitCall(k, e, n) \in CallType
  BY DEF CommitCall, CallType, Revision
<1> QED
  BY <1>1, <1>2 DEF EnterCommit, TypeOK, CommitCall, CommitPhase, RollbackPhase, store, Revision

\* Files, locks and locals always hold what their formats and calls allow.
THEOREM TypeCorrect == Spec => []TypeOK
<1>1. TypeOK /\ [Next]_vars => TypeOK'
  <2> SUFFICES ASSUME TypeOK, [Next]_vars PROVE TypeOK'
    OBVIOUS
  <2>1. ASSUME NEW c \in Client, ClientStep(c) PROVE TypeOK'
    <3>1. CASE LoadCurrent(c)
      BY <3>1, HeadRevisionType DEF LoadCurrent, TypeOK, store
    <3>2. CASE BeginCommit(c)
      BY <3>2, EnterCommitType, StoreAssumption DEF BeginCommit, TypeOK
    <3>3. CASE PublishSecret(c)
      BY <3>3 DEF PublishSecret, TypeOK, Unpublished, CallType, CandidateType, Supply, CommitPhase
    <3>4. CASE VerifySecrets(c)
      <4>1. CASE Finish(c)
        BY <3>4, <4>1, FinishType DEF VerifySecrets, TypeOK, store
      <4>2. CASE ~ Finish(c)
        BY <3>4, <4>2 DEF VerifySecrets, TypeOK, store, CommitPhase, RollbackPhase
      <4> QED
        BY <4>1, <4>2
    <3>5. CASE PublishGeneration(c)
      <4>1. /\ call[c].fresh \in Revision
            /\ call[c].cand \in CandidateType /\ call[c].expected \in Option(Revision)
        BY <3>5 DEF PublishGeneration, TypeOK, CallType, CommitPhase
      <4> DEFINE g == [content |-> call[c].cand.content, needs |-> call[c].cand.needs,
                       supplied |-> call[c].cand.supplied, parent |-> call[c].expected]
      <4>2. g \in Generation /\ g # Empty
        BY <4>1, StoreAssumption DEF CandidateType, Generation
      <4>3. gen' = [gen EXCEPT ![call[c].fresh] = g]
        BY <3>5 DEF PublishGeneration
      <4>4. \A r \in Revision : gen[r] # Empty => gen'[r] # Empty
        BY <4>2, <4>3 DEF TypeOK
      <4>5. gen' \in [Revision -> Generation \cup {Empty}]
        BY <4>2, <4>3 DEF TypeOK
      <4> HIDE DEF g
      <4> QED
        BY <3>5, <4>4, <4>5 DEF PublishGeneration, TypeOK, CallType, CommitPhase, RollbackPhase
    <3>6. CASE CommitHead(c)
      <4>1. call[c].fresh \in Revision
        BY <3>6 DEF CommitHead, TypeOK, CallType, CommitPhase
      <4> QED
        BY <3>6, <4>1, FinishType, WriteHeadType DEF CommitHead, TypeOK
    <3>7. CASE CommitHeadFails(c)
      BY <3>7, FinishType DEF CommitHeadFails, TypeOK, store
    <3>8. CASE MarkLastKnownGood(c)
      <4>1. base[c] \in Revision
        BY <3>8 DEF MarkLastKnownGood, TypeOK
      <4> QED
        BY <3>8, <4>1, WriteHeadType DEF MarkLastKnownGood, TypeOK
    <3>9. CASE BeginRollback(c)
      <4>1. base[c] \in Revision /\ \A t \in Revision : RollbackCall(t, base[c]) \in CallType
        BY <3>9 DEF BeginRollback, TypeOK, RollbackCall, CallType, Revision
      <4> QED
        BY <3>9, <4>1
           DEF BeginRollback, RollbackCall, TypeOK, store, CommitPhase, RollbackPhase, Revision
    <3>10. CASE WalkParent(c)
      <4>1. CASE Finish(c)
        BY <3>10, <4>1, FinishType DEF WalkParent, TypeOK, store
      <4>2. CASE AtTarget(c) /\ pc' = [pc EXCEPT ![c] = "load"] /\ UNCHANGED <<lock, call>>
        BY <3>10, <4>2 DEF WalkParent, TypeOK, store, CommitPhase, RollbackPhase
      <4>3. CASE /\ CanDescend(c)
                 /\ call' = [call EXCEPT ![c].cursor = gen[@].parent]
                 /\ UNCHANGED <<lock, pc>>
        <5>1. gen[call[c].cursor].parent \in Revision
          BY <4>3 DEF CanDescend, Readable, Published, TypeOK, Generation
        <5>2. call[c] \in CallType
          BY DEF TypeOK
        <5>3. [call[c] EXCEPT !.cursor = gen[call[c].cursor].parent] \in CallType
          BY <5>1, <5>2 DEF CallType
        <5>4. call' = [call EXCEPT ![c] = [call[c] EXCEPT !.cursor = gen[call[c].cursor].parent]]
          BY <4>3, <5>2 DEF TypeOK
        <5> QED
          BY <3>10, <4>3, <5>1, <5>2, <5>3, <5>4
             DEF WalkParent, TypeOK, store, CallType, CommitPhase, RollbackPhase, Revision
      <4> QED
        BY <3>10, <4>1, <4>2, <4>3 DEF WalkParent
    <3>11. ASSUME NEW from \in RollbackPhase, NEW to \in RollbackPhase, ReadTarget(c, from, to)
           PROVE  TypeOK'
      <4>1. CASE Finish(c)
        BY <3>11, <4>1, FinishType DEF ReadTarget, TypeOK, store
      <4>2. CASE ~ Finish(c)
        BY <3>11, <4>2 DEF ReadTarget, Readable, Published, TypeOK, store, CommitPhase, RollbackPhase
      <4> QED
        BY <4>1, <4>2
    <3>12. CASE CommitRollback(c)
      <4>1. call[c].target \in Revision /\ call[c].expected \in Option(Revision)
        BY <3>12 DEF CommitRollback, TypeOK, CallType, RollbackPhase
      <4>2. gen[call[c].target] \in Generation
        BY <3>12, <4>1 DEF CommitRollback, TypeOK
      <4>3. [s \in {} |-> Empty] \in Supply
        BY DEF Supply
      <4>4. Restored(call[c].target) \in CandidateType
        BY <4>2, <4>3 DEF Restored, Generation, CandidateType
      <4> QED
        BY <3>12, <4>1, <4>4, EnterCommitType DEF CommitRollback
    <3>13. CASE RollbackRefused(c)
      BY <3>13, FinishType DEF RollbackRefused, TypeOK, store
    <3>14. CASE Crash(c)
      BY <3>14, FinishType DEF Crash, TypeOK, store
    <3> QED
      BY <2>1, <3>1, <3>2, <3>3, <3>4, <3>5, <3>6, <3>7, <3>8, <3>9, <3>10, <3>11, <3>12,
         <3>13, <3>14 DEF ClientStep, LoadTarget, LoadTargetYaml, RollbackPhase
  <2>2. CASE Fault
    BY <2>2, StoreAssumption
       DEF Fault, DamageSlot, DamageGeneration, DamageSecret, Published, TypeOK
  <2>3. CASE UNCHANGED vars
    BY <2>3 DEF vars, TypeOK
  <2> QED
    BY <2>1, <2>2, <2>3 DEF Next
<1> QED
  BY <1>1, TypeInit, PTL DEF Spec

----------------------------------------------------------------------------
(* The inductive invariant *)

\* An intact slot that write_head does not replace is a valid one, so its epoch
\* is below the new one.
LEMMA OtherSlotIsOlder ==
  ASSUME TypeOK, NEW n \in HeadName, HeadReadable(n), NEW i \in Slot, i # TargetSlot(n),
         Intact(n, i)
  PROVE  /\ i \in ValidSlots(n)
         /\ slot[n][i].epoch < NextEpoch(n)
<1>1. i \in ValidSlots(n)
  <2>1. ValidSlots(n) # {}
    BY DEF HeadReadable, Intact
  <2>2. ValidSlots(n) \subseteq {0, 1}
    BY DEF ValidSlots
  <2>3. CASE 0 \notin ValidSlots(n)
    BY <2>1, <2>2, <2>3 DEF TargetSlot
  <2>4. CASE 1 \notin ValidSlots(n)
    BY <2>1, <2>2, <2>4 DEF TargetSlot
  <2> QED
    BY <2>3, <2>4
<1>2. slot[n][i].epoch \in Int /\ slot[n][NewestSlot(n)].epoch \in Int
  BY <1>1, NewestSlotIsValid, StoreAssumption DEF TypeOK, ValidSlots, Intact, Pointer, Revision
<1> QED
  BY <1>1, <1>2, NewestSlotIsValid DEF NextEpoch

\* write_head keeps the slots ordered when the revision it writes is above
\* those the slots name.
LEMMA WriteHeadKeepsOrder ==
  ASSUME TypeOK, HeadsOrdered, HeadsPointToGenerations, UNCHANGED gen,
         NEW n \in HeadName, NEW r \in Published, WriteHead(n, r),
         n = "current" => \A i \in Slot : Intact(n, i) => slot[n][i].revision < r
  PROVE  HeadsOrdered' /\ HeadsPointToGenerations'
<1> DEFINE T == TargetSlot(n)
<1> DEFINE new == [epoch |-> NextEpoch(n), revision |-> r]
<1>1. T \in Slot
  BY TargetSlotIsSlot
<1>2. /\ slot'[n][T] = new
      /\ \A i \in Slot : i # T => slot'[n][i] = slot[n][i]
      /\ \A m \in HeadName : m # n => slot'[m] = slot[m]
  BY <1>1 DEF WriteHead, TypeOK
<1>3. \A i \in Slot : (i # T /\ Intact(n, i)) => slot[n][i].epoch < NextEpoch(n)
  BY OtherSlotIsOlder DEF WriteHead
<1>4. \A i \in Slot : Intact(n, i) => slot[n][i].epoch \in Int /\ slot[n][i].revision \in Int
  BY StoreAssumption DEF TypeOK, Intact, Pointer, Revision
<1>5. NextEpoch(n) \in Int /\ r \in Int /\ r \in Revision
  BY WriteHeadType, StoreAssumption DEF Published, Revision
<1>6. HeadsPointToGenerations'
  BY <1>1, <1>2 DEF HeadsPointToGenerations, Intact, Published
<1>7. ASSUME NEW m \in HeadName, NEW i \in Slot, NEW j \in Slot,
             i # j, Intact(m, i)', Intact(m, j)'
      PROVE  /\ slot'[m][i].epoch # slot'[m][j].epoch
             /\ (m = "current" /\ slot'[m][i].epoch < slot'[m][j].epoch) =>
                   slot'[m][i].revision < slot'[m][j].revision
  <2>1. CASE m # n
    BY <1>2, <1>7, <2>1 DEF HeadsOrdered, Intact
  <2>2. CASE m = n /\ i = T
    <3>1. Intact(n, j) /\ slot'[n][j] = slot[n][j]
      BY <1>2, <1>7, <2>2 DEF Intact
    <3> QED
      BY <1>2, <1>3, <1>4, <1>5, <1>7, <2>2, <3>1
  <2>3. CASE m = n /\ j = T
    <3>1. Intact(n, i) /\ slot'[n][i] = slot[n][i]
      BY <1>2, <1>7, <2>3 DEF Intact
    <3> QED
      BY <1>2, <1>3, <1>4, <1>5, <1>7, <2>3, <3>1
  <2>4. CASE m = n /\ i # T /\ j # T
    BY <1>1, <1>7, <2>4
  <2> QED
    BY <2>1, <2>2, <2>3, <2>4
<1>8. HeadsOrdered'
  BY <1>7 DEF HeadsOrdered, Intact
<1> QED
  BY <1>6, <1>8

\* A step that leaves slots and generations alone keeps what is said of them.
LEMMA StableFiles ==
  ASSUME UNCHANGED <<slot, gen>>
  PROVE  /\ ParentsAreEarlier => ParentsAreEarlier'
         /\ HeadsPointToGenerations => HeadsPointToGenerations'
         /\ HeadsOrdered => HeadsOrdered'
BY DEF ParentsAreEarlier, HeadsPointToGenerations, HeadsOrdered, Intact, Published

\* ... and what is said of clients that stay where they are or leave a call.
LEMMA ReturningClient ==
  ASSUME StoreInvariant, UNCHANGED <<slot, gen>>, NEW c \in Client, Finish(c)
  PROVE  LockIsHeldByCommitter' /\ FreshIsReserved'
<1>1. \A d \in Client : pc'[d] \in CommitPhase => d # c /\ pc'[d] = pc[d] /\ call'[d] = call[d]
  BY DEF Finish, StoreInvariant, TypeOK, CommitPhase
<1>2. FreshIsReserved'
  BY <1>1 DEF StoreInvariant, FreshIsReserved, Published, Intact, CommitPhase
<1>3. LockIsHeldByCommitter'
  BY StoreAssumption
     DEF Finish, StoreInvariant, TypeOK, LockIsHeldByCommitter, CommitPhase
<1> QED
  BY <1>2, <1>3

\* ... and of a client that moves on without taking or dropping the lock.
LEMMA MovingClient ==
  ASSUME StoreInvariant, UNCHANGED <<slot, gen, lock>>, NEW c \in Client, NEW to,
         pc' = [pc EXCEPT ![c] = to],
         pc[c] \notin CommitPhase, to \notin CommitPhase,
         \A d \in Client : d # c => call'[d] = call[d]
  PROVE  LockIsHeldByCommitter' /\ FreshIsReserved'
<1>1. \A d \in Client : pc'[d] \in CommitPhase => d # c /\ pc'[d] = pc[d] /\ call'[d] = call[d]
  BY DEF StoreInvariant, TypeOK
<1>2. FreshIsReserved'
  BY <1>1 DEF StoreInvariant, FreshIsReserved, Published, Intact, CommitPhase
<1>3. LockIsHeldByCommitter'
  BY DEF StoreInvariant, TypeOK, LockIsHeldByCommitter
<1> QED
  BY <1>2, <1>3

\* The lock is free when a commit enters, so nobody else is in one.
LEMMA EnteringClient ==
  ASSUME StoreInvariant, NEW c \in Client, NEW k, NEW e, EnterCommit(c, k, e)
  PROVE  LockIsHeldByCommitter' /\ FreshIsReserved'
<1>1. lock = Free /\ HeadReadable("current") /\ HeadRevision("current") = e
  BY DEF EnterCommit, CommitAccepted
<1>2. \A d \in Client : pc[d] \notin CommitPhase
  BY <1>1, StoreAssumption DEF StoreInvariant, LockIsHeldByCommitter
<1>3. e \in Option(Published)
  BY <1>1, NewestSlotIsValid
     DEF HeadRevision, StoreInvariant, HeadsPointToGenerations, ValidSlots
<1>4. PICK n \in Revision :
        /\ \A r \in Published : r < n
        /\ call' = [call EXCEPT ![c] = CommitCall(k, e, n)]
  BY DEF EnterCommit, IsNextRevision
<1>5. call'[c].fresh = n /\ call'[c].expected = e
  BY <1>4 DEF StoreInvariant, TypeOK, CommitCall
<1>6. UNCHANGED <<slot, gen>> /\ pc' = [pc EXCEPT ![c] = "secrets"] /\ lock' = c
  BY DEF EnterCommit, store
<1>7. \A d \in Client : pc'[d] \in CommitPhase => d = c /\ pc'[d] = "secrets"
  BY <1>2, <1>6 DEF StoreInvariant, TypeOK
<1>8. FreshIsReserved'
  BY <1>3, <1>4, <1>5, <1>6, <1>7 DEF FreshIsReserved, Published, CommitPhase
<1>9. LockIsHeldByCommitter'
  BY <1>2, <1>6, <1>7 DEF LockIsHeldByCommitter, CommitPhase, StoreInvariant, TypeOK
<1> QED
  BY <1>8, <1>9

\* The rename of a generation directory: the new directory is above all others.
LEMMA PublishingClient ==
  ASSUME StoreInvariant, NEW c \in Client, PublishGeneration(c)
  PROVE  /\ Published' = Published \cup {call[c].fresh}
         /\ call[c].fresh \notin Published
         /\ \A r \in Published : gen'[r] = gen[r]
         /\ gen'[call[c].fresh].parent = call[c].expected
<1>1. call[c].fresh \in Revision
  BY DEF PublishGeneration, StoreInvariant, TypeOK, CallType, CommitPhase
<1>2. \A r \in Published : r < call[c].fresh
  BY DEF PublishGeneration, StoreInvariant, FreshIsReserved
<1>3. call[c].fresh \notin Published
  BY <1>1, <1>2, StoreAssumption DEF Revision
<1>4. call[c].cand \in CandidateType /\ call[c].expected \in Option(Revision)
  BY DEF PublishGeneration, StoreInvariant, TypeOK, CallType, CommitPhase
<1> DEFINE g == [content |-> call[c].cand.content, needs |-> call[c].cand.needs,
                 supplied |-> call[c].cand.supplied, parent |-> call[c].expected]
<1>5. g \in Generation
  BY <1>4 DEF CandidateType, Generation
<1>6. g # Empty
  BY <1>5, StoreAssumption
<1>7. gen' = [gen EXCEPT ![call[c].fresh] = g]
  BY DEF PublishGeneration
<1>8. gen'[call[c].fresh] = g /\ \A r \in Revision : r # call[c].fresh => gen'[r] = gen[r]
  BY <1>1, <1>7 DEF StoreInvariant, TypeOK
<1>9. Published' = Published \cup {call[c].fresh}
  BY <1>1, <1>6, <1>8 DEF Published
<1> QED
  BY <1>3, <1>8, <1>9 DEF Published

\* The empty store satisfies the store invariant.
LEMMA StoreInit == Init => StoreInvariant
<1> SUFFICES ASSUME Init PROVE StoreInvariant
  OBVIOUS
<1>1. TypeOK
  BY TypeInit
<1>2. Published = {} /\ \A n \in HeadName, i \in Slot : ~ Intact(n, i)
  BY DEF Init, Published, Intact
<1>3. \A c \in Client : pc[c] = "idle" /\ lock # c
  BY StoreAssumption DEF Init
<1> QED
  BY <1>1, <1>2, <1>3
     DEF StoreInvariant, LockIsHeldByCommitter, ParentsAreEarlier, FreshIsReserved,
         HeadsPointToGenerations, HeadsOrdered, CommitPhase

\* No step of a client, crash or media fault breaks the store invariant.
LEMMA StoreStep == StoreInvariant /\ TypeOK' /\ [Next]_vars => StoreInvariant'
<1> SUFFICES ASSUME StoreInvariant, TypeOK', [Next]_vars PROVE StoreInvariant'
  OBVIOUS
<1> USE DEF StoreInvariant
<1>1. ASSUME NEW c \in Client, ClientStep(c) PROVE StoreInvariant'
  <2>1. CASE LoadCurrent(c)
    BY <2>1, StableFiles
       DEF LoadCurrent, store, LockIsHeldByCommitter, FreshIsReserved, Published, Intact
  <2>2. CASE BeginCommit(c)
    <3>1. PICK k \in Candidate : EnterCommit(c, k, base[c])
      BY <2>2 DEF BeginCommit
    <3>2. LockIsHeldByCommitter' /\ FreshIsReserved'
      BY <3>1, EnteringClient
    <3> QED
      BY <3>1, <3>2, StableFiles DEF EnterCommit, store
  <2>3. CASE PublishSecret(c)
    BY <2>3, StableFiles
       DEF PublishSecret, LockIsHeldByCommitter, FreshIsReserved, Published, Intact
  <2>4. CASE VerifySecrets(c)
    <3>1. CASE Finish(c)
      BY <2>4, <3>1, StableFiles, ReturningClient DEF VerifySecrets, store
    <3>2. CASE pc' = [pc EXCEPT ![c] = "publish"] /\ UNCHANGED <<lock, call>>
      <4>1. FreshIsReserved'
        BY <2>4, <3>2
           DEF VerifySecrets, store, TypeOK, FreshIsReserved, Published, Intact, CommitPhase
      <4>2. LockIsHeldByCommitter'
        BY <2>4, <3>2 DEF VerifySecrets, TypeOK, LockIsHeldByCommitter, CommitPhase
      <4> QED
        BY <2>4, <4>1, <4>2, StableFiles DEF VerifySecrets, store
    <3> QED
      BY <2>4, <3>1, <3>2 DEF VerifySecrets
  <2>5. CASE PublishGeneration(c)
    <3> DEFINE f == call[c].fresh
    <3>1. /\ Published' = Published \cup {f}
          /\ f \notin Published
          /\ \A r \in Published : gen'[r] = gen[r]
          /\ gen'[f].parent = call[c].expected
      BY <2>5, PublishingClient
    <3>2. /\ pc[c] = "publish"
          /\ pc' = [pc EXCEPT ![c] = "head"]
          /\ UNCHANGED <<lock, slot, call>>
      BY <2>5 DEF PublishGeneration
    <3>3. \A r \in Published : r < f
      BY <3>2 DEF FreshIsReserved
    <3>4. call[c].expected \in Option(Published) /\ f \in Revision
      BY <3>2 DEF FreshIsReserved, TypeOK, CallType, CommitPhase
    <3>5. \A r \in Option(Published) : r < f
      BY <3>3, <3>4, StoreAssumption DEF Revision
    <3>6. ParentsAreEarlier'
      BY <3>1, <3>4, <3>5 DEF ParentsAreEarlier
    <3>7. LockIsHeldByCommitter'
      BY <3>2 DEF TypeOK, LockIsHeldByCommitter, CommitPhase
    <3>8. \A d \in Client : pc'[d] \in CommitPhase => d = c
      BY <3>2 DEF TypeOK, LockIsHeldByCommitter, CommitPhase
    <3>9. \A i \in Slot : Intact("current", i) => slot["current"][i].revision < f
      BY <3>3 DEF HeadsPointToGenerations
    <3>10. FreshIsReserved'
      <4>1. \A r \in Published' : r <= f
        BY <3>1, <3>3, <3>4, StoreAssumption DEF Revision, Published
      <4>2. \A d \in Client : pc'[d] \in CommitPhase => d = c /\ pc'[d] = "head"
        BY <3>2, <3>8 DEF TypeOK
      <4> QED
        BY <3>1, <3>2, <3>9, <4>1, <4>2 DEF FreshIsReserved, Intact, CommitPhase
    <3>11. HeadsPointToGenerations' /\ HeadsOrdered'
      BY <3>1, <3>2 DEF HeadsPointToGenerations, HeadsOrdered, Intact
    <3> QED
      BY <3>6, <3>7, <3>10, <3>11
  <2>6. CASE CommitHead(c)
    <3>1. /\ call[c].fresh \in Published
          /\ \A i \in Slot : Intact("current", i) => slot["current"][i].revision < call[c].fresh
      BY <2>6 DEF CommitHead, FreshIsReserved
    <3>2. UNCHANGED gen /\ WriteHead("current", call[c].fresh) /\ Finish(c)
      BY <2>6 DEF CommitHead
    <3>3. HeadsOrdered' /\ HeadsPointToGenerations'
      BY <3>1, <3>2, WriteHeadKeepsOrder
    <3>4. ParentsAreEarlier'
      BY <3>2 DEF ParentsAreEarlier, Published
    <3>5. \A d \in Client : pc'[d] \notin CommitPhase
      BY <2>6, <3>2 DEF CommitHead, Finish, TypeOK, LockIsHeldByCommitter, CommitPhase
    <3>6. FreshIsReserved'
      BY <3>5 DEF FreshIsReserved, CommitPhase
    <3>7. lock' = Free
      BY <2>6, <3>2 DEF CommitHead, Finish, LockIsHeldByCommitter, CommitPhase
    <3>8. LockIsHeldByCommitter'
      BY <3>5, <3>7, StoreAssumption DEF LockIsHeldByCommitter
    <3> QED
      BY <3>3, <3>4, <3>6, <3>8
  <2>7. CASE CommitHeadFails(c)
    BY <2>7, StableFiles, ReturningClient DEF CommitHeadFails, store
  <2>8. CASE MarkLastKnownGood(c)
    <3>1. UNCHANGED <<gen, lock, pc, call>> /\ WriteHead("last-known-good", base[c])
      BY <2>8 DEF MarkLastKnownGood
    <3>2. base[c] \in Published
      BY <2>8, NewestSlotIsValid
         DEF MarkLastKnownGood, HeadRevision, HeadsPointToGenerations, ValidSlots
    <3>3. HeadsOrdered' /\ HeadsPointToGenerations'
      BY <3>1, <3>2, WriteHeadKeepsOrder
    <3>4. slot'["current"] = slot["current"]
      BY <3>1 DEF WriteHead, TypeOK
    <3>5. FreshIsReserved'
      BY <3>1, <3>4 DEF FreshIsReserved, Published, Intact
    <3>6. LockIsHeldByCommitter' /\ ParentsAreEarlier'
      BY <3>1 DEF LockIsHeldByCommitter, ParentsAreEarlier, Published
    <3> QED
      BY <3>3, <3>5, <3>6
  <2>9. CASE BeginRollback(c)
    <3>1. /\ pc[c] = "idle" /\ pc' = [pc EXCEPT ![c] = "walk"]
          /\ UNCHANGED <<slot, gen, lock>>
          /\ \A d \in Client : d # c => call'[d] = call[d]
      BY <2>9 DEF BeginRollback, store, TypeOK
    <3> QED
      BY <3>1, StableFiles, MovingClient DEF CommitPhase
  <2>10. CASE WalkParent(c)
    <3>1. CASE Finish(c)
      BY <2>10, <3>1, StableFiles, ReturningClient DEF WalkParent, store
    <3>2. CASE pc' = [pc EXCEPT ![c] = "load"] /\ UNCHANGED <<lock, call>>
      <4>1. UNCHANGED <<slot, gen, lock>> /\ pc[c] = "walk"
        BY <2>10, <3>2 DEF WalkParent, store
      <4> QED
        BY <3>2, <4>1, StableFiles, MovingClient DEF CommitPhase
    <3>3. CASE /\ call' = [call EXCEPT ![c].cursor = gen[@].parent]
               /\ UNCHANGED <<lock, pc>>
      <4>1. UNCHANGED <<slot, gen, lock>> /\ pc[c] = "walk" /\ pc' = [pc EXCEPT ![c] = "walk"]
        BY <2>10, <3>3 DEF WalkParent, store, TypeOK
      <4>2. \A d \in Client : d # c => call'[d] = call[d]
        BY <3>3 DEF TypeOK
      <4> QED
        BY <4>1, <4>2, StableFiles, MovingClient DEF CommitPhase
    <3> QED
      BY <2>10, <3>1, <3>2, <3>3 DEF WalkParent
  <2>11. ASSUME NEW from \in RollbackPhase, NEW to \in RollbackPhase, ReadTarget(c, from, to)
         PROVE  StoreInvariant'
    <3>1. CASE Finish(c)
      BY <2>11, <3>1, StableFiles, ReturningClient DEF ReadTarget, store
    <3>2. CASE pc' = [pc EXCEPT ![c] = to] /\ UNCHANGED <<lock, call>>
      <4>1. /\ UNCHANGED <<slot, gen, lock>>
            /\ pc[c] \notin CommitPhase /\ to \notin CommitPhase
        BY <2>11, <3>2 DEF ReadTarget, store, CommitPhase, RollbackPhase
      <4> QED
        BY <3>2, <4>1, StableFiles, MovingClient
    <3> QED
      BY <2>11, <3>1, <3>2 DEF ReadTarget
  <2>12. CASE CommitRollback(c)
    BY <2>12, StableFiles, EnteringClient DEF CommitRollback, EnterCommit, store
  <2>13. CASE RollbackRefused(c)
    BY <2>13, StableFiles, ReturningClient DEF RollbackRefused, store
  <2>14. CASE Crash(c)
    BY <2>14, StableFiles, ReturningClient DEF Crash, store
  <2> QED
    BY <1>1, <2>1, <2>2, <2>3, <2>4, <2>5, <2>6, <2>7, <2>8, <2>9, <2>10, <2>11, <2>12,
       <2>13, <2>14 DEF ClientStep, LoadTarget, LoadTargetYaml, RollbackPhase
<1>2. CASE Fault
  <2>1. UNCHANGED <<lock, pc, call, gen>>
    BY <1>2 DEF Fault, DamageSlot, DamageGeneration, DamageSecret
  <2>2. \A n \in HeadName, i \in Slot :
          Intact(n, i)' => Intact(n, i) /\ slot'[n][i] = slot[n][i]
    BY <1>2 DEF Fault, DamageSlot, DamageGeneration, DamageSecret, TypeOK, Intact
  <2>3. HeadsPointToGenerations'
    BY <2>1, <2>2 DEF HeadsPointToGenerations, Published
  <2>4. HeadsOrdered'
    BY <2>2 DEF HeadsOrdered
  <2>5. FreshIsReserved'
    BY <2>1, <2>2 DEF FreshIsReserved, Published
  <2>6. LockIsHeldByCommitter' /\ ParentsAreEarlier'
    BY <2>1 DEF LockIsHeldByCommitter, ParentsAreEarlier, Published
  <2> QED
    BY <2>3, <2>4, <2>5, <2>6
<1>3. CASE UNCHANGED vars
  BY <1>3, StableFiles
     DEF vars, LockIsHeldByCommitter, FreshIsReserved, Published, Intact
<1> QED
  BY <1>1, <1>2, <1>3 DEF Next

\* The invariant that explains the store: one committer at a time, whose
\* revision is above everything anyone has ever published.
THEOREM StoreInvariantHolds == Spec => []StoreInvariant
<1>1. Init => StoreInvariant
  BY StoreInit
<1>2. StoreInvariant /\ TypeOK' /\ [Next]_vars => StoreInvariant'
  BY StoreStep
<1> QED
  BY <1>1, <1>2, TypeCorrect, PTL DEF Spec

\* read_head always has a unique newest slot: the two slots of a head never tie
\* and the current ones are in the order of their revisions.
THEOREM HeadsAreOrdered == Spec => []HeadsOrdered
<1>1. StoreInvariant => HeadsOrdered
  BY DEF StoreInvariant
<1> QED
  BY <1>1, StoreInvariantHolds, PTL

\* No crash leaves a head that points to a generation that is not there.
THEOREM HeadsNameGenerations == Spec => []HeadsPointToGenerations
<1>1. StoreInvariant => HeadsPointToGenerations
  BY DEF StoreInvariant
<1> QED
  BY <1>1, StoreInvariantHolds, PTL

\* Once published, a generation stays as it is.
LEMMA PublishedStays ==
  ASSUME StoreInvariant, [Next]_vars, NEW r \in Published
  PROVE  gen'[r] = gen[r]
<1>1. ASSUME NEW c \in Client, ClientStep(c) PROVE gen'[r] = gen[r]
  <2>1. CASE PublishGeneration(c)
    BY <2>1, PublishingClient
  <2>2. CASE ~ PublishGeneration(c)
    BY <1>1, <2>2 DEF ClientStep, LoadCurrent, BeginCommit, EnterCommit, PublishSecret,
       VerifySecrets, CommitHead, CommitHeadFails, MarkLastKnownGood, BeginRollback, WalkParent,
       LoadTarget, LoadTargetYaml, ReadTarget, CommitRollback, RollbackRefused, Crash, store
  <2> QED
    BY <2>1, <2>2
<1>2. CASE Fault
  BY <1>2 DEF Fault, DamageSlot, DamageGeneration, DamageSecret
<1> QED
  BY <1>1, <1>2 DEF Next, vars

\* The rename of a generation never meets an existing directory, so a published
\* generation keeps its contents for ever.
THEOREM GenerationsNeverChange == Spec => GenerationsAreImmutable
<1>1. StoreInvariant /\ [Next]_vars => [\A r \in Published : gen'[r] = gen[r]]_vars
  BY PublishedStays
<1> QED
  BY <1>1, StoreInvariantHolds, PTL DEF Spec, GenerationsAreImmutable

----------------------------------------------------------------------------
(* No lost update *)

\* In an undamaged store the valid slots are the intact ones.
LEMMA IntactSlotsAreValid ==
  ASSUME StoreInvariant, UndamagedFiles, faults = 0
  PROVE  /\ \A r \in Published : Readable(r)
         /\ \A n \in HeadName : ValidSlots(n) = {i \in Slot : Intact(n, i)}
<1>1. \A r \in Published : gen[r] \in Generation
  BY DEF StoreInvariant, TypeOK, Published
<1>2. \A r \in Published : \A s \in gen[r].needs : s \in Secret /\ vault[s] \in Value
  BY <1>1 DEF StoreInvariant, TypeOK, UndamagedFiles, Generation
<1>3. \A r \in Published : Readable(r)
  BY <1>2 DEF Readable, UndamagedFiles
<1> QED
  BY <1>3 DEF ValidSlots, StoreInvariant, HeadsPointToGenerations

\* So the head only depends on the slots, and a step that leaves them alone
\* leaves the head alone.
LEMMA SameSlotsSameHead ==
  ASSUME StoreInvariant, UndamagedFiles, faults = 0,
         StoreInvariant', UndamagedFiles', faults' = 0,
         NEW n \in HeadName, slot'[n] = slot[n]
  PROVE  HeadRevision(n)' = HeadRevision(n)
<1>1. \A r \in Published' : gen'[r] \in Generation
  BY DEF StoreInvariant, TypeOK, Published
<1>2. \A r \in Published' : \A s \in gen'[r].needs : s \in Secret /\ vault'[s] \in Value
  BY <1>1 DEF StoreInvariant, TypeOK, UndamagedFiles, Generation
<1>3. \A r \in Published' : Readable(r)'
  BY <1>2 DEF Readable, UndamagedFiles
<1>4. ValidSlots(n)' = {i \in Slot : Intact(n, i)'}
  BY <1>3 DEF ValidSlots, StoreInvariant, HeadsPointToGenerations
<1>5. ValidSlots(n)' = ValidSlots(n)
  BY <1>4, IntactSlotsAreValid DEF Intact
<1>6. NewestSlot(n)' = NewestSlot(n)
  BY <1>5 DEF NewestSlot
<1> QED
  BY <1>5, <1>6 DEF HeadRevision

\* After write_head the head is what it wrote.
LEMMA WrittenHeadIsRead ==
  ASSUME TypeOK, TypeOK', NEW n \in HeadName, NEW r \in Revision, WriteHead(n, r), Readable(r)',
         \A i \in Slot : i \in ValidSlots(n)' /\ i # TargetSlot(n) => Intact(n, i)
  PROVE  HeadRevision(n)' = r
<1> DEFINE T == TargetSlot(n)
<1> DEFINE new == [epoch |-> NextEpoch(n), revision |-> r]
<1>1. /\ T \in Slot
      /\ slot'[n][T] = new
      /\ \A i \in Slot : i # T => slot'[n][i] = slot[n][i]
  BY TargetSlotIsSlot DEF WriteHead, TypeOK
<1>2. new \in Pointer
  BY WriteHeadType DEF Pointer
<1>3. T \in ValidSlots(n)'
  BY <1>1, <1>2, StoreAssumption DEF ValidSlots, Intact
<1>4. \A i \in ValidSlots(n)' : i # T => slot'[n][i].epoch < slot'[n][T].epoch
  BY <1>1, OtherSlotIsOlder DEF WriteHead, ValidSlots
<1>5. NewestSlot(n)' \in ValidSlots(n)' /\ slot'[n][T].epoch <= slot'[n][NewestSlot(n)'].epoch
  <2>1. \A i \in ValidSlots(n)' : slot'[n][i] \in Pointer
    BY DEF TypeOK, ValidSlots, Intact
  <2>2. \A i \in ValidSlots(n)' : slot'[n][i].epoch \in Int
    BY <2>1, StoreAssumption DEF Pointer, Revision
  <2>3. \A j \in ValidSlots(n)' : slot'[n][j].epoch <= slot'[n][T].epoch
    BY <1>3, <1>4, <2>2
  <2> QED
    BY <1>3, <2>3 DEF NewestSlot
<1>6. slot'[n][T].epoch \in Int /\ slot'[n][NewestSlot(n)'].epoch \in Int
  BY <1>3, <1>5, StoreAssumption DEF TypeOK, ValidSlots, Intact, Pointer, Revision
<1>7. NewestSlot(n)' = T
  BY <1>4, <1>5, <1>6
<1> QED
  BY <1>1, <1>3, <1>7 DEF HeadRevision

\* write_head makes what it writes the head of an undamaged store, and what it
\* writes is a child of the head it replaces.
LEMMA CommitMovesHead ==
  ASSUME StoreInvariant, StoreInvariant', UndamagedStore, faults = 0, NEW c \in Client,
         CommitHead(c)
  PROVE  /\ HeadRevision("current")' \in Published
         /\ gen'[HeadRevision("current")'].parent = HeadRevision("current")
<1>1. PICK f \in Published : f = call[c].fresh
  BY DEF CommitHead, StoreInvariant, FreshIsReserved
<1>2. /\ pc[c] = "head" /\ UNCHANGED <<gen, rotten, vault>>
      /\ WriteHead("current", f)
  BY <1>1 DEF CommitHead
<1>3. gen[f].parent = call[c].expected
  BY <1>1, <1>2 DEF StoreInvariant, FreshIsReserved
<1>4. Readable(f)'
  BY <1>1, <1>2, IntactSlotsAreValid DEF Readable, Published, UndamagedStore
<1>5. f \in Revision
  BY <1>1 DEF Published
<1>6. \A i \in Slot : i # TargetSlot("current") => slot'["current"][i] = slot["current"][i]
  BY <1>2, TargetSlotIsSlot DEF WriteHead, StoreInvariant, TypeOK
<1>7. \A i \in Slot : i \in ValidSlots("current")' /\ i # TargetSlot("current")
                        => Intact("current", i)
  BY <1>6 DEF ValidSlots, Intact
<1>8. TypeOK /\ TypeOK'
  BY DEF StoreInvariant
<1>9. HeadRevision("current")' = f
  BY <1>2, <1>4, <1>5, <1>7, <1>8, WrittenHeadIsRead
<1> QED
  BY <1>1, <1>2, <1>3, <1>9 DEF UndamagedStore, ExpectedIsHead, CommitPhase

\* Damage is never undone.
LEMMA FaultsAccumulate ==
  ASSUME StoreInvariant, [Next]_vars
  PROVE  faults' = 0 => faults = 0
<1>1. ASSUME NEW c \in Client, ClientStep(c) PROVE faults' = faults
  BY <1>1 DEF ClientStep, LoadCurrent, BeginCommit, EnterCommit, PublishSecret, VerifySecrets,
     PublishGeneration, CommitHead, CommitHeadFails, MarkLastKnownGood, BeginRollback, WalkParent,
     LoadTarget, LoadTargetYaml, ReadTarget, CommitRollback, RollbackRefused, Crash
<1>2. CASE Fault
  BY <1>2, StoreAssumption DEF Fault, StoreInvariant, TypeOK
<1> QED
  BY <1>1, <1>2 DEF Next, vars

\* Client steps keep an undamaged store readable.
LEMMA UndamagedFilesStep ==
  ASSUME StoreInvariant, UndamagedFiles, [Next]_vars
  PROVE  UndamagedFiles'
<1> SUFFICES ASSUME faults' = 0, faults = 0 PROVE UndamagedFiles'
  BY FaultsAccumulate DEF UndamagedFiles
<1> USE DEF UndamagedFiles
<1>1. ASSUME NEW c \in Client, ClientStep(c) PROVE UndamagedFiles'
  <2>1. CASE PublishSecret(c)
    <3>1. call[c].cand \in CandidateType
      BY <2>1 DEF PublishSecret, StoreInvariant, TypeOK, CallType, CommitPhase
    <3>2. \A s \in DOMAIN call[c].cand.supplied : call[c].cand.supplied[s] \in Value
      BY <3>1 DEF CandidateType, Supply
    <3>3. PICK s \in Unpublished(call[c].cand) :
            vault' = [vault EXCEPT ![s] = call[c].cand.supplied[s]]
      BY <2>1 DEF PublishSecret
    <3>4. call[c].cand.supplied[s] \notin {Empty, Damaged}
      BY <3>2, <3>3, StoreAssumption DEF Unpublished
    <3>5. \A q \in Secret : vault'[q] = vault[q] \/ vault'[q] \notin {Empty, Damaged}
      BY <3>3, <3>4 DEF StoreInvariant, TypeOK
    <3>6. UNCHANGED <<slot, gen, rotten, pc, call>> /\ pc[c] = "secrets"
      BY <2>1 DEF PublishSecret
    <3>7. \A d \in Client : pc[d] # "publish"
      BY <3>6 DEF StoreInvariant, LockIsHeldByCommitter, CommitPhase
    <3> QED
      BY <3>5, <3>6, <3>7 DEF Published
  <2>2. CASE VerifySecrets(c)
    <3>1. UNCHANGED <<slot, gen, rotten, vault>>
      BY <2>2 DEF VerifySecrets, store
    <3>2. ASSUME NEW d \in Client, pc'[d] = "publish", NEW s \in call'[d].cand.needs
          PROVE  vault'[s] # Empty
      <4>1. CASE Finish(c)
        BY <3>1, <3>2, <4>1 DEF Finish, StoreInvariant, TypeOK
      <4>2. CASE /\ \A q \in call[c].cand.needs : vault[q] \in Value
                 /\ pc' = [pc EXCEPT ![c] = "publish"] /\ UNCHANGED <<lock, call>>
        BY <3>1, <3>2, <4>2, StoreAssumption DEF StoreInvariant, TypeOK
      <4> QED
        BY <2>2, <4>1, <4>2 DEF VerifySecrets
    <3> QED
      BY <3>1, <3>2 DEF Published
  <2>3. CASE PublishGeneration(c)
    <3>1. /\ Published' = Published \cup {call[c].fresh}
          /\ \A r \in Published : gen'[r] = gen[r]
      BY <2>3, PublishingClient
    <3>2. gen'[call[c].fresh].needs = call[c].cand.needs
      BY <2>3 DEF PublishGeneration, StoreInvariant, TypeOK, CallType, CommitPhase
    <3>3. /\ pc[c] = "publish" /\ pc' = [pc EXCEPT ![c] = "head"]
          /\ UNCHANGED <<slot, rotten, vault, call>>
      BY <2>3 DEF PublishGeneration
    <3> QED
      BY <3>1, <3>2, <3>3 DEF StoreInvariant, TypeOK
  <2>4. CASE CommitHead(c) \/ MarkLastKnownGood(c)
    <3>1. PICK n \in HeadName, r \in Revision : WriteHead(n, r)
      BY <2>4 DEF CommitHead, MarkLastKnownGood, StoreInvariant, TypeOK, CallType, CommitPhase
    <3>2. \A m \in HeadName, i \in Slot : slot'[m][i] # Damaged
      <4>1. [epoch |-> NextEpoch(n), revision |-> r] \in Pointer
        BY <3>1, WriteHeadType DEF StoreInvariant, Pointer
      <4> QED
        BY <3>1, <4>1, StoreAssumption DEF WriteHead, StoreInvariant, TypeOK
    <3>3. \A d \in Client : pc'[d] = "publish" => pc[d] = "publish" /\ call'[d] = call[d]
      BY <2>4 DEF CommitHead, MarkLastKnownGood, Finish, StoreInvariant, TypeOK
    <3>4. UNCHANGED <<gen, rotten, vault>>
      BY <2>4 DEF CommitHead, MarkLastKnownGood
    <3> QED
      BY <3>2, <3>3, <3>4 DEF Published
  <2>5. CASE ~ (PublishSecret(c) \/ VerifySecrets(c) \/ PublishGeneration(c)
                \/ CommitHead(c) \/ MarkLastKnownGood(c))
    <3>1. UNCHANGED store
      BY <1>1, <2>5 DEF ClientStep, LoadCurrent, BeginCommit, EnterCommit, CommitHeadFails,
         BeginRollback, WalkParent, LoadTarget, LoadTargetYaml, ReadTarget, CommitRollback,
         RollbackRefused, Crash
    <3>2. \A d \in Client : pc'[d] = "publish" => pc[d] = "publish" /\ call'[d] = call[d]
      BY <1>1, <2>5 DEF ClientStep, LoadCurrent, BeginCommit, EnterCommit, CommitHeadFails,
         BeginRollback, WalkParent, LoadTarget, LoadTargetYaml, ReadTarget, CommitRollback,
         RollbackRefused, Crash, Finish, StoreInvariant, TypeOK
    <3> QED
      BY <3>1, <3>2 DEF store, Published
  <2> QED
    BY <2>1, <2>2, <2>3, <2>4, <2>5
<1>2. CASE Fault
  BY <1>2 DEF Fault, StoreInvariant, TypeOK
<1>3. CASE UNCHANGED vars
  BY <1>3 DEF vars, Published
<1> QED
  BY <1>1, <1>2, <1>3 DEF Next

\* Without damage, only the last step of a commit touches a current slot.
LEMMA CurrentSlotsChangeInCommits ==
  ASSUME StoreInvariant, [Next]_vars, faults' = 0, slot'["current"] # slot["current"]
  PROVE  \E c \in Client : CommitHead(c)
<1>1. ASSUME NEW c \in Client, ClientStep(c) PROVE CommitHead(c)
  <2>1. ASSUME MarkLastKnownGood(c) PROVE slot'["current"] = slot["current"]
    BY <2>1 DEF MarkLastKnownGood, WriteHead, StoreInvariant, TypeOK
  <2>2. ASSUME ~ CommitHead(c), ~ MarkLastKnownGood(c) PROVE UNCHANGED slot
    BY <1>1, <2>2 DEF ClientStep, LoadCurrent, BeginCommit, EnterCommit, PublishSecret,
       VerifySecrets, PublishGeneration, CommitHeadFails, BeginRollback, WalkParent, LoadTarget,
       LoadTargetYaml, ReadTarget, CommitRollback, RollbackRefused, Crash, store
  <2> QED
    BY <2>1, <2>2
<1>2. CASE Fault
  BY <1>2, StoreAssumption DEF Fault, StoreInvariant, TypeOK
<1> QED
  BY <1>1, <1>2 DEF Next, vars

\* A client is in a commit because it entered it or because it was in it.
LEMMA CommitGoesOn ==
  ASSUME StoreInvariant, [Next]_vars, NEW d \in Client, pc'[d] \in CommitPhase
  PROVE  \/ pc[d] \in CommitPhase /\ call'[d] = call[d]
         \/ pc[d] \notin CommitPhase /\ \E k, e : EnterCommit(d, k, e)
<1>1. CASE pc[d] \in CommitPhase
  <2>1. ASSUME NEW c \in Client, ClientStep(c) PROVE call'[d] = call[d]
    <3>1. CASE EnterCommit(c, Restored(call[c].target), call[c].expected) \/ BeginCommit(c)
      BY <1>1, <3>1, StoreAssumption
         DEF BeginCommit, EnterCommit, CommitAccepted, StoreInvariant, LockIsHeldByCommitter
    <3>2. CASE ~ (EnterCommit(c, Restored(call[c].target), call[c].expected) \/ BeginCommit(c))
      BY <1>1, <2>1, <3>2
         DEF ClientStep, LoadCurrent, PublishSecret, VerifySecrets, PublishGeneration,
             CommitHead, CommitHeadFails, MarkLastKnownGood, BeginRollback, WalkParent,
             LoadTarget, LoadTargetYaml, ReadTarget, CommitRollback, RollbackRefused, Crash,
             Finish, StoreInvariant, TypeOK, CommitPhase
    <3> QED
      BY <3>1, <3>2
  <2>2. call'[d] = call[d]
    BY <2>1 DEF Next, vars, Fault
  <2> QED
    BY <1>1, <2>2
<1>2. CASE pc[d] \notin CommitPhase
  <2>1. ASSUME NEW c \in Client, ClientStep(c) PROVE \E k, e : EnterCommit(d, k, e)
    <3>1. CASE EnterCommit(c, Restored(call[c].target), call[c].expected)
      BY <1>2, <3>1 DEF EnterCommit, StoreInvariant, TypeOK
    <3>2. CASE BeginCommit(c)
      <4>1. PICK k \in Candidate : EnterCommit(c, k, base[c])
        BY <3>2 DEF BeginCommit
      <4>2. c = d
        BY <1>2, <4>1 DEF EnterCommit, StoreInvariant, TypeOK
      <4> QED
        BY <4>1, <4>2
    <3>3. CASE ~ (EnterCommit(c, Restored(call[c].target), call[c].expected) \/ BeginCommit(c))
      BY <1>2, <2>1, <3>3
         DEF ClientStep, LoadCurrent, PublishSecret, VerifySecrets, PublishGeneration,
             CommitHead, CommitHeadFails, MarkLastKnownGood, BeginRollback, WalkParent,
             LoadTarget, LoadTargetYaml, ReadTarget, CommitRollback, RollbackRefused, Crash,
             Finish, StoreInvariant, TypeOK, CommitPhase
    <3> QED
      BY <3>1, <3>2, <3>3
  <2>2. \E k, e : EnterCommit(d, k, e)
    BY <1>2, <2>1 DEF Next, vars, Fault
  <2> QED
    BY <1>2, <2>2
<1> QED
  BY <1>1, <1>2

\* ... and the head a committer compared with stays the head.
LEMMA ExpectedIsHeadStep ==
  ASSUME StoreInvariant, StoreInvariant', UndamagedStore, UndamagedFiles', [Next]_vars
  PROVE  ExpectedIsHead'
<1> SUFFICES ASSUME faults' = 0, faults = 0,
                    NEW d \in Client, pc'[d] \in CommitPhase
             PROVE  HeadRevision("current")' = call'[d].expected
  BY FaultsAccumulate DEF ExpectedIsHead
<1>1. CASE slot'["current"] = slot["current"]
  <2>1. HeadRevision("current")' = HeadRevision("current")
    BY <1>1, SameSlotsSameHead DEF UndamagedStore
  <2>2. CASE pc[d] \in CommitPhase /\ call'[d] = call[d]
    BY <2>1, <2>2 DEF UndamagedStore, ExpectedIsHead
  <2>3. ASSUME NEW k, NEW e, EnterCommit(d, k, e)
        PROVE  HeadRevision("current")' = call'[d].expected
    <3>1. call'[d].expected = e
      BY <2>3 DEF EnterCommit, CommitCall, StoreInvariant, TypeOK
    <3> QED
      BY <2>1, <2>3, <3>1 DEF EnterCommit, CommitAccepted
  <2> QED
    BY <2>2, <2>3, CommitGoesOn
<1>2. CASE slot'["current"] # slot["current"]
  <2>1. PICK c \in Client : CommitHead(c)
    BY <1>2, CurrentSlotsChangeInCommits
  <2> QED
    BY <2>1 DEF CommitHead, Finish, StoreInvariant, TypeOK, LockIsHeldByCommitter, CommitPhase
<1> QED
  BY <1>1, <1>2

\* The further invariant holds in every reachable state.
THEOREM UndamagedStoreHolds == Spec => []UndamagedStore
<1>1. Init => UndamagedStore
  BY StoreAssumption
     DEF Init, UndamagedStore, UndamagedFiles, ExpectedIsHead, Published, CommitPhase
<1>2. StoreInvariant /\ StoreInvariant' /\ UndamagedStore /\ [Next]_vars => UndamagedStore'
  BY UndamagedFilesStep, ExpectedIsHeadStep DEF UndamagedStore
<1> QED
  BY <1>1, <1>2, StoreInvariantHolds, PTL DEF Spec

\* No update is lost: until the medium does damage, the head only ever moves to
\* a child of itself, whoever commits, rolls back or dies.
THEOREM HeadOnlyExtends == Spec => HeadExtendsHead
<1>1. StoreInvariant /\ StoreInvariant' /\ UndamagedStore /\ UndamagedStore' /\ [Next]_vars
        => [(faults' = 0 /\ HeadRevision("current")' # HeadRevision("current")) =>
              gen'[HeadRevision("current")'].parent = HeadRevision("current")]_vars
  <2> SUFFICES ASSUME StoreInvariant, StoreInvariant', UndamagedStore, UndamagedStore', Next,
                      faults' = 0, HeadRevision("current")' # HeadRevision("current")
               PROVE  gen'[HeadRevision("current")'].parent = HeadRevision("current")
    OBVIOUS
  <2>1. faults = 0
    BY FaultsAccumulate
  <2>2. slot'["current"] # slot["current"]
    BY <2>1, SameSlotsSameHead DEF UndamagedStore
  <2>3. PICK c \in Client : CommitHead(c)
    BY <2>1, <2>2, CurrentSlotsChangeInCommits
  <2> QED
    BY <2>1, <2>3, CommitMovesHead
<1> QED
  BY <1>1, StoreInvariantHolds, UndamagedStoreHolds, PTL DEF Spec, HeadExtendsHead

----------------------------------------------------------------------------
(* Secrets *)

\* A secret file appears in the commit that supplies it, and changes after that
\* only by damage.
LEMMA VaultStep ==
  ASSUME StoreInvariant, [Next]_vars, NEW s \in Secret, vault'[s] # vault[s]
  PROVE  \/ vault[s] \in Value /\ vault'[s] = Damaged /\ UNCHANGED <<gen, pc, call>>
         \/ \E c \in Client :
              /\ PublishSecret(c)
              /\ vault[s] = Empty /\ s \in DOMAIN call[c].cand.supplied
              /\ vault'[s] = call[c].cand.supplied[s]
<1>1. ASSUME NEW c \in Client, PublishSecret(c)
      PROVE  /\ vault[s] = Empty /\ s \in DOMAIN call[c].cand.supplied
             /\ vault'[s] = call[c].cand.supplied[s]
  BY <1>1 DEF PublishSecret, Unpublished, StoreInvariant, TypeOK
<1>2. ASSUME NEW c \in Client, ClientStep(c), ~ PublishSecret(c)
      PROVE  UNCHANGED vault
  BY <1>2 DEF ClientStep, LoadCurrent, BeginCommit, EnterCommit, VerifySecrets,
     PublishGeneration, CommitHead, CommitHeadFails, MarkLastKnownGood, BeginRollback, WalkParent,
     LoadTarget, LoadTargetYaml, ReadTarget, CommitRollback, RollbackRefused, Crash, store
<1>3. CASE Fault
  BY <1>3 DEF Fault, DamageSlot, DamageGeneration, DamageSecret, StoreInvariant, TypeOK
<1>4. CASE UNCHANGED vars
  BY <1>4 DEF vars
<1> QED
  BY <1>1, <1>2, <1>3, <1>4 DEF Next

\* The commit that publishes a secret is the only one under way.
LEMMA OneCommitter ==
  ASSUME StoreInvariant, NEW c \in Client, NEW d \in Client,
         pc[c] \in CommitPhase, pc[d] \in CommitPhase
  PROVE  c = d
BY DEF StoreInvariant, LockIsHeldByCommitter

\* A step that only publishes or damages secrets keeps what is said of them.
LEMMA SecretsStable ==
  ASSUME StoreInvariant, SecretInvariant, [Next]_vars, UNCHANGED <<gen, call>>,
         \A d \in Client : pc'[d] \in CommitPhase => pc[d] \in CommitPhase,
         \A d \in Client : pc'[d] = "publish" => pc[d] = "publish"
  PROVE  SecretInvariant'
<1>1. \A s \in Secret : vault[s] # Empty => vault'[s] \in {vault[s], Damaged} /\ vault'[s] # Empty
  BY VaultStep, StoreAssumption DEF StoreInvariant, TypeOK
<1>2. Published' = Published
  BY DEF Published
<1>3. \A r \in Published : gen[r].needs \subseteq Secret
  BY DEF StoreInvariant, TypeOK, Published, Generation
<1>4. ASSUME NEW r \in Published
      PROVE  /\ \A s \in gen[r].needs : vault'[s] # Empty
             /\ \A s \in DOMAIN gen[r].supplied : vault'[s] \in {gen[r].supplied[s], Damaged}
  BY <1>1, <1>3 DEF SecretInvariant, SecretsAreKept, SecretsAsSupplied
<1>5. ASSUME NEW d \in Client, pc'[d] \in CommitPhase
      PROVE  LET k == call[d].cand IN
               /\ DOMAIN k.supplied \subseteq k.needs
               /\ \A s \in DOMAIN k.supplied : vault'[s] \in {Empty, k.supplied[s], Damaged}
               /\ \A s \in k.needs \ DOMAIN k.supplied : vault'[s] # Empty
               /\ pc'[d] = "publish" => \A s \in k.needs : vault'[s] # Empty
  <2> DEFINE k == call[d].cand
  <2>1. k \in CandidateType
    BY <1>5 DEF StoreInvariant, TypeOK, CallType
  <2>2. k.needs \subseteq Secret
    BY <2>1 DEF CandidateType
  <2>3. /\ DOMAIN k.supplied \subseteq k.needs
        /\ \A s \in DOMAIN k.supplied : vault[s] \in {Empty, k.supplied[s], Damaged}
        /\ \A s \in k.needs \ DOMAIN k.supplied : vault[s] # Empty
        /\ pc'[d] = "publish" => \A s \in k.needs : vault[s] # Empty
    BY <1>5 DEF SecretInvariant, SecretsAreKept
  <2>4. ASSUME NEW s \in DOMAIN k.supplied, vault[s] = Empty
        PROVE  vault'[s] \in {Empty, k.supplied[s]}
    <3>1. s \in Secret
      BY <2>2, <2>3
    <3>2. ASSUME NEW c \in Client, PublishSecret(c), vault'[s] = call[c].cand.supplied[s]
          PROVE  vault'[s] = k.supplied[s]
      BY <1>5, <3>2, OneCommitter DEF PublishSecret, CommitPhase
    <3> QED
      BY <2>4, <3>1, <3>2, VaultStep, StoreAssumption
  <2> HIDE DEF k
  <2>5. \A s \in DOMAIN k.supplied : vault'[s] \in {Empty, k.supplied[s], Damaged}
    BY <1>1, <2>2, <2>3, <2>4
  <2> QED
    BY <1>1, <2>2, <2>3, <2>5 DEF k
<1> QED
  BY <1>2, <1>4, <1>5 DEF SecretInvariant, SecretsAreKept, SecretsAsSupplied

\* No step takes a secret away from a generation or from a commit under way.
LEMMA SecretStep ==
  ASSUME StoreInvariant, SecretInvariant, [Next]_vars
  PROVE  SecretInvariant'
<1>1. ASSUME NEW c \in Client, NEW k \in CandidateType, NEW e, EnterCommit(c, k, e)
      PROVE  SecretInvariant'
  <2>1. SecretsAccepted(k) /\ lock = Free
    BY <1>1 DEF EnterCommit, CommitAccepted
  <2>2. /\ UNCHANGED <<gen, vault>> /\ pc' = [pc EXCEPT ![c] = "secrets"]
        /\ call'[c].cand = k
    BY <1>1 DEF EnterCommit, store, CommitCall, StoreInvariant, TypeOK
  <2>3. \A d \in Client : pc'[d] \in CommitPhase => d = c /\ pc'[d] = "secrets"
    BY <2>1, <2>2, StoreAssumption DEF StoreInvariant, TypeOK, LockIsHeldByCommitter
  <2>4. \A s \in DOMAIN k.supplied : vault[s] \in {Empty, k.supplied[s], Damaged}
    BY <2>1 DEF SecretsAccepted
  <2> QED
    BY <2>1, <2>2, <2>3, <2>4
       DEF SecretInvariant, SecretsAreKept, SecretsAsSupplied, SecretsAccepted, Published
<1>2. ASSUME NEW c \in Client, ClientStep(c) PROVE SecretInvariant'
  <2>1. CASE BeginCommit(c)
    BY <1>1, <2>1, StoreAssumption DEF BeginCommit
  <2>2. CASE CommitRollback(c)
    <3>1. gen[call[c].target] \in Generation
      BY <2>2 DEF CommitRollback, StoreInvariant, TypeOK, CallType, RollbackPhase
    <3>2. [s \in {} |-> Empty] \in Supply
      BY DEF Supply
    <3>3. Restored(call[c].target) \in CandidateType
      BY <3>1, <3>2 DEF Restored, Generation, CandidateType
    <3> QED
      BY <1>1, <2>2, <3>3 DEF CommitRollback
  <2>3. CASE PublishSecret(c)
    BY <1>2, <2>3, SecretsStable DEF PublishSecret
  <2>4. CASE VerifySecrets(c)
    <3>1. UNCHANGED <<gen, vault>> /\ pc[c] = "secrets"
      BY <2>4 DEF VerifySecrets, store
    <3>2. ASSUME NEW d \in Client, pc'[d] \in CommitPhase
          PROVE  /\ pc[d] \in CommitPhase /\ call'[d] = call[d]
                 /\ pc'[d] = "publish" => \A s \in call[d].cand.needs : vault[s] # Empty
      <4>1. CASE Finish(c)
        BY <3>1, <3>2, <4>1 DEF Finish, StoreInvariant, TypeOK, CommitPhase, SecretInvariant,
           SecretsAreKept
      <4>2. CASE /\ \A q \in call[c].cand.needs : vault[q] \in Value
                 /\ pc' = [pc EXCEPT ![c] = "publish"] /\ UNCHANGED <<lock, call>>
        BY <3>1, <3>2, <4>2, OneCommitter, StoreAssumption
           DEF StoreInvariant, TypeOK, CommitPhase
      <4> QED
        BY <2>4, <4>1, <4>2 DEF VerifySecrets
    <3> QED
      BY <3>1, <3>2 DEF SecretInvariant, SecretsAreKept, SecretsAsSupplied, Published
  <2>5. CASE PublishGeneration(c)
    <3> DEFINE f == call[c].fresh
               k == call[c].cand
    <3>1. /\ Published' = Published \cup {f}
          /\ \A r \in Published : gen'[r] = gen[r]
      BY <2>5, PublishingClient
    <3>2. gen'[f].needs = k.needs /\ gen'[f].supplied = k.supplied
      BY <2>5 DEF PublishGeneration, StoreInvariant, TypeOK, CallType, CommitPhase
    <3>3. /\ pc[c] = "publish" /\ pc' = [pc EXCEPT ![c] = "head"]
          /\ UNCHANGED <<vault, call>>
      BY <2>5 DEF PublishGeneration
    <3>4. /\ DOMAIN k.supplied \subseteq k.needs
          /\ \A s \in DOMAIN k.supplied : vault[s] \in {Empty, k.supplied[s], Damaged}
          /\ \A s \in k.needs : vault[s] # Empty
      BY <3>3 DEF SecretInvariant, SecretsAreKept, CommitPhase
    <3>5. \A d \in Client : pc'[d] \in CommitPhase => pc[d] \in CommitPhase /\ pc'[d] # "publish"
      BY <3>3, OneCommitter DEF StoreInvariant, TypeOK, CommitPhase
    <3> HIDE DEF f, k
    <3>6. SecretsAsSupplied'
      BY <3>1, <3>2, <3>3, <3>4 DEF SecretInvariant, SecretsAsSupplied
    <3>7. SecretsAreKept'
      BY <3>1, <3>2, <3>3, <3>4, <3>5 DEF SecretInvariant, SecretsAreKept
    <3> QED
      BY <3>6, <3>7 DEF SecretInvariant
  <2>6. CASE ~ (BeginCommit(c) \/ CommitRollback(c) \/ PublishSecret(c) \/ VerifySecrets(c)
                \/ PublishGeneration(c))
    <3>1. UNCHANGED <<gen, vault>>
      BY <1>2, <2>6 DEF ClientStep, LoadCurrent, CommitHead, CommitHeadFails, MarkLastKnownGood,
         BeginRollback, WalkParent, LoadTarget, LoadTargetYaml, ReadTarget, RollbackRefused,
         Crash, store
    <3>2. \A d \in Client : pc'[d] \in CommitPhase => pc[d] = pc'[d] /\ call'[d] = call[d]
      BY <1>2, <2>6 DEF ClientStep, LoadCurrent, CommitHead, CommitHeadFails, MarkLastKnownGood,
         BeginRollback, WalkParent, LoadTarget, LoadTargetYaml, ReadTarget, RollbackRefused,
         Crash, Finish, StoreInvariant, TypeOK, CommitPhase
    <3> QED
      BY <3>1, <3>2 DEF SecretInvariant, SecretsAreKept, SecretsAsSupplied, Published
  <2> QED
    BY <2>1, <2>2, <2>3, <2>4, <2>5, <2>6
<1>3. CASE Fault
  BY <1>3, SecretsStable DEF Fault, DamageSlot, DamageGeneration, DamageSecret
<1>4. CASE UNCHANGED vars
  BY <1>4, SecretsStable DEF vars
<1> QED
  BY <1>2, <1>3, <1>4 DEF Next

\* The invariant that explains the secrets: what a commit found and wrote stays
\* until it ends, and what a generation needs stays for ever.
THEOREM SecretInvariantHolds == Spec => []SecretInvariant
<1>1. Init => SecretInvariant
  BY DEF Init, SecretInvariant, SecretsAreKept, SecretsAsSupplied, Published, CommitPhase
<1>2. StoreInvariant /\ SecretInvariant /\ [Next]_vars => SecretInvariant'
  BY SecretStep
<1> QED
  BY <1>1, <1>2, StoreInvariantHolds, PTL DEF Spec

\* Every generation keeps the secret values its own commit supplied, whatever
\* other commits that share those secrets did or left behind when they died.
THEOREM SecretsStayAsSupplied == Spec => []SecretsAsSupplied
<1>1. SecretInvariant => SecretsAsSupplied
  BY DEF SecretInvariant
<1> QED
  BY <1>1, SecretInvariantHolds, PTL

\* A commit that dies at any point can be repeated with the same candidate: what
\* it already wrote is accepted by write_pending_secrets.
THEOREM RetriesAreAccepted == Spec => []RetryIsAccepted
<1>1. StoreInvariant /\ SecretInvariant => RetryIsAccepted
  <2> SUFFICES ASSUME StoreInvariant, SecretInvariant, NEW c \in Client, pc[c] \in CommitPhase,
                      \A s \in Secret : vault[s] # Damaged
               PROVE  SecretsAccepted(call[c].cand)
    BY DEF RetryIsAccepted
  <2>1. call[c].cand \in CandidateType
    BY DEF StoreInvariant, TypeOK, CallType
  <2>2. call[c].cand.needs \subseteq Secret
    BY <2>1 DEF CandidateType
  <2> QED
    BY <2>2 DEF SecretInvariant, SecretsAreKept, SecretsAccepted
<1> QED
  BY <1>1, StoreInvariantHolds, SecretInvariantHolds, PTL

----------------------------------------------------------------------------
(* The slot that is not the head *)

\* When write_head replaces a slot of an undamaged store, the intact slot that
\* stays is the head.
LEMMA OtherSlotIsHead ==
  ASSUME StoreInvariant, UndamagedFiles, faults = 0, NEW n \in HeadName, HeadReadable(n),
         NEW i \in Slot, i # TargetSlot(n), Intact(n, i)
  PROVE  HeadRevision(n) = slot[n][i].revision
<1>1. TypeOK /\ HeadsOrdered
  BY DEF StoreInvariant
<1>2. i \in ValidSlots(n)
  BY <1>1, OtherSlotIsOlder
<1>3. /\ NewestSlot(n) \in ValidSlots(n)
      /\ \A j \in ValidSlots(n) : slot[n][j].epoch <= slot[n][NewestSlot(n)].epoch
  BY <1>1, <1>2, NewestSlotIsValid
<1>4. \A j \in ValidSlots(n) : j \in Slot /\ Intact(n, j) /\ slot[n][j].epoch \in Int
  BY <1>1, StoreAssumption DEF TypeOK, ValidSlots, Intact, Pointer, Revision
<1>5. NewestSlot(n) = i
  <2> SUFFICES ASSUME NewestSlot(n) # i PROVE FALSE
    OBVIOUS
  <2>1. NewestSlot(n) = TargetSlot(n)
    BY <1>1, <1>3, <1>4, TargetSlotIsSlot
  <2>2. slot[n][NewestSlot(n)].epoch <= slot[n][i].epoch
    BY <1>1, <1>3, <2>1, TargetSlotIsSlot
  <2>3. slot[n][NewestSlot(n)].epoch \in Int /\ slot[n][i].epoch \in Int
    BY <1>2, <1>3, <1>4
  <2>4. slot[n][i].epoch <= slot[n][NewestSlot(n)].epoch
    BY <1>2, <1>3
  <2>5. slot[n][NewestSlot(n)].epoch = slot[n][i].epoch
    BY <2>2, <2>3, <2>4
  <2> QED
    BY <1>1, <1>2, <1>3, <1>4, <2>5 DEF HeadsOrdered
<1> QED
  BY <1>2, <1>5 DEF HeadRevision

\* A step keeps the fallback of an undamaged store one commit behind the head.
LEMMA FallbackStep ==
  ASSUME StoreInvariant, StoreInvariant', UndamagedStore, FallbackIsParent, [Next]_vars
  PROVE  FallbackIsParent'
<1> SUFFICES ASSUME faults' = 0, faults = 0,
                    NEW i \in Slot, NEW j \in Slot,
                    Intact("current", i)', Intact("current", j)',
                    slot'["current"][i].epoch < slot'["current"][j].epoch
             PROVE  gen'[slot'["current"][j].revision].parent = slot'["current"][i].revision
  BY FaultsAccumulate DEF FallbackIsParent
<1>1. CASE slot'["current"] = slot["current"]
  <2>1. Intact("current", i) /\ Intact("current", j)
    BY <1>1 DEF Intact
  <2>2. slot["current"][j].revision \in Published
    BY <2>1 DEF StoreInvariant, HeadsPointToGenerations
  <2>3. gen'[slot["current"][j].revision] = gen[slot["current"][j].revision]
    BY <2>2, PublishedStays
  <2> QED
    BY <1>1, <2>1, <2>3 DEF FallbackIsParent
<1>2. CASE slot'["current"] # slot["current"]
  <2>1. PICK c \in Client : CommitHead(c)
    BY <1>2, CurrentSlotsChangeInCommits
  <2> DEFINE T == TargetSlot("current")
             f == call[c].fresh
  <2>2. /\ pc[c] = "head" /\ UNCHANGED gen /\ HeadReadable("current")
        /\ WriteHead("current", f)
    BY <2>1 DEF CommitHead, WriteHead
  <2>3. /\ T \in Slot
        /\ slot'["current"][T] = [epoch |-> NextEpoch("current"), revision |-> f]
        /\ \A q \in Slot : q # T => slot'["current"][q] = slot["current"][q]
    BY <2>2, TargetSlotIsSlot DEF WriteHead, StoreInvariant, TypeOK
  <2>4. \A q \in Slot : (q # T /\ Intact("current", q)') =>
          /\ slot'["current"][q].revision = HeadRevision("current")
          /\ slot'["current"][q].epoch < NextEpoch("current")
    BY <2>2, <2>3, OtherSlotIsHead, OtherSlotIsOlder
       DEF Intact, StoreInvariant, UndamagedStore
  <2>5. gen[f].parent = HeadRevision("current")
    BY <2>2 DEF StoreInvariant, FreshIsReserved, UndamagedStore, ExpectedIsHead, CommitPhase
  <2>6. \A q \in Slot : Intact("current", q)' => slot'["current"][q].epoch \in Int
    BY StoreAssumption DEF StoreInvariant, TypeOK, Intact, Pointer, Revision
  <2>7. j = T
    <3>1. CASE i = T
      BY <2>3, <2>4, <2>6, <3>1
    <3>2. CASE i # T
      BY <2>3, <3>2, <2>6
    <3> QED
      BY <3>1, <3>2
  <2>8. i # T
    BY <2>6, <2>7
  <2> QED
    BY <2>2, <2>3, <2>4, <2>5, <2>7, <2>8
<1> QED
  BY <1>1, <1>2

\* Without damage, losing the newest slot costs exactly one commit: the other
\* slot names the parent of the head.
THEOREM FallbackIsOneBehind == Spec => []FallbackIsParent
<1>1. Init => FallbackIsParent
  BY DEF Init, FallbackIsParent, Intact
<1>2. StoreInvariant /\ StoreInvariant' /\ UndamagedStore /\ FallbackIsParent /\ [Next]_vars
        => FallbackIsParent'
  BY FallbackStep
<1> QED
  BY <1>1, <1>2, StoreInvariantHolds, UndamagedStoreHolds, PTL DEF Spec

----------------------------------------------------------------------------
(* One fault *)

\* Client steps lose nothing, and the first fault loses one thing.
LEMMA OneFaultStep ==
  ASSUME StoreInvariant, StoreInvariant', UndamagedFiles, OneFaultIsOneLoss, [Next]_vars
  PROVE  OneFaultIsOneLoss'
<1> SUFFICES ASSUME faults' = 1, \A s \in Secret : vault'[s] # Damaged
             PROVE  LET lost == {i \in Slot : slot'["current"][i] = Damaged}
                    IN  \/ rotten' = {} /\ lost # Slot
                        \/ lost = {} /\ \A r, q \in rotten' : r = q
  BY DEF OneFaultIsOneLoss
<1>1. \A s \in Secret : vault[s] # Damaged
  BY VaultStep, StoreAssumption DEF StoreInvariant, TypeOK
<1>2. CASE UNCHANGED <<faults, rotten>> /\ UNCHANGED slot
  BY <1>1, <1>2 DEF OneFaultIsOneLoss
<1>3. ASSUME NEW n \in HeadName, NEW r \in Revision, WriteHead(n, r), UNCHANGED <<faults, rotten>>
      PROVE  \A i \in Slot : slot'["current"][i] = Damaged => slot["current"][i] = Damaged
  <2>1. [epoch |-> NextEpoch(n), revision |-> r] \in Pointer
    BY <1>3, WriteHeadType DEF StoreInvariant, Pointer
  <2> QED
    BY <1>3, <2>1, StoreAssumption DEF WriteHead, StoreInvariant, TypeOK
<1>4. ASSUME NEW c \in Client, ClientStep(c)
      PROVE  /\ UNCHANGED <<faults, rotten>>
             /\ UNCHANGED slot \/ \E n \in HeadName, r \in Revision : WriteHead(n, r)
  <2>1. CASE CommitHead(c) \/ MarkLastKnownGood(c)
    BY <2>1 DEF CommitHead, MarkLastKnownGood, StoreInvariant, TypeOK, CallType, CommitPhase
  <2>2. CASE ~ (CommitHead(c) \/ MarkLastKnownGood(c))
    BY <1>4, <2>2 DEF ClientStep, LoadCurrent, BeginCommit, EnterCommit, PublishSecret,
       VerifySecrets, PublishGeneration, CommitHeadFails, BeginRollback, WalkParent, LoadTarget,
       LoadTargetYaml, ReadTarget, CommitRollback, RollbackRefused, Crash, store
  <2> QED
    BY <2>1, <2>2
<1>5. CASE UNCHANGED <<faults, rotten>>
           /\ \A i \in Slot : slot'["current"][i] = Damaged => slot["current"][i] = Damaged
  BY <1>1, <1>5 DEF OneFaultIsOneLoss
<1>6. CASE Fault
  <2>1. faults = 0
    BY <1>6, StoreAssumption DEF Fault, StoreInvariant, TypeOK
  <2>2. rotten = {} /\ \A i \in Slot : slot["current"][i] # Damaged
    BY <2>1 DEF UndamagedFiles
  <2>3. CASE DamageSlot
    <3>1. PICK n \in HeadName, i \in Slot : slot' = [slot EXCEPT ![n][i] = Damaged]
      BY <2>3 DEF DamageSlot
    <3>2. \A q \in Slot : slot'["current"][q] = Damaged => q = i
      BY <2>2, <3>1 DEF StoreInvariant, TypeOK
    <3>3. {q \in Slot : slot'["current"][q] = Damaged} # Slot
      BY <3>2
    <3> QED
      BY <2>2, <2>3, <3>3 DEF DamageSlot
  <2>4. CASE DamageGeneration \/ DamageSecret
    BY <2>2, <2>4 DEF DamageGeneration, DamageSecret
  <2> QED
    BY <1>6, <2>3, <2>4 DEF Fault
<1>7. CASE UNCHANGED vars
  BY <1>2, <1>7 DEF vars
<1> QED
  BY <1>2, <1>3, <1>4, <1>5, <1>6, <1>7 DEF Next

\* Until a second fault, what is lost is a single generation, slot or secret.
THEOREM OneLossPerFault == Spec => []OneFaultIsOneLoss
<1>1. Init => OneFaultIsOneLoss
  BY DEF Init, OneFaultIsOneLoss
<1>2. StoreInvariant /\ StoreInvariant' /\ UndamagedStore /\ OneFaultIsOneLoss /\ [Next]_vars
        => OneFaultIsOneLoss'
  BY OneFaultStep DEF UndamagedStore
<1> QED
  BY <1>1, <1>2, StoreInvariantHolds, UndamagedStoreHolds, PTL DEF Spec

\* An intact slot whose generation and secrets are undamaged is a valid one.
LEMMA SparedSlotIsValid ==
  ASSUME StoreInvariant, SecretInvariant, \A s \in Secret : vault[s] # Damaged,
         NEW n \in HeadName, NEW i \in Slot, Intact(n, i), slot[n][i].revision \notin rotten
  PROVE  i \in ValidSlots(n)
<1> DEFINE r == slot[n][i].revision
<1>1. r \in Published
  BY DEF StoreInvariant, HeadsPointToGenerations
<1>2. gen[r] \in Generation
  BY <1>1 DEF StoreInvariant, TypeOK, Published
<1>3. \A s \in gen[r].needs : s \in Secret /\ vault[s] # Empty
  BY <1>1, <1>2 DEF SecretInvariant, SecretsAreKept, Generation
<1>4. \A s \in gen[r].needs : vault[s] \in Value
  BY <1>3 DEF StoreInvariant, TypeOK
<1> QED
  BY <1>1, <1>4 DEF ValidSlots, Readable

\* A store whose two current slots were written survives any single damage to a
\* slot or to a generation: load_current still finds a head.
THEOREM OneFaultLeavesAHead == Spec => []OneFaultIsSurvived
<1>1. StoreInvariant /\ SecretInvariant /\ OneFaultIsOneLoss => OneFaultIsSurvived
  <2> SUFFICES ASSUME StoreInvariant, SecretInvariant, OneFaultIsOneLoss,
                      faults = 1, \A s \in Secret : vault[s] # Damaged,
                      \A i \in Slot : slot["current"][i] # Empty
               PROVE  HeadReadable("current")
    BY DEF OneFaultIsSurvived
  <2>1. \A i, j \in ValidSlots("current") :
          slot["current"][i].epoch = slot["current"][j].epoch
            => slot["current"][i] = slot["current"][j]
    BY DEF StoreInvariant, HeadsOrdered, ValidSlots
  <2>2. CASE rotten = {} /\ {i \in Slot : slot["current"][i] = Damaged} # Slot
    <3>1. PICK i \in Slot : Intact("current", i)
      BY <2>2 DEF Intact
    <3>2. i \in ValidSlots("current")
      BY <2>2, <3>1, SparedSlotIsValid
    <3> QED
      BY <2>1, <3>2 DEF HeadReadable
  <2>3. CASE /\ {i \in Slot : slot["current"][i] = Damaged} = {}
             /\ \A r, q \in rotten : r = q
    <3>1. Intact("current", 0) /\ Intact("current", 1)
      BY <2>3 DEF Intact
    <3>2. /\ slot["current"][0].epoch \in Int /\ slot["current"][1].epoch \in Int
          /\ slot["current"][0].revision \in Int /\ slot["current"][1].revision \in Int
      BY <3>1, StoreAssumption DEF StoreInvariant, TypeOK, Intact, Pointer, Revision
    <3>3. slot["current"][0].revision # slot["current"][1].revision
      BY <3>1, <3>2 DEF StoreInvariant, HeadsOrdered
    <3>4. PICK i \in Slot : slot["current"][i].revision \notin rotten
      BY <2>3, <3>3
    <3>5. i \in ValidSlots("current")
      BY <3>1, <3>4, SparedSlotIsValid
    <3> QED
      BY <2>1, <3>5 DEF HeadReadable
  <2> QED
    BY <2>2, <2>3 DEF OneFaultIsOneLoss
<1> QED
  BY <1>1, StoreInvariantHolds, SecretInvariantHolds, OneLossPerFault, PTL

----------------------------------------------------------------------------
(* Recursion on revisions *)

\* Every non-empty set of naturals has a least element.
LEMMA LeastExists ==
  ASSUME NEW S, S \subseteq Nat, S # {}
  PROVE  \E i \in S : \A j \in S : i <= j
<1> DEFINE T == {0 .. i : i \in S}
<1>1. T \subseteq FiniteSubsetsOf(Nat)
  <2> SUFFICES ASSUME NEW i \in S PROVE 0 .. i \in FiniteSubsetsOf(Nat)
    OBVIOUS
  <2>1. i \in Int /\ 0 \in Int
    OBVIOUS
  <2>2. IsFiniteSet(0 .. i)
    BY <2>1, FS_Interval
  <2>3. 0 .. i \subseteq Nat
    OBVIOUS
  <2> QED
    BY <2>2, <2>3 DEF FiniteSubsetsOf
<1>2. T # {}
  OBVIOUS
<1> HIDE DEF T
<1>3. PICK x \in T : \A y \in T : ~ (<<y, x>> \in StrictSubsetOrdering(Nat))
  BY <1>1, <1>2, FS_StrictSubsetOrderingWellFounded, WFMin
<1> USE DEF T
<1>4. PICK i \in S : x = 0 .. i
  OBVIOUS
<1>5. ASSUME NEW j \in S PROVE i <= j
  <2>1. ~ (<<0 .. j, 0 .. i>> \in StrictSubsetOrdering(Nat))
    BY <1>3, <1>4
  <2>2. 0 .. j \subseteq Nat /\ 0 .. i \subseteq Nat
    OBVIOUS
  <2>3. ~ (0 .. j \subseteq 0 .. i /\ 0 .. j # 0 .. i)
    BY <2>1, <2>2 DEF StrictSubsetOrdering
  <2>4. SUFFICES ASSUME j < i PROVE FALSE
    OBVIOUS
  <2>5. 0 .. j \subseteq 0 .. i /\ i \in 0 .. i /\ i \notin 0 .. j
    BY <2>4
  <2> QED
    BY <2>3, <2>5
<1> QED
  BY <1>5

\* Induction, with a set in the place of the predicate.
LEMMA Induction ==
  ASSUME NEW S, 0 \in S, \A n \in Nat : n \in S => n + 1 \in S
  PROVE  Nat \subseteq S
<1> SUFFICES ASSUME Nat \ S # {} PROVE FALSE
  OBVIOUS
<1>1. PICK n \in Nat \ S : \A m \in Nat \ S : n <= m
  <2>1. Nat \ S \subseteq Nat
    OBVIOUS
  <2> QED
    BY <2>1, LeastExists
<1>2. n - 1 \in Nat /\ n - 1 + 1 = n
  BY <1>1
<1>3. n - 1 \in S
  BY <1>1, <1>2
<1> QED
  BY <1>1, <1>2, <1>3

\* A definition by recursion on some of the numbers up to N: v for 0, and for r
\* the value step[r] calculates from that for back[r].
Recursive(N, R, V, v, back, step) ==
  /\ N \in Nat /\ R \subseteq 1 .. N /\ v \in V
  /\ back \in [R -> R \cup {0}] /\ \A r \in R : back[r] < r
  /\ step \in [R -> [V -> V]]

Solves(f, R, V, v, back, step) ==
  /\ f \in [R \cup {0} -> V]
  /\ f[0] = v /\ \A r \in R : f[r] = step[r][f[back[r]]]

\* Such a definition defines something.
LEMMA Recursion ==
  ASSUME NEW N, NEW R, NEW V, NEW v, NEW back, NEW step, Recursive(N, R, V, v, back, step)
  PROVE  \E f : Solves(f, R, V, v, back, step)
<1> USE DEF Recursive
<1> DEFINE G(n, f) == f[0] = v /\ \A r \in R : r <= n => f[r] = step[r][f[back[r]]]
           S == {n \in Nat : \E f \in [R \cup {0} -> V] : G(n, f)}
<1>1. 0 \in S
  <2>1. [r \in R \cup {0} |-> v] \in [R \cup {0} -> V] /\ G(0, [r \in R \cup {0} |-> v])
    OBVIOUS
  <2> QED
    BY <2>1
<1>2. ASSUME NEW n \in Nat, n \in S PROVE n + 1 \in S
  <2>1. PICK f \in [R \cup {0} -> V] : G(n, f)
    BY <1>2
  <2> DEFINE x == step[n + 1][f[back[n + 1]]]
             g == [r \in R \cup {0} |-> IF r = n + 1 THEN x ELSE f[r]]
  <2>2. n + 1 \in R => x \in V
    BY <2>1
  <2>3. g \in [R \cup {0} -> V]
    BY <2>1, <2>2
  <2>4. g[0] = v
    BY <2>1
  <2>5. ASSUME NEW r \in R, r <= n + 1 PROVE g[r] = step[r][g[back[r]]]
    <3>1. back[r] \in R \cup {0} /\ back[r] # n + 1
      BY <2>5
    <3>2. g[back[r]] = f[back[r]]
      BY <3>1
    <3>3. CASE r = n + 1
      BY <3>2, <3>3
    <3>4. CASE r # n + 1
      BY <2>1, <2>5, <3>2, <3>4
    <3> QED
      BY <3>3, <3>4
  <2>6. G(n + 1, g)
    BY <2>4, <2>5
  <2>7. n + 1 \in Nat
    OBVIOUS
  <2> HIDE DEF G, g
  <2> QED
    BY <2>3, <2>6, <2>7
<1>3. N \in S
  <2> HIDE DEF S
  <2> QED
    BY <1>1, <1>2, Induction
<1> QED
  BY <1>3 DEF Solves

----------------------------------------------------------------------------
(* Ancestors *)

AncestryEquation ==
  /\ \A r \in Option(Revision) \ Published : Ancestry[r] = {}
  /\ \A r \in Published : Ancestry[r] = {r} \cup Ancestry[gen[r].parent]

\* The recursive definition of Ancestry: generations descend from earlier ones.
LEMMA AncestryIs ==
  ASSUME StoreInvariant
  PROVE  AncestryEquation
<1> DEFINE V == SUBSET Revision
           back == [r \in Revision |-> IF r \in Published THEN gen[r].parent ELSE 0]
           step == [r \in Revision |-> [x \in V |-> IF r \in Published THEN {r} \cup x ELSE {}]]
           F(f) == [r \in Option(Revision) |->
                      IF r = 0 \/ gen[r] = Empty THEN {}
                      ELSE {r} \cup IF gen[r].parent < r THEN f[gen[r].parent] ELSE {}]
<1>1. back \in [Revision -> Revision \cup {0}] /\ \A r \in Revision : back[r] < r
  <2>1. \A r \in Published : gen[r].parent < r /\ gen[r].parent \in Revision \cup {0}
    BY DEF StoreInvariant, ParentsAreEarlier, Published
  <2> QED
    BY <2>1, StoreAssumption DEF Revision
<1>2. step \in [Revision -> [V -> V]]
  OBVIOUS
<1>3. {} \in V
  OBVIOUS
<1>4. PICK f : Solves(f, Revision, V, {}, back, step)
  <2> HIDE DEF V, back, step
  <2>1. Recursive(MaxU64, Revision, V, {}, back, step)
    BY <1>1, <1>2, <1>3, StoreAssumption DEF Recursive, Revision
  <2> QED
    BY <2>1, Recursion
<1>5. \A r \in Revision : f[r] = IF r \in Published THEN {r} \cup f[gen[r].parent] ELSE {}
  <2> SUFFICES ASSUME NEW r \in Revision 
      PROVE f[r] = IF r \in Published THEN {r} \cup f[gen[r].parent] ELSE {}
    OBVIOUS
  <2>1. f[back[r]] \in V
    BY <1>1, <1>4 DEF Solves
  <2>2. f[r] = step[r][f[back[r]]]
    BY <1>4 DEF Solves
  <2> QED
    BY <2>1, <2>2
<1>6. f = F(f)
  <2>1. \A r \in Published : gen[r].parent < r
    BY DEF StoreInvariant, ParentsAreEarlier
  <2> HIDE DEF V
  <2> QED
    BY <1>4, <1>5, <2>1 DEF Published, Solves
<1>7. Ancestry = F(Ancestry)
  <2>1. Ancestry = CHOOSE A : A = F(A)
    BY DEF Ancestry
  <2> HIDE DEF F
  <2> QED
    BY <1>6, <2>1
<1>8. \A r \in Published : gen[r].parent < r /\ r # 0 /\ gen[r] # Empty
  BY StoreAssumption DEF StoreInvariant, ParentsAreEarlier, Published, Revision
<1> QED
  BY <1>7, <1>8 DEF Published, AncestryEquation

\* ... also after a step.
LEMMA AncestryAfter == StoreInvariant' => AncestryEquation'
<1>1. StoreInvariant => AncestryEquation
  BY AncestryIs
<1> QED
  BY <1>1, PTL

\* What a head names is published, if it names anything.
LEMMA HeadIsPublished ==
  ASSUME StoreInvariant, NEW n \in HeadName
  PROVE  HeadRevision(n) \in Option(Published)
BY NewestSlotIsValid DEF HeadRevision, StoreInvariant, HeadsPointToGenerations, ValidSlots

\* A published generation keeps its ancestors for ever.
LEMMA AncestryStays ==
  ASSUME StoreInvariant, StoreInvariant', [Next]_vars
  PROVE  \A r \in Published : r \in Published' /\ Ancestry'[r] = Ancestry[r]
<1>1. \A r \in Published : gen'[r] = gen[r] /\ r \in Published'
  BY PublishedStays DEF Published
<1>2. \A r \in Published : gen[r].parent < r /\ gen[r].parent \in Option(Published)
  BY DEF StoreInvariant, ParentsAreEarlier
<1>3. Published \subseteq Nat /\ Option(Published) \subseteq Nat
  BY StoreAssumption DEF Published, Revision
<1> DEFINE Bad == {r \in Published : Ancestry'[r] # Ancestry[r]}
<1> SUFFICES ASSUME Bad # {} PROVE FALSE
  BY <1>1
<1>4. PICK r \in Bad : \A q \in Bad : r <= q
  <2>1. Bad \subseteq Nat
    BY <1>3
  <2> QED
    BY <2>1, LeastExists
<1>5. gen[r].parent \notin Bad /\ gen[r].parent \in Option(Published)
  <2>1. gen[r].parent < r /\ gen[r].parent \in Option(Published)
    BY <1>2, <1>4
  <2>2. gen[r].parent \in Nat /\ r \in Nat
    <3>1. r \in Published
      BY <1>4
    <3> HIDE DEF Bad
    <3> QED
      BY <1>3, <2>1, <3>1
  <2> QED
    BY <1>4, <2>1, <2>2
<1>6. Ancestry'[gen[r].parent] = Ancestry[gen[r].parent]
  <2>1. CASE gen[r].parent = 0
    <3>1. 0 \in Option(Revision) \ Published /\ 0 \in Option(Revision) \ Published'
      BY StoreAssumption DEF Published, Revision
    <3>2. Ancestry[0] = {}
      BY <3>1, AncestryIs DEF AncestryEquation
    <3>3. Ancestry'[0] = {}
      BY <3>1, AncestryAfter DEF AncestryEquation
    <3> QED
      BY <2>1, <3>2, <3>3
  <2>2. CASE gen[r].parent # 0
    BY <1>5, <2>2
  <2> QED
    BY <2>1, <2>2
<1>7. Ancestry[r] = {r} \cup Ancestry[gen[r].parent]
  BY <1>4, AncestryIs DEF AncestryEquation
<1>8. Ancestry'[r] = {r} \cup Ancestry'[gen'[r].parent]
  <2>1. \A q \in Published' : Ancestry'[q] = {q} \cup Ancestry'[gen'[q].parent]
    BY AncestryAfter DEF AncestryEquation
  <2> QED
    BY <1>1, <1>4, <2>1
<1> QED
  BY <1>1, <1>4, <1>6, <1>7, <1>8

\* A step keeps the last known good revision among the ancestors of the head.
LEMMA LastKnownGoodStep ==
  ASSUME StoreInvariant, StoreInvariant', UndamagedStore, UndamagedStore',
         LastKnownGoodIsAncestor, [Next]_vars
  PROVE  LastKnownGoodIsAncestor'
<1> DEFINE H == HeadRevision("current")
           G == HeadRevision("last-known-good")
<1> SUFFICES ASSUME faults' = 0, faults = 0
             PROVE  G' \in Ancestry'[H'] \cup {0}
  BY FaultsAccumulate DEF LastKnownGoodIsAncestor
<1>1. G \in Ancestry[H] \cup {0}
  BY DEF LastKnownGoodIsAncestor
<1>2. H \in Option(Published) /\ G \in Option(Published)
  BY HeadIsPublished
<1>3. G \in Ancestry'[H] \cup {0}
  <2>1. CASE H = 0
    <3>1. 0 \in Option(Revision) \ Published
      BY StoreAssumption DEF Published, Revision
    <3>2. Ancestry[0] = {}
      BY <3>1, AncestryIs DEF AncestryEquation
    <3> QED
      BY <1>1, <2>1, <3>2
  <2>2. CASE H # 0
    BY <1>1, <1>2, <2>2, AncestryStays
  <2> QED
    BY <2>1, <2>2
<1>4. \A r \in Published' : Ancestry'[r] = {r} \cup Ancestry'[gen'[r].parent]
  BY AncestryAfter DEF AncestryEquation
<1> HIDE DEF H, G
<1>5. CASE slot'["current"] = slot["current"] /\ slot'["last-known-good"] = slot["last-known-good"]
  <2>1. H' = H /\ G' = G
    BY <1>5, SameSlotsSameHead DEF UndamagedStore, H, G
  <2> QED
    BY <1>3, <2>1
<1>6. CASE slot'["current"] # slot["current"]
  <2>1. PICK c \in Client : CommitHead(c)
    BY <1>6, CurrentSlotsChangeInCommits
  <2>2. H' \in Published /\ gen'[H'].parent = H
    BY <2>1, CommitMovesHead DEF H
  <2>3. H' \in Published'
    BY <2>2, AncestryStays
  <2>4. slot'["last-known-good"] = slot["last-known-good"]
    BY <2>1 DEF CommitHead, WriteHead, StoreInvariant, TypeOK
  <2>5. G' = G
    BY <2>4, SameSlotsSameHead DEF UndamagedStore, G
  <2> QED
    BY <1>3, <1>4, <2>2, <2>3, <2>5
<1>7. CASE slot'["current"] = slot["current"] /\ slot'["last-known-good"] # slot["last-known-good"]
  <2>1. PICK c \in Client : MarkLastKnownGood(c)
    <3>1. ASSUME NEW c \in Client, ClientStep(c) PROVE MarkLastKnownGood(c)
      <4>1. ASSUME CommitHead(c) PROVE FALSE
        BY <1>7, <4>1 DEF CommitHead, WriteHead, StoreInvariant, TypeOK
      <4>2. ASSUME ~ CommitHead(c), ~ MarkLastKnownGood(c) PROVE UNCHANGED slot
        BY <3>1, <4>2 DEF ClientStep, LoadCurrent, BeginCommit, EnterCommit, PublishSecret,
           VerifySecrets, PublishGeneration, CommitHeadFails, BeginRollback, WalkParent,
           LoadTarget, LoadTargetYaml, ReadTarget, CommitRollback, RollbackRefused, Crash, store
      <4> QED
        BY <1>7, <4>1, <4>2
    <3>2. CASE Fault
      BY <3>2, StoreAssumption DEF Fault, StoreInvariant, TypeOK
    <3> QED
      BY <1>7, <3>1, <3>2 DEF Next, vars
  <2>2. /\ H # 0 /\ WriteHead("last-known-good", H) /\ UNCHANGED <<gen, rotten, vault>>
    BY <2>1 DEF MarkLastKnownGood, H
  <2>3. PICK r \in Published : r = H
    BY <1>2, <2>2
  <2>4. Readable(r)' /\ r \in Revision
    BY <2>2, <2>3, IntactSlotsAreValid DEF Readable, Published, UndamagedStore
  <2>5. \A i \in Slot : i # TargetSlot("last-known-good")
                          => slot'["last-known-good"][i] = slot["last-known-good"][i]
    BY <2>2, TargetSlotIsSlot DEF WriteHead, StoreInvariant, TypeOK
  <2>6. \A i \in Slot : i \in ValidSlots("last-known-good")' /\ i # TargetSlot("last-known-good")
                          => Intact("last-known-good", i)
    BY <2>5 DEF ValidSlots, Intact
  <2>7. TypeOK /\ TypeOK'
    BY DEF StoreInvariant
  <2>8. G' = r
    BY <2>2, <2>3, <2>4, <2>6, <2>7, WrittenHeadIsRead DEF G
  <2>9. H' = H
    BY <1>7, SameSlotsSameHead DEF UndamagedStore, H
  <2>10. r \in Published'
    BY <2>3, AncestryStays
  <2> QED
    BY <1>4, <2>3, <2>8, <2>9, <2>10
<1> QED
  BY <1>5, <1>6, <1>7

\* Without faults a rollback to the last known good revision is never refused
\* for not being an ancestor of the head (mark_last_known_good, rollback).
THEOREM LastKnownGoodStaysAncestor == Spec => []LastKnownGoodIsAncestor
<1>1. Init => LastKnownGoodIsAncestor
  <2> SUFFICES ASSUME Init PROVE HeadRevision("last-known-good") = 0
    BY DEF LastKnownGoodIsAncestor
  <2> QED
    BY DEF Init, HeadRevision, ValidSlots, Intact
<1>2. StoreInvariant /\ StoreInvariant' /\ UndamagedStore /\ UndamagedStore'
        /\ LastKnownGoodIsAncestor /\ [Next]_vars => LastKnownGoodIsAncestor'
  BY LastKnownGoodStep
<1> QED
  BY <1>1, <1>2, StoreInvariantHolds, UndamagedStoreHolds, PTL DEF Spec

----------------------------------------------------------------------------
(* The line of a revision *)

LineEquation ==
  /\ \A r \in Option(Revision) : LineTo[r] \in Seq(Content)
  /\ \A r \in Option(Revision) \ Published : LineTo[r] = <<>>
  /\ \A r \in Published : LineTo[r] = Append(LineTo[gen[r].parent], gen[r].content)

\* The recursive definition of LineTo, like that of Ancestry.
LEMMA LineIs ==
  ASSUME StoreInvariant
  PROVE  LineEquation
<1> DEFINE V == Seq(Content)
           back == [r \in Revision |-> IF r \in Published THEN gen[r].parent ELSE 0]
           step == [r \in Revision |->
                      [l \in V |-> IF r \in Published THEN Append(l, gen[r].content) ELSE <<>>]]
           F(f) == [r \in Option(Revision) |->
                      IF r = 0 \/ gen[r] = Empty THEN <<>>
                      ELSE Append(IF gen[r].parent < r THEN f[gen[r].parent] ELSE <<>>,
                                  gen[r].content)]
<1>1. back \in [Revision -> Revision \cup {0}] /\ \A r \in Revision : back[r] < r
  <2>1. \A r \in Published : gen[r].parent < r /\ gen[r].parent \in Revision \cup {0}
    BY DEF StoreInvariant, ParentsAreEarlier, Published
  <2> QED
    BY <2>1, StoreAssumption DEF Revision
<1>2. <<>> \in V
  OBVIOUS
<1>3. \A r \in Published : gen[r].content \in Content
  BY DEF StoreInvariant, TypeOK, Published, Generation
<1>4. step \in [Revision -> [V -> V]]
  <2>1. \A r \in Published, l \in V : Append(l, gen[r].content) \in V
    BY <1>3
  <2> HIDE DEF V
  <2> QED
    BY <1>2, <2>1
<1>5. PICK f : Solves(f, Revision, V, <<>>, back, step)
  <2> HIDE DEF V, back, step
  <2>1. Recursive(MaxU64, Revision, V, <<>>, back, step)
    BY <1>1, <1>2, <1>4, StoreAssumption DEF Recursive, Revision
  <2> QED
    BY <2>1, Recursion
<1> HIDE DEF V
<1>6. \A r \in Revision :
        /\ f[r] \in V
        /\ f[r] = IF r \in Published THEN Append(f[gen[r].parent], gen[r].content) ELSE <<>>
  <2> SUFFICES ASSUME NEW r \in Revision
               PROVE  /\ f[r] \in V
                      /\ f[r] = IF r \in Published THEN Append(f[gen[r].parent], gen[r].content)
                                ELSE <<>>
    OBVIOUS
  <2>1. f[back[r]] \in V /\ f[r] \in V
    BY <1>1, <1>5 DEF Solves
  <2>2. f[r] = step[r][f[back[r]]]
    BY <1>5 DEF Solves
  <2> QED
    BY <2>1, <2>2
<1>7. f = F(f)
  <2>1. \A r \in Published : gen[r].parent < r
    BY DEF StoreInvariant, ParentsAreEarlier
  <2> QED
    BY <1>5, <1>6, <2>1 DEF Published, Solves
<1>8. LineTo = F(LineTo)
  <2>1. LineTo = CHOOSE L : L = F(L)
    BY DEF LineTo
  <2> HIDE DEF F
  <2> QED
    BY <1>7, <2>1
<1>9. \A r \in Published :
        gen[r].parent < r /\ gen[r].parent \in Option(Published) /\ r # 0 /\ gen[r] # Empty
  BY StoreAssumption DEF StoreInvariant, ParentsAreEarlier, Published, Revision
<1>10. /\ \A r \in Option(Revision) \ Published : LineTo[r] = <<>>
       /\ \A r \in Published : LineTo[r] = Append(LineTo[gen[r].parent], gen[r].content)
  BY <1>8, <1>9 DEF Published
<1> DEFINE Bad == {r \in Option(Revision) : LineTo[r] \notin V}
<1>11. Bad = {}
  <2> SUFFICES ASSUME Bad # {} PROVE FALSE
    OBVIOUS
  <2>1. Bad \subseteq Nat
    BY StoreAssumption DEF Revision
  <2>2. PICK r \in Bad : \A q \in Bad : r <= q
    BY <2>1, LeastExists
  <2>3. r \in Published
    BY <1>2, <1>10, <2>2
  <2>4. gen[r].parent \in Option(Revision) /\ gen[r].parent < r
    BY <1>9, <2>3 DEF Published
  <2>5. gen[r].parent \notin Bad
    <3>1. gen[r].parent \in Nat /\ r \in Nat
      BY <2>1, <2>2, <2>4, StoreAssumption DEF Revision
    <3> QED
      BY <2>2, <2>4, <3>1
  <2>6. LineTo[gen[r].parent] \in V /\ LineTo[r] \notin V
    BY <2>2, <2>4, <2>5
  <2>7. \A l \in V, d \in Content : Append(l, d) \in V
    BY DEF V
  <2> HIDE DEF Bad
  <2> QED
    BY <1>3, <1>10, <2>3, <2>6, <2>7
<1> QED
  BY <1>10, <1>11 DEF LineEquation, V

\* ... also after a step.
LEMMA LineAfter == StoreInvariant' => LineEquation'
<1>1. StoreInvariant => LineEquation
  BY LineIs
<1> QED
  BY <1>1, PTL

\* No revision has ancestors, or a line, when there is none.
LEMMA NothingBefore ==
  ASSUME StoreInvariant
  PROVE  0 \in Option(Revision) \ Published /\ Ancestry[0] = {} /\ LineTo[0] = <<>>
<1>1. 0 \in Option(Revision) \ Published
  BY StoreAssumption DEF Published, Revision
<1> QED
  BY <1>1, AncestryIs, LineIs DEF AncestryEquation, LineEquation

LEMMA NothingBeforeAfter == StoreInvariant' => (Ancestry[0] = {} /\ LineTo[0] = <<>>)'
<1>1. StoreInvariant => Ancestry[0] = {} /\ LineTo[0] = <<>>
  BY NothingBefore
<1> QED
  BY <1>1, PTL

\* What is published keeps its ancestors and its line for ever.
LEMMA PastIsKept ==
  ASSUME StoreInvariant, StoreInvariant', [Next]_vars
  PROVE  /\ \A r \in Option(Published) : r \in Option(Published')
         /\ \A r \in Option(Published) : Ancestry'[r] = Ancestry[r] /\ LineTo'[r] = LineTo[r]
<1>1. \A r \in Option(Published) : r \in Option(Published') /\ Ancestry'[r] = Ancestry[r]
  BY AncestryStays, NothingBefore, NothingBeforeAfter
<1>2. \A r \in Published : /\ gen'[r] = gen[r] /\ r \in Published'
                           /\ gen[r].parent < r /\ gen[r].parent \in Option(Published)
  BY PublishedStays, AncestryStays DEF StoreInvariant, ParentsAreEarlier
<1>3. Published \subseteq Nat /\ Option(Published) \subseteq Nat
  BY StoreAssumption DEF Published, Revision
<1>4. LineTo'[0] = LineTo[0]
  BY NothingBefore, NothingBeforeAfter
<1> DEFINE Bad == {r \in Published : LineTo'[r] # LineTo[r]}
<1>5. Bad = {}
  <2> SUFFICES ASSUME Bad # {} PROVE FALSE
    OBVIOUS
  <2>1. PICK r \in Bad : \A q \in Bad : r <= q
    <3>1. Bad \subseteq Nat
      BY <1>3
    <3> QED
      BY <3>1, LeastExists
  <2>2. r \in Published /\ LineTo'[r] # LineTo[r]
    BY <2>1
  <2>3. gen[r].parent \notin Bad
    <3>1. gen[r].parent \in Nat /\ r \in Nat /\ gen[r].parent < r
      BY <1>2, <1>3, <2>2
    <3> QED
      BY <2>1, <3>1
  <2>4. LineTo'[gen[r].parent] = LineTo[gen[r].parent]
    BY <1>2, <1>4, <2>2, <2>3
  <2>5. LineTo[r] = Append(LineTo[gen[r].parent], gen[r].content)
    BY <2>2, LineIs DEF LineEquation
  <2>6. LineTo'[r] = Append(LineTo'[gen'[r].parent], gen'[r].content)
    BY <1>2, <2>2, LineAfter DEF LineEquation
  <2> QED
    BY <1>2, <2>2, <2>4, <2>5, <2>6
<1> QED
  BY <1>1, <1>4, <1>5

\* The line of an ancestor is a beginning of the line.
LEMMA AncestorsAreBeginnings ==
  ASSUME StoreInvariant
  PROVE  \A r \in Published : \A a \in Ancestry[r] :
           /\ a \in Published /\ a <= r
           /\ \E n \in 1 .. Len(LineTo[r]) :
                LineTo[a] = SubSeq(LineTo[r], 1, n) /\ (a # r => n < Len(LineTo[r]))
<1> DEFINE P(r, a) == /\ a \in Published /\ a <= r
                      /\ \E n \in 1 .. Len(LineTo[r]) :
                           LineTo[a] = SubSeq(LineTo[r], 1, n) /\ (a # r => n < Len(LineTo[r]))
           Bad == {r \in Published : \E a \in Ancestry[r] : ~ P(r, a)}
<1> SUFFICES ASSUME Bad # {} PROVE FALSE
  OBVIOUS
<1>1. Published \subseteq Nat /\ Option(Published) \subseteq Nat
  BY StoreAssumption DEF Published, Revision
<1>2. PICK r \in Bad : \A q \in Bad : r <= q
  <2>1. Bad \subseteq Nat
    BY <1>1
  <2> QED
    BY <2>1, LeastExists
<1>3. r \in Published
  BY <1>2
<1>4. PICK a \in Ancestry[r] : ~ P(r, a)
  BY <1>2
<1> DEFINE p == gen[r].parent
<1>5. p < r /\ p \in Option(Published) /\ p \in Nat /\ r \in Nat
  BY <1>1, <1>3 DEF StoreInvariant, ParentsAreEarlier
<1>6. p \notin Bad
  <2> HIDE DEF Bad, p
  <2> QED
    BY <1>2, <1>5
<1>7. LineTo[r] = Append(LineTo[p], gen[r].content) /\ LineTo[p] \in Seq(Content)
  BY <1>3, <1>5, LineIs DEF LineEquation, Published
<1>8. gen[r].content \in Content
  BY <1>3 DEF StoreInvariant, TypeOK, Published, Generation
<1>9. Len(LineTo[r]) = Len(LineTo[p]) + 1 /\ Len(LineTo[p]) \in Nat
  BY <1>7, <1>8
<1> HIDE DEF p
<1>10. LineTo[r] \in Seq(Content)
  BY <1>7, <1>8
<1>11. a # r
  <2> SUFFICES ASSUME a = r PROVE FALSE
    OBVIOUS
  <2>1. SubSeq(LineTo[r], 1, Len(LineTo[r])) = LineTo[r]
    BY <1>10
  <2>2. Len(LineTo[r]) \in 1 .. Len(LineTo[r])
    BY <1>9
  <2> QED
    BY <1>3, <1>4, <1>5, <2>1, <2>2
<1>12. a \in Ancestry[p]
  BY <1>3, <1>4, <1>11, AncestryIs DEF AncestryEquation, p
<1>13. p \in Published
  BY <1>5, <1>12, NothingBefore
<1>14. P(p, a)
  BY <1>6, <1>12, <1>13
<1>15. PICK n \in 1 .. Len(LineTo[p]) : LineTo[a] = SubSeq(LineTo[p], 1, n)
  BY <1>14
<1>16. SubSeq(LineTo[r], 1, n) = SubSeq(LineTo[p], 1, n)
  <2> DEFINE l == LineTo[p]
             d == gen[r].content
  <2>1. l \in Seq(Content) /\ d \in Content /\ n \in 1 .. Len(l)
    BY <1>7, <1>8, <1>15
  <2> HIDE DEF l, d
  <2>2. SubSeq(Append(l, d), 1, n) = SubSeq(l, 1, n)
    BY <2>1
  <2> QED
    BY <1>7, <2>2 DEF l, d
<1>17. n \in 1 .. Len(LineTo[r]) /\ n < Len(LineTo[r])
  BY <1>9, <1>15
<1>18. a <= r
  BY <1>1, <1>5, <1>13, <1>14
<1> QED
  BY <1>4, <1>14, <1>15, <1>16, <1>17, <1>18

----------------------------------------------------------------------------
(* The line of the document *)

\* What is published and unreadable stays so, and only the medium makes it so.
LEMMA ReadableStep ==
  ASSUME StoreInvariant, SecretInvariant, [Next]_vars, NEW r \in Published
  PROVE  /\ Readable(r)' => Readable(r)
         /\ faults' = faults => Readable(r)' = Readable(r)
<1>1. gen'[r] = gen[r] /\ r \in Published' /\ gen[r] \in Generation
  BY PublishedStays DEF Published, StoreInvariant, TypeOK
<1>2. \A s \in gen[r].needs : s \in Secret /\ vault[s] # Empty
  BY <1>1 DEF SecretInvariant, SecretsAreKept, Generation
<1>3. Fault \/ UNCHANGED <<rotten, faults>>
  <2>1. ASSUME NEW c \in Client, ClientStep(c) PROVE UNCHANGED <<rotten, faults>>
    BY <2>1 DEF ClientStep, LoadCurrent, BeginCommit, EnterCommit, PublishSecret, VerifySecrets,
       PublishGeneration, CommitHead, CommitHeadFails, MarkLastKnownGood, BeginRollback,
       WalkParent, LoadTarget, LoadTargetYaml, ReadTarget, CommitRollback, RollbackRefused,
       Crash, store
  <2> QED
    BY <2>1 DEF Next, vars
<1>4. CASE Fault
  <2>1. faults' # faults
    BY <1>4, StoreAssumption DEF Fault, StoreInvariant, TypeOK
  <2>2. rotten \subseteq rotten'
    BY <1>4 DEF Fault, DamageSlot, DamageGeneration, DamageSecret
  <2>3. \A s \in gen[r].needs : vault'[s] \in Value => vault[s] \in Value
    BY <1>2, <1>4, StoreAssumption
       DEF Fault, DamageSlot, DamageGeneration, DamageSecret, StoreInvariant, TypeOK
  <2> QED
    BY <1>1, <2>1, <2>2, <2>3 DEF Readable
<1>5. CASE UNCHANGED <<rotten, faults>>
  <2>1. \A s \in gen[r].needs : vault'[s] = vault[s]
    <3> SUFFICES ASSUME NEW s \in gen[r].needs, vault'[s] # vault[s] PROVE FALSE
      OBVIOUS
    <3>1. s \in Secret /\ vault[s] # Empty
      BY <1>2
    <3>2. vault'[s] = Damaged /\ UNCHANGED <<gen, pc, call>> /\ vault[s] \in Value
      BY <3>1, VaultStep
    <3>3. ASSUME NEW c \in Client, ClientStep(c) PROVE FALSE
      <4>1. UNCHANGED vault \/ PublishSecret(c)
        BY <3>3 DEF ClientStep, LoadCurrent, BeginCommit, EnterCommit, VerifySecrets,
           PublishGeneration, CommitHead, CommitHeadFails, MarkLastKnownGood, BeginRollback,
           WalkParent, LoadTarget, LoadTargetYaml, ReadTarget, CommitRollback, RollbackRefused,
           Crash, store
      <4> QED
        BY <3>1, <4>1 DEF PublishSecret, Unpublished, StoreInvariant, TypeOK
    <3>4. CASE Fault
      BY <1>5, <3>4, StoreAssumption DEF Fault, StoreInvariant, TypeOK
    <3> QED
      BY <3>3, <3>4 DEF Next, vars
  <2> QED
    BY <1>1, <1>5, <2>1 DEF Readable
<1> QED
  BY <1>3, <1>4, <1>5

\* A current slot changes in the last step of a commit, or is damaged.
LEMMA CurrentSlotsStep ==
  ASSUME StoreInvariant, [Next]_vars
  PROVE  \/ slot'["current"] = slot["current"]
         \/ \E c \in Client : CommitHead(c)
         \/ /\ Fault /\ UNCHANGED <<gen, call, pc>>
            /\ \A i \in Slot : \/ slot'["current"][i] = slot["current"][i]
                               \/ slot'["current"][i] = Damaged /\ Intact("current", i)
<1>1. ASSUME NEW c \in Client, ClientStep(c)
      PROVE  slot'["current"] = slot["current"] \/ CommitHead(c)
  <2>1. ASSUME MarkLastKnownGood(c) PROVE slot'["current"] = slot["current"]
    BY <2>1 DEF MarkLastKnownGood, WriteHead, StoreInvariant, TypeOK
  <2>2. ASSUME ~ CommitHead(c), ~ MarkLastKnownGood(c) PROVE UNCHANGED slot
    BY <1>1, <2>2 DEF ClientStep, LoadCurrent, BeginCommit, EnterCommit, PublishSecret,
       VerifySecrets, PublishGeneration, CommitHeadFails, BeginRollback, WalkParent, LoadTarget,
       LoadTargetYaml, ReadTarget, CommitRollback, RollbackRefused, Crash, store
  <2> QED
    BY <2>1, <2>2
<1>2. CASE Fault
  <2>1. CASE DamageSlot
    <3>1. PICK n \in HeadName, i \in Slot :
            Intact(n, i) /\ slot' = [slot EXCEPT ![n][i] = Damaged]
      BY <2>1 DEF DamageSlot
    <3>2. slot \in [HeadName -> [Slot -> Pointer \cup {Empty, Damaged}]]
      BY DEF StoreInvariant, TypeOK
    <3>3. \A j \in Slot : \/ slot'["current"][j] = slot["current"][j]
                          \/ slot'["current"][j] = Damaged /\ Intact("current", j)
      BY <3>1, <3>2
    <3> QED
      BY <1>2, <2>1, <3>3 DEF Fault, DamageSlot
  <2>2. CASE ~ DamageSlot
    BY <1>2, <2>2 DEF Fault, DamageGeneration, DamageSecret
  <2> QED
    BY <2>1, <2>2
<1> QED
  BY <1>1, <1>2 DEF Next, vars

\* What a step does to base and to the revision a call builds on.
LEMMA CallsBuildOnBaseStep ==
  ASSUME StoreInvariant, StoreInvariant', CallsBuildOnBase, [Next]_vars
  PROVE  CallsBuildOnBase'
<1>1. \A r \in Option(Published) : r \in Option(Published')
  BY PastIsKept
<1>2. TypeOK
  BY DEF StoreInvariant
<1> SUFFICES ASSUME NEW d \in Client
             PROVE  /\ base'[d] \in Option(Published')
                    /\ pc'[d] # "idle" => call'[d].expected = base'[d]
  BY DEF CallsBuildOnBase
<1>3. base[d] \in Option(Published) /\ (pc[d] # "idle" => call[d].expected = base[d])
  BY DEF CallsBuildOnBase
<1>4. CASE UNCHANGED <<base, pc, call>>
  BY <1>1, <1>3, <1>4
<1>5. ASSUME NEW c \in Client, ClientStep(c), c # d
      PROVE  base'[d] = base[d] /\ pc'[d] = pc[d] /\ call'[d] = call[d]
  BY <1>2, <1>5 DEF ClientStep, LoadCurrent, BeginCommit, EnterCommit, PublishSecret, VerifySecrets,
     PublishGeneration, CommitHead, CommitHeadFails, MarkLastKnownGood, BeginRollback, WalkParent,
     LoadTarget, LoadTargetYaml, ReadTarget, CommitRollback, RollbackRefused, Crash, Finish, TypeOK
<1>6. CASE ClientStep(d)
  <2>1. CASE LoadCurrent(d)
    BY <1>1, <1>2, <2>1, HeadIsPublished DEF LoadCurrent, TypeOK
  <2>2. ASSUME NEW k, NEW e, EnterCommit(d, k, e), e = base[d]
        PROVE  base'[d] = base[d] /\ call'[d].expected = base[d]
    BY <1>2, <2>2 DEF EnterCommit, CommitCall, TypeOK
  <2>3. CASE BeginCommit(d)
    BY <1>1, <1>3, <2>2, <2>3 DEF BeginCommit
  <2>4. CASE CommitRollback(d)
    BY <1>1, <1>3, <2>2, <2>4 DEF CommitRollback
  <2>5. CASE PublishSecret(d) \/ VerifySecrets(d) \/ PublishGeneration(d) \/ CommitHeadFails(d)
             \/ MarkLastKnownGood(d) \/ LoadTarget(d) \/ LoadTargetYaml(d) \/ RollbackRefused(d)
    BY <1>1, <1>2, <1>3, <2>5 DEF PublishSecret, VerifySecrets, PublishGeneration, CommitHeadFails,
       MarkLastKnownGood, LoadTarget, LoadTargetYaml, ReadTarget, RollbackRefused, Finish, TypeOK
  <2>6. CASE CommitHead(d)
    <3>1. call[d].fresh \in Published
      BY <2>6 DEF CommitHead, StoreInvariant, FreshIsReserved
    <3> QED
      BY <1>1, <1>2, <2>6, <3>1 DEF CommitHead, Finish, TypeOK
  <2>7. CASE BeginRollback(d)
    BY <1>1, <1>2, <1>3, <2>7 DEF BeginRollback, RollbackCall, TypeOK
  <2>8. CASE WalkParent(d)
    <3>1. call[d] \in CallType
      BY <1>2 DEF TypeOK
    <3>2. CASE Finish(d)
      BY <1>1, <1>2, <1>3, <2>8, <3>2 DEF WalkParent, Finish, TypeOK
    <3>3. CASE ~ Finish(d)
      <4>1. call'[d].expected = call[d].expected /\ pc[d] # "idle" /\ base' = base
        BY <1>2, <2>8, <3>1, <3>3 DEF WalkParent, TypeOK, CallType
      <4> QED
        BY <1>1, <1>3, <4>1
    <3> QED
      BY <3>2, <3>3
  <2>9. CASE Crash(d)
    BY <1>2, <2>9 DEF Crash, Finish, TypeOK
  <2> QED
    BY <1>6, <2>1, <2>3, <2>4, <2>5, <2>6, <2>7, <2>8, <2>9 DEF ClientStep
<1> QED
  BY <1>1, <1>3, <1>4, <1>5, <1>6 DEF Next, vars, Fault

\* The valid slots are told apart by their epochs, which are numbers.
LEMMA SlotsDiffer ==
  ASSUME StoreInvariant
  PROVE  /\ \A i \in Slot : Intact("current", i) =>
              /\ slot["current"][i].epoch \in Int
              /\ slot["current"][i].revision \in Published
         /\ \A i, j \in Slot : (i # j /\ Intact("current", i) /\ Intact("current", j)) =>
              slot["current"][i].epoch # slot["current"][j].epoch
BY StoreAssumption
   DEF StoreInvariant, TypeOK, Intact, Pointer, Revision, HeadsOrdered, HeadsPointToGenerations

\* What every valid current slot names is the head or one of its ancestors.
LEMMA ValidSlotsAreInLine ==
  ASSUME StoreInvariant, SlotsInLine, NEW i \in ValidSlots("current")
  PROVE  /\ HeadRevision("current") \in Published
         /\ slot["current"][i].revision \in Ancestry[HeadRevision("current")]
<1> DEFINE N == NewestSlot("current")
<1>1. /\ N \in ValidSlots("current")
      /\ \A j \in ValidSlots("current") : slot["current"][j].epoch <= slot["current"][N].epoch
      /\ HeadRevision("current") = slot["current"][N].revision
  BY NewestSlotIsValid DEF StoreInvariant, HeadRevision
<1>2. N \in Slot /\ Intact("current", N) /\ i \in Slot /\ Intact("current", i)
  BY <1>1 DEF ValidSlots
<1> HIDE DEF N
<1>3. HeadRevision("current") \in Published
  BY <1>1, <1>2, SlotsDiffer
<1>4. CASE i = N
  BY <1>1, <1>3, <1>4, AncestryIs DEF AncestryEquation
<1>5. CASE i # N
  <2>1. slot["current"][i].epoch < slot["current"][N].epoch
    BY <1>1, <1>2, <1>5, SlotsDiffer
  <2> QED
    BY <1>1, <1>2, <1>3, <2>1 DEF SlotsInLine
<1> QED
  BY <1>4, <1>5

\* The first part of SlotsInLine after a step.
LEMMA SlotPairsStep ==
  ASSUME StoreInvariant, StoreInvariant', LineInvariant, [Next]_vars,
         NEW i \in Slot, NEW j \in Slot, Intact("current", i)', Intact("current", j)',
         slot'["current"][i].epoch < slot'["current"][j].epoch
  PROVE  slot'["current"][i].revision \in Ancestry'[slot'["current"][j].revision]
<1>1. CASE slot'["current"][i] = slot["current"][i] /\ slot'["current"][j] = slot["current"][j]
  <2>1. Intact("current", i) /\ Intact("current", j)
    BY <1>1 DEF Intact
  <2>2. slot["current"][j].revision \in Published
    BY <2>1, SlotsDiffer
  <2> QED
    BY <1>1, <2>1, <2>2, PastIsKept DEF LineInvariant, SlotsInLine
<1>2. ASSUME NEW c \in Client, CommitHead(c)
      PROVE  slot'["current"][i].revision \in Ancestry'[slot'["current"][j].revision]
  <2> DEFINE T == TargetSlot("current")
             f == call[c].fresh
             e == call[c].expected
  <2>1. /\ pc[c] = "head" /\ UNCHANGED gen /\ HeadReadable("current")
        /\ WriteHead("current", f)
    BY <1>2 DEF CommitHead, WriteHead
  <2>2. /\ T \in Slot
        /\ slot'["current"][T] = [epoch |-> NextEpoch("current"), revision |-> f]
        /\ \A q \in Slot : q # T => slot'["current"][q] = slot["current"][q]
    BY <2>1, TargetSlotIsSlot DEF WriteHead, StoreInvariant, TypeOK
  <2>3. ASSUME NEW q \in Slot, q # T, Intact("current", q)'
        PROVE  /\ slot'["current"][q].revision \in Ancestry[e]
               /\ slot'["current"][q].epoch < NextEpoch("current")
    <3>1. Intact("current", q) /\ slot'["current"][q] = slot["current"][q]
      BY <2>2, <2>3 DEF Intact
    <3>2. q \in ValidSlots("current") /\ slot["current"][q].epoch < NextEpoch("current")
      BY <2>1, <2>3, <3>1, OtherSlotIsOlder DEF StoreInvariant
    <3> QED
      BY <2>1, <3>1, <3>2 DEF LineInvariant, SlotsInLine, CommitPhase
  <2>4. f \in Published /\ gen[f].parent = e /\ e \in Option(Published)
    BY <2>1 DEF StoreInvariant, FreshIsReserved, ParentsAreEarlier
  <2>5. Ancestry'[f] = {f} \cup Ancestry[e]
    BY <2>4, AncestryIs, PastIsKept DEF AncestryEquation
  <2>6. \A q \in Slot : Intact("current", q)' => slot'["current"][q].epoch \in Int
    BY StoreAssumption DEF StoreInvariant, TypeOK, Intact, Pointer, Revision
  <2> HIDE DEF T, f, e
  <2>7. CASE j = T
    <3>1. i # T
      BY <2>6, <2>7
    <3> QED
      BY <2>2, <2>3, <2>5, <2>7, <3>1
  <2>8. CASE j # T /\ i = T
    BY <2>2, <2>3, <2>6, <2>8
  <2>9. CASE j # T /\ i # T
    BY <1>1, <2>2, <2>9
  <2> QED
    BY <2>7, <2>8, <2>9
<1> QED
  BY <1>1, <1>2, CurrentSlotsStep DEF Intact

\* The second part of SlotsInLine after a step.
LEMMA CommitInLineStep ==
  ASSUME StoreInvariant, StoreInvariant', SecretInvariant, LineInvariant, [Next]_vars,
         NEW d \in Client, pc'[d] \in CommitPhase
  PROVE  /\ \A i \in ValidSlots("current")' :
              slot'["current"][i].revision \in Ancestry'[call'[d].expected]
         /\ (\A i \in Slot : slot'["current"][i] = Empty) => call'[d].expected = 0
<1>1. ASSUME NEW i \in Slot, i \in ValidSlots("current")', slot'["current"][i] = slot["current"][i]
      PROVE  i \in ValidSlots("current")
  <2>1. Intact("current", i) /\ Readable(slot["current"][i].revision)'
    BY <1>1 DEF ValidSlots, Intact
  <2>2. slot["current"][i].revision \in Published
    BY <2>1, SlotsDiffer
  <2>3. Readable(slot["current"][i].revision)
    <3>1. PICK r \in Published : r = slot["current"][i].revision
      BY <2>2
    <3>2. Readable(r)'
      BY <1>1, <3>1 DEF ValidSlots
    <3> QED
      BY <3>1, <3>2, ReadableStep
  <2> QED
    BY <2>1, <2>3 DEF ValidSlots
<1>2. CASE pc[d] \in CommitPhase /\ call'[d] = call[d]
  <2>1. \A i \in Slot : \/ slot'["current"][i] = slot["current"][i]
                        \/ slot'["current"][i] = Damaged /\ slot["current"][i] # Empty
    <3>1. ASSUME NEW c \in Client, CommitHead(c) PROVE FALSE
      <4>1. c = d
        BY <1>2, <3>1, OneCommitter DEF CommitHead, CommitPhase
      <4> QED
        BY <3>1, <4>1 DEF CommitHead, Finish, StoreInvariant, TypeOK, CommitPhase
    <3> QED
      BY <3>1, CurrentSlotsStep DEF Intact
  <2>2. call[d].expected \in Option(Published)
    BY <1>2 DEF LineInvariant, CallsBuildOnBase, CommitPhase
  <2>3. ASSUME NEW i \in ValidSlots("current")'
        PROVE  slot'["current"][i].revision \in Ancestry'[call'[d].expected]
    <3>1. i \in Slot /\ slot'["current"][i] = slot["current"][i]
      BY <2>1, <2>3 DEF ValidSlots, Intact
    <3>2. i \in ValidSlots("current")
      BY <1>1, <2>3, <3>1
    <3> QED
      BY <1>2, <2>2, <3>1, <3>2, PastIsKept DEF LineInvariant, SlotsInLine
  <2>4. (\A i \in Slot : slot'["current"][i] = Empty) => call'[d].expected = 0
    BY <1>2, <2>1, StoreAssumption DEF LineInvariant, SlotsInLine
  <2> QED
    BY <2>3, <2>4
<1>3. ASSUME NEW k, NEW e, EnterCommit(d, k, e)
      PROVE  /\ \A i \in ValidSlots("current")' :
                  slot'["current"][i].revision \in Ancestry'[call'[d].expected]
             /\ (\A i \in Slot : slot'["current"][i] = Empty) => call'[d].expected = 0
  <2>1. UNCHANGED store /\ e = HeadRevision("current") /\ call'[d].expected = e
    BY <1>3 DEF EnterCommit, CommitAccepted, CommitCall, StoreInvariant, TypeOK
  <2>2. e \in Option(Published)
    BY <2>1, HeadIsPublished
  <2>3. ASSUME NEW i \in ValidSlots("current")'
        PROVE  slot'["current"][i].revision \in Ancestry'[call'[d].expected]
    <3>1. slot'["current"][i] = slot["current"][i] /\ i \in ValidSlots("current")
      BY <1>1, <2>1, <2>3 DEF store, ValidSlots
    <3> QED
      BY <2>1, <2>2, <3>1, ValidSlotsAreInLine, PastIsKept DEF LineInvariant
  <2>4. (\A i \in Slot : slot'["current"][i] = Empty) => call'[d].expected = 0
    BY <2>1 DEF store, HeadRevision, ValidSlots, Intact
  <2> QED
    BY <2>3, <2>4
<1> QED
  BY <1>2, <1>3, CommitGoesOn

\* What clients know and what the slots name stays in line, whatever is damaged
\* and whoever dies.
THEOREM LineInvariantHolds == Spec => []LineInvariant
<1>1. Init => LineInvariant
  BY StoreAssumption
     DEF Init, LineInvariant, CallsBuildOnBase, SlotsInLine, Intact, CommitPhase
<1>2. StoreInvariant /\ StoreInvariant' /\ SecretInvariant /\ LineInvariant /\ [Next]_vars
        => LineInvariant'
  <2> SUFFICES ASSUME StoreInvariant, StoreInvariant', SecretInvariant, LineInvariant, [Next]_vars
               PROVE  LineInvariant'
    OBVIOUS
  <2>1. CallsBuildOnBase'
    BY CallsBuildOnBaseStep DEF LineInvariant
  <2>2. SlotsInLine'
    BY SlotPairsStep, CommitInLineStep DEF SlotsInLine
  <2> QED
    BY <2>1, <2>2 DEF LineInvariant
<1> QED
  BY <1>1, <1>2, StoreInvariantHolds, SecretInvariantHolds, PTL DEF Spec

----------------------------------------------------------------------------
(* The store implements the versioned document *)

\* The line a reader finds, by what is left of the current slots.
LineFound ==
  /\ HeadReadable("current") <=>
       (\A i \in Slot : slot["current"][i] = Empty) \/ ValidSlots("current") # {}
  /\ (\A i \in Slot : slot["current"][i] = Empty) => CurrentLine = <<>>
  /\ (\E i \in Slot : slot["current"][i] # Empty) /\ ValidSlots("current") = {}
       => CurrentLine = Unreadable
  /\ ValidSlots("current") # {} => CurrentLine = LineTo[HeadRevision("current")]

LEMMA FindsLine ==
  ASSUME StoreInvariant
  PROVE  LineFound
<1>1. \A i, j \in ValidSlots("current") :
        slot["current"][i].epoch = slot["current"][j].epoch =>
          slot["current"][i] = slot["current"][j]
  BY SlotsDiffer DEF ValidSlots
<1>2. HeadReadable("current") <=>
        (\A i \in Slot : slot["current"][i] = Empty) \/ ValidSlots("current") # {}
  BY <1>1 DEF HeadReadable
<1>3. (\A i \in Slot : slot["current"][i] = Empty)
        => ValidSlots("current") = {} /\ HeadRevision("current") = 0
  BY DEF ValidSlots, Intact, HeadRevision
<1> QED
  BY <1>2, <1>3, NothingBefore DEF LineFound, CurrentLine

\* ... also after a step.
LEMMA FindsLineAfter == StoreInvariant' => LineFound'
<1>1. StoreInvariant => LineFound
  BY FindsLine
<1> QED
  BY <1>1, PTL

\* A step of a client that leaves the current slots alone leaves the document as
\* it is.
LEMMA SameLine ==
  ASSUME StoreInvariant, StoreInvariant', SecretInvariant, [Next]_vars,
         slot'["current"] = slot["current"], faults' = faults
  PROVE  CurrentLine' = CurrentLine
<1>1. ValidSlots("current")' = ValidSlots("current")
  <2>1. ASSUME NEW i \in Slot PROVE i \in ValidSlots("current")' <=> i \in ValidSlots("current")
    <3>1. CASE Intact("current", i)
      <4>1. PICK r \in Published : r = slot["current"][i].revision
        BY <3>1, SlotsDiffer
      <4>2. Readable(r)' = Readable(r)
        BY ReadableStep
      <4> QED
        BY <4>1, <4>2 DEF ValidSlots, Intact
    <3>2. CASE ~ Intact("current", i)
      BY <3>2 DEF ValidSlots, Intact
    <3> QED
      BY <3>1, <3>2
  <2> QED
    BY <2>1 DEF ValidSlots
<1>2. HeadRevision("current")' = HeadRevision("current")
  <2>1. NewestSlot("current")' = NewestSlot("current")
    BY <1>1 DEF NewestSlot
  <2> QED
    BY <1>1, <2>1 DEF HeadRevision
<1>3. HeadReadable("current")' = HeadReadable("current")
  BY <1>1 DEF HeadReadable
<1>4. HeadRevision("current") \in Option(Published)
  BY HeadIsPublished
<1>5. LineTo'[HeadRevision("current")] = LineTo[HeadRevision("current")]
  BY <1>4, PastIsKept
<1> QED
  BY <1>2, <1>3, <1>5 DEF CurrentLine

\* What the clients know only changes with base.
LEMMA SameKnowledge ==
  ASSUME StoreInvariant, StoreInvariant', LineInvariant, [Next]_vars
  PROVE  \A c \in Client : base'[c] = base[c] => LineTo'[base'[c]] = LineTo[base[c]]
BY PastIsKept DEF LineInvariant, CallsBuildOnBase

\* A proper ancestor's line is what damage may leave of a line.
LEMMA AncestorRemains ==
  ASSUME StoreInvariant, NEW r \in Published, NEW a \in Ancestry[r], a # r
  PROVE  LineTo[r] # <<>> /\ LineTo[a] \in Document!Remains(LineTo[r])
<1>1. PICK n \in 1 .. Len(LineTo[r]) :
        LineTo[a] = SubSeq(LineTo[r], 1, n) /\ n < Len(LineTo[r])
  BY AncestorsAreBeginnings
<1>2. LineTo[r] \in Seq(Content)
  BY LineIs DEF LineEquation, Published
<1>3. Len(LineTo[r]) \in Nat
  BY <1>2
<1>4. n \in 1 .. Len(LineTo[r]) - 1
  BY <1>1, <1>3
<1>5. LineTo[r] # <<>>
  BY <1>1, <1>4
<1> QED
  BY <1>1, <1>4, <1>5 DEF Document!Remains

LEMMA NewestIsValidAfter ==
  StoreInvariant' => (ValidSlots("current") # {} =>
                        NewestSlot("current") \in ValidSlots("current"))'
<1>1. StoreInvariant => (ValidSlots("current") # {} =>
                        NewestSlot("current") \in ValidSlots("current"))
  BY NewestSlotIsValid DEF StoreInvariant
<1> QED
  BY <1>1, PTL

\* Losing slots, generations or secrets leaves the document, cuts it back or
\* makes it unreadable.
LEMMA DamageRemains ==
  ASSUME StoreInvariant, StoreInvariant', SecretInvariant, LineInvariant, Fault
  PROVE  \/ CurrentLine' = CurrentLine
         \/ CurrentLine \notin {Unreadable, <<>>} /\ CurrentLine' \in Document!Remains(CurrentLine)
<1> DEFINE H == HeadRevision("current")
           valid == ValidSlots("current")
           N == NewestSlot("current")
<1>0. [Next]_vars
  BY DEF Next
<1>1. \A i \in Slot : \/ slot'["current"][i] = slot["current"][i]
                      \/ slot'["current"][i] = Damaged /\ Intact("current", i)
  <2>1. ASSUME NEW c \in Client, CommitHead(c) PROVE FALSE
    BY <2>1, StoreAssumption DEF CommitHead, Fault, StoreInvariant, TypeOK
  <2> QED
    BY <1>0, <2>1, CurrentSlotsStep
<1>2. /\ (\A i \in Slot : slot'["current"][i] = Empty)
           <=> (\A i \in Slot : slot["current"][i] = Empty)
      /\ \A i \in valid' : slot'["current"][i] = slot["current"][i]
  BY <1>1, StoreAssumption DEF Intact, ValidSlots
<1>3. valid' \subseteq valid
  <2> SUFFICES ASSUME NEW i \in valid' PROVE i \in valid
    OBVIOUS
  <2>1. i \in Slot /\ Intact("current", i) /\ slot'["current"][i] = slot["current"][i]
    BY <1>2 DEF ValidSlots, Intact
  <2>2. PICK r \in Published : r = slot["current"][i].revision
    BY <2>1, SlotsDiffer
  <2>3. Readable(r)'
    BY <2>1, <2>2 DEF ValidSlots
  <2>4. Readable(r)
    BY <1>0, <2>3, ReadableStep
  <2> QED
    BY <2>1, <2>2, <2>4 DEF ValidSlots
<1>4. LineFound /\ LineFound'
  BY FindsLine, FindsLineAfter
<1>5. CASE valid = {}
  <2>1. valid' = {}
    BY <1>3, <1>5
  <2> QED
    BY <1>2, <1>4, <1>5, <2>1 DEF LineFound
<1>6. CASE valid # {} /\ valid' = {}
  <2>1. CurrentLine' = Unreadable
    <3>1. \E i \in Slot : slot["current"][i] # Empty
      BY <1>6 DEF ValidSlots, Intact
    <3> QED
      BY <1>2, <1>4, <1>6, <3>1 DEF LineFound
  <2>2. H \in Published /\ CurrentLine = LineTo[H]
    BY <1>4, <1>6, ValidSlotsAreInLine DEF LineFound, LineInvariant
  <2>3. CurrentLine \in Seq(Content) /\ CurrentLine # <<>>
    <3>1. H \in Ancestry[H]
      BY <2>2, AncestryIs DEF AncestryEquation
    <3>2. PICK n \in 1 .. Len(LineTo[H]) : TRUE
      BY <2>2, <3>1, AncestorsAreBeginnings
    <3> QED
      BY <2>2, <3>2, LineIs DEF LineEquation, Published
  <2> QED
    BY <2>1, <2>3, UnreadableAssumption DEF Document!Remains
<1>7. CASE valid' # {}
  <2>1. PICK i \in valid' : i = N'
    <3>1. (NewestSlot("current") \in ValidSlots("current"))'
      BY <1>7, NewestIsValidAfter
    <3> QED
      BY <3>1
  <2>2. H' = slot["current"][i].revision
    BY <1>2, <1>7, <2>1 DEF HeadRevision
  <2>3. i \in valid
    BY <1>3, <2>1
  <2>4. H \in Published /\ H' \in Ancestry[H]
    BY <2>2, <2>3, ValidSlotsAreInLine DEF LineInvariant
  <2>5. CurrentLine = LineTo[H] /\ CurrentLine' = LineTo'[H']
    BY <1>4, <1>7, <2>3 DEF LineFound
  <2>6. H' \in Published
    BY <2>4, AncestorsAreBeginnings
  <2>7. CurrentLine' = LineTo[H']
    BY <1>0, <2>5, <2>6, PastIsKept
  <2>8. CASE H' = H
    BY <2>5, <2>7, <2>8
  <2>9. CASE H' # H
    <3>1. CurrentLine # <<>> /\ CurrentLine' \in Document!Remains(CurrentLine)
      BY <2>4, <2>5, <2>7, <2>9, AncestorRemains
    <3>2. CurrentLine \in Seq(Content)
      BY <2>4, <2>5, LineIs DEF LineEquation, Published
    <3> QED
      BY <3>1, <3>2, UnreadableAssumption
  <2> QED
    BY <2>8, <2>9
<1> QED
  BY <1>5, <1>6, <1>7

\* The last step of a commit extends the document its author had loaded; only
\* damage meanwhile can have cut back what it extends, or what it writes.
LEMMA CommitRefined ==
  ASSUME StoreInvariant, StoreInvariant', SecretInvariant, UndamagedStore, LineInvariant,
         NEW c \in Client, CommitHead(c)
  PROVE  LET extended == Append(LineTo[base[c]], gen[call[c].fresh].content)
         IN  /\ CurrentLine # Unreadable
             /\ \/ CurrentLine = LineTo[base[c]]
                \/ /\ faults > 0 /\ LineTo[base[c]] # <<>>
                   /\ CurrentLine \in Document!Remains(LineTo[base[c]])
             /\ \/ CurrentLine' = extended
                \/ faults > 0 /\ CurrentLine' \in Document!Remains(extended)
             /\ LineTo'[call[c].fresh] = extended
             /\ gen[call[c].fresh].content \in Content
<1> DEFINE T == TargetSlot("current")
           f == call[c].fresh
           e == base[c]
           H == HeadRevision("current")
           extended == Append(LineTo[e], gen[f].content)
<1>0. [Next]_vars
  BY DEF Next, ClientStep
<1>1. /\ pc[c] = "head" /\ UNCHANGED <<gen, rotten, vault, faults>> /\ HeadReadable("current")
      /\ WriteHead("current", f)
  BY DEF CommitHead, WriteHead
<1>2. /\ T \in Slot
      /\ slot'["current"][T] = [epoch |-> NextEpoch("current"), revision |-> f]
      /\ \A q \in Slot : q # T => slot'["current"][q] = slot["current"][q]
  BY <1>1, TargetSlotIsSlot DEF WriteHead, StoreInvariant, TypeOK
<1>3. call[c].expected = e /\ e \in Option(Published)
  BY <1>1 DEF LineInvariant, CallsBuildOnBase
<1>4. f \in Published /\ gen[f].parent = e
  BY <1>1, <1>3 DEF StoreInvariant, FreshIsReserved
<1>5. LineTo[f] = extended /\ Ancestry[f] = {f} \cup Ancestry[e]
  BY <1>4, LineIs, AncestryIs DEF LineEquation, AncestryEquation
<1>6. LineTo'[f] = extended
  BY <1>0, <1>4, <1>5, PastIsKept
<1>7. gen[f].content \in Content
  BY <1>4 DEF StoreInvariant, TypeOK, Published, Generation
<1>8. LineTo[e] \in Seq(Content)
  BY <1>3, LineIs DEF LineEquation, Published
<1>9. faults = 0 \/ faults > 0
  BY StoreAssumption DEF StoreInvariant, TypeOK
<1>10. \A r \in Option(Published) : LineTo[r] \in Seq(Content)
  BY LineIs DEF LineEquation, Published
<1>11. LineFound /\ LineFound'
  BY FindsLine, FindsLineAfter
<1>12. f \notin Ancestry[e]
  <2>1. e < f /\ f \in Nat /\ e \in Nat
    BY <1>3, <1>4, StoreAssumption DEF StoreInvariant, ParentsAreEarlier, Published, Revision
  <2>2. CASE e = 0
    BY <2>2, NothingBefore
  <2>3. CASE e # 0
    BY <1>3, <2>1, <2>3, AncestorsAreBeginnings
  <2> QED
    BY <2>2, <2>3
<1> HIDE DEF T, f, e, H, extended
<1>13. /\ CurrentLine # Unreadable
       /\ \/ CurrentLine = LineTo[e]
          \/ faults > 0 /\ LineTo[e] # <<>> /\ CurrentLine \in Document!Remains(LineTo[e])
  <2>1. CASE ValidSlots("current") = {}
    <3>1. CurrentLine = <<>> /\ e = 0
      BY <1>1, <1>3, <1>11, <2>1 DEF LineFound, LineInvariant, SlotsInLine, CommitPhase
    <3>2. <<>> \in Seq(Content)
      OBVIOUS
    <3> QED
      BY <3>1, <3>2, NothingBefore, UnreadableAssumption
  <2>2. CASE ValidSlots("current") # {}
    <3>1. PICK i \in ValidSlots("current") : H = slot["current"][i].revision
      BY <2>2, NewestSlotIsValid DEF HeadRevision, StoreInvariant, H
    <3>2. H \in Ancestry[e]
      BY <1>1, <1>3, <3>1 DEF LineInvariant, SlotsInLine, CommitPhase
    <3>3. CurrentLine = LineTo[H]
      BY <1>11, <2>2 DEF LineFound, H
    <3>4. e \in Published
      BY <1>3, <3>2, NothingBefore
    <3>5. H \in Published
      BY <3>2, <3>4, AncestorsAreBeginnings
    <3>6. CurrentLine # Unreadable
      BY <1>10, <3>3, <3>5, UnreadableAssumption
    <3>7. CASE H = e
      BY <3>3, <3>6, <3>7
    <3>8. CASE H # e
      <4>1. faults # 0
        BY <1>1, <1>3, <3>8 DEF UndamagedStore, ExpectedIsHead, CommitPhase, H
      <4> QED
        BY <1>9, <3>2, <3>3, <3>4, <3>6, <3>8, <4>1, AncestorRemains
    <3> QED
      BY <3>7, <3>8
  <2> QED
    BY <2>1, <2>2
<1>14. CurrentLine' = extended \/ (faults > 0 /\ CurrentLine' \in Document!Remains(extended))
  <2>1. f \in Revision
    BY <1>4 DEF Published
  <2>2. \A i \in Slot : i \in ValidSlots("current")' /\ i # T => Intact("current", i)
    BY <1>2 DEF ValidSlots, Intact
  <2>3. [epoch |-> NextEpoch("current"), revision |-> f] \notin {Empty, Damaged}
    BY <1>1, <2>1, WriteHeadType, StoreAssumption DEF StoreInvariant, Pointer
  <2>4. PICK r \in Published : r = f
    BY <1>4
  <2>5. CASE Readable(r)'
    <3>1. HeadRevision("current")' = r
      BY <1>1, <2>1, <2>2, <2>4, <2>5, WrittenHeadIsRead DEF StoreInvariant, T
    <3>2. T \in ValidSlots("current")'
      BY <1>2, <2>3, <2>4, <2>5 DEF ValidSlots, Intact
    <3>3. CurrentLine' = LineTo'[HeadRevision("current")']
      BY <1>11, <3>2 DEF LineFound
    <3> QED
      BY <1>6, <2>4, <3>1, <3>3
  <2>6. CASE ~ Readable(r)'
    <3>1. ~ Readable(r)
      BY <1>0, <1>1, <2>6, ReadableStep
    <3>2. faults > 0
      BY <1>9, <2>4, <3>1, IntactSlotsAreValid DEF UndamagedStore
    <3>3. T \notin ValidSlots("current")'
      BY <1>2, <2>4, <2>6 DEF ValidSlots
    <3>4. CASE ValidSlots("current")' = {}
      <4>1. CurrentLine' = Unreadable
        BY <1>2, <1>11, <2>3, <3>4 DEF LineFound
      <4> QED
        BY <3>2, <4>1 DEF Document!Remains
    <3>5. CASE ValidSlots("current")' # {}
      <4>1. PICK i \in ValidSlots("current")' : i = NewestSlot("current")'
        BY <3>5, NewestIsValidAfter
      <4>2. i \in Slot /\ i # T /\ Intact("current", i) /\ slot'["current"][i] = slot["current"][i]
        BY <1>2, <2>2, <3>3 DEF ValidSlots
      <4>3. HeadRevision("current")' = slot["current"][i].revision
        BY <3>5, <4>1, <4>2 DEF HeadRevision
      <4>4. i \in ValidSlots("current")
        BY <1>1, <4>2, OtherSlotIsOlder DEF StoreInvariant, T
      <4>5. slot["current"][i].revision \in Ancestry[e]
        BY <1>1, <1>3, <4>4 DEF LineInvariant, SlotsInLine, CommitPhase
      <4>6. slot["current"][i].revision \in Published
        BY <4>2, SlotsDiffer
      <4>7. CurrentLine' = LineTo[slot["current"][i].revision]
        BY <1>0, <1>11, <3>5, <4>3, <4>6, PastIsKept DEF LineFound
      <4> QED
        BY <1>4, <1>5, <1>12, <3>2, <4>5, <4>7, AncestorRemains
    <3> QED
      BY <3>4, <3>5
  <2> QED
    BY <2>5, <2>6
<1> QED
  BY <1>6, <1>7, <1>13, <1>14 DEF f, e, extended

\* Every step of the store is a step of the document, or leaves it alone.
LEMMA DocumentStep ==
  ASSUME StoreInvariant, StoreInvariant', SecretInvariant, UndamagedStore, LineInvariant,
         [Next]_vars
  PROVE  [Document!Next]_(Document!docVars)
<1> DEFINE Known == [c \in Client |-> LineTo[base[c]]]
<1>1. \A c \in Client : base'[c] = base[c] => LineTo'[base'[c]] = LineTo[base[c]]
  BY SameKnowledge
<1>2. ASSUME UNCHANGED base PROVE Known' = Known
  BY <1>1, <1>2
<1>3. ASSUME UNCHANGED <<base, faults>>, slot'["current"] = slot["current"]
      PROVE  UNCHANGED Document!docVars
  <2>1. CurrentLine' = CurrentLine
    BY <1>3, SameLine
  <2> QED
    BY <1>2, <1>3, <2>1 DEF Document!docVars
<1>4. CASE UNCHANGED vars
  BY <1>3, <1>4 DEF vars
<1>5. ASSUME NEW c \in Client, NEW l, NEW r, base' = [base EXCEPT ![c] = r], LineTo'[r] = l
      PROVE  Known' = [Known EXCEPT ![c] = l]
  <2>1. \A d \in Client : d # c => base'[d] = base[d] /\ LineTo'[base'[d]] = LineTo[base[d]]
    BY <1>1, <1>5 DEF StoreInvariant, TypeOK
  <2>2. base'[c] = r
    BY <1>5 DEF StoreInvariant, TypeOK
  <2>3. \A d \in Client : LineTo'[base'[d]] = IF d = c THEN l ELSE LineTo[base[d]]
    BY <1>5, <2>1, <2>2
  <2> QED
    BY <2>3
<1>6. ASSUME NEW c \in Client, ClientStep(c) PROVE [Document!Next]_(Document!docVars)
  <2>1. CASE LoadCurrent(c)
    <3>1. /\ HeadReadable("current") /\ UNCHANGED <<store, faults>>
          /\ base' = [base EXCEPT ![c] = HeadRevision("current")]
      BY <2>1 DEF LoadCurrent
    <3>2. CurrentLine' = CurrentLine
      BY <3>1, SameLine DEF store
    <3>3. CurrentLine = LineTo[HeadRevision("current")]
      BY <3>1 DEF CurrentLine
    <3>4. HeadRevision("current") \in Option(Published)
      BY HeadIsPublished
    <3>5. CurrentLine # Unreadable
      BY <3>3, <3>4, LineIs, UnreadableAssumption DEF LineEquation, Published
    <3>6. LineTo'[HeadRevision("current")] = CurrentLine
      BY <3>3, <3>4, PastIsKept
    <3>7. Known' = [Known EXCEPT ![c] = CurrentLine]
      BY <1>5, <3>1, <3>6
    <3>8. Document!Load(c)
      BY <3>1, <3>2, <3>5, <3>7 DEF Document!Load
    <3> QED
      BY <3>8 DEF Document!Next
  <2>2. CASE CommitHead(c)
    <3> DEFINE d == gen[call[c].fresh].content
               extended == Append(LineTo[base[c]], d)
    <3>1. /\ CurrentLine # Unreadable
          /\ \/ CurrentLine = LineTo[base[c]]
             \/ /\ faults > 0 /\ LineTo[base[c]] # <<>>
                /\ CurrentLine \in Document!Remains(LineTo[base[c]])
          /\ \/ CurrentLine' = extended
             \/ faults > 0 /\ CurrentLine' \in Document!Remains(extended)
          /\ LineTo'[call[c].fresh] = extended
          /\ d \in Content
      BY <2>2, CommitRefined
    <3>2. UNCHANGED faults /\ base' = [base EXCEPT ![c] = call[c].fresh]
      BY <2>2 DEF CommitHead
    <3>3. Known' = [Known EXCEPT ![c] = extended]
      BY <1>5, <3>1, <3>2
    <3>4. Known[c] = LineTo[base[c]]
      OBVIOUS
    <3> HIDE DEF Known, d
    <3>5. Document!Commit(c)
      BY <3>1, <3>2, <3>3, <3>4 DEF Document!Commit, Document!Extendable, Known
    <3> QED
      BY <3>5 DEF Document!Next
  <2>3. CASE Crash(c)
    <3>1. UNCHANGED <<store, faults>> /\ base' = [base EXCEPT ![c] = 0]
      BY <2>3 DEF Crash
    <3>2. CurrentLine' = CurrentLine
      BY <3>1, SameLine DEF store
    <3>3. LineTo'[0] = <<>>
      BY NothingBeforeAfter
    <3>4. Known' = [Known EXCEPT ![c] = <<>>]
      BY <1>5, <3>1, <3>3
    <3>5. Document!Restart(c)
      BY <3>1, <3>2, <3>4 DEF Document!Restart
    <3> QED
      BY <3>5 DEF Document!Next
  <2>4. CASE ~ (LoadCurrent(c) \/ CommitHead(c) \/ Crash(c))
    <3>1. UNCHANGED <<base, faults>>
      BY <1>6, <2>4 DEF ClientStep, BeginCommit, EnterCommit, PublishSecret, VerifySecrets,
         PublishGeneration, CommitHeadFails, MarkLastKnownGood, BeginRollback, WalkParent,
         LoadTarget, LoadTargetYaml, ReadTarget, CommitRollback, RollbackRefused
    <3>2. slot'["current"] = slot["current"]
      <4>1. CASE MarkLastKnownGood(c)
        BY <4>1 DEF MarkLastKnownGood, WriteHead, StoreInvariant, TypeOK
      <4>2. CASE ~ MarkLastKnownGood(c)
        BY <1>6, <2>4, <4>2 DEF ClientStep, BeginCommit, EnterCommit, PublishSecret,
           VerifySecrets, PublishGeneration, CommitHeadFails, BeginRollback, WalkParent,
           LoadTarget, LoadTargetYaml, ReadTarget, CommitRollback, RollbackRefused, store
      <4> QED
        BY <4>1, <4>2
    <3> QED
      BY <1>3, <3>1, <3>2
  <2> QED
    BY <2>1, <2>2, <2>3, <2>4
<1>7. CASE Fault
  <2>1. \/ CurrentLine' = CurrentLine
        \/ CurrentLine \notin {Unreadable, <<>>} /\ CurrentLine' \in Document!Remains(CurrentLine)
    BY <1>7, DamageRemains
  <2>2. UNCHANGED base /\ faults' > 0
    BY <1>7, StoreAssumption DEF Fault, StoreInvariant, TypeOK
  <2>3. Document!Fault
    BY <1>2, <2>1, <2>2 DEF Document!Fault
  <2> QED
    BY <2>3 DEF Document!Next
<1> QED
  BY <1>4, <1>6, <1>7 DEF Next

\* The store is a versioned document with optimistic commits: no interleaving of
\* commits, rollbacks, crashes and any number of media faults loses an update,
\* shows a history nobody wrote or turns a damaged store into an empty one.
THEOREM StoreImplementsDocument == Spec => ImplementsDocument
<1>1. Init => Document!Init
  <2> SUFFICES ASSUME Init PROVE Document!Init
    OBVIOUS
  <2>1. StoreInvariant
    BY StoreInit
  <2>2. CurrentLine = <<>>
    BY <2>1, FindsLine DEF LineFound, Init
  <2>3. [c \in Client |-> LineTo[base[c]]] = [c \in Client |-> <<>>]
    BY <2>1, NothingBefore DEF Init
  <2> QED
    BY <2>2, <2>3, StoreAssumption DEF Document!Init, Init
<1>2. StoreInvariant /\ StoreInvariant' /\ SecretInvariant /\ UndamagedStore /\ LineInvariant
        /\ [Next]_vars => [Document!Next]_(Document!docVars)
  BY DocumentStep
<1> QED
  BY <1>1, <1>2, StoreInvariantHolds, SecretInvariantHolds, UndamagedStoreHolds, LineInvariantHolds,
     PTL DEF Spec, ImplementsDocument, Document!Spec
============================================================================
