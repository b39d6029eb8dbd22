------------------------ MODULE VaultBootstrapProofs ------------------------
(* Proofs about VaultBootstrap, for any processes, identifiers and bounds. *)
EXTENDS VaultBootstrap, TLAPS

\* The initial state satisfies the invariant: nothing exists.
LEMMA InitEstablishes == Init => BootstrapInvariant
  <1> SUFFICES ASSUME Init PROVE BootstrapInvariant
    OBVIOUS
  <1> USE BootstrapAssumption DEF Init, NoKey
  <1>1. TypeOK
    <2>1. mine \in [Client -> [vault : Id \cup {Absent}, key : Id \cup {Absent}]]
      OBVIOUS
    <2>2. pc \in [Client -> Unlocked \cup Loading \cup Creating]
      BY DEF Loading, Creating, Unlocked
    <2>3. aborts \in 0 .. MaxAborts /\ faults \in 0 .. MaxFaults
      OBVIOUS
    <2>4. QED BY <2>1, <2>2, <2>3 DEF TypeOK, KeyFile
  <1>5. LocalsFit
    BY DEF LocalsFit, Loading, Creating
  <1>2. KeyIsMadeUnderLock
    BY DEF KeyIsMadeUnderLock, Loading, Creating
  <1>3. UndamagedVault
    BY DEF UndamagedVault, Loading, Creating
  <1>4. QED BY <1>1, <1>2, <1>3, <1>5 DEF BootstrapInvariant

\* Every step writes what the files may hold, damaged or not.
LEMMA StepKeepsTypes ==
  ASSUME TypeOK, LocalsFit, [Next]_vars
  PROVE  TypeOK'
  <1> USE BootstrapAssumption
          DEF TypeOK, Unlocked, Loading, Creating, KeyFile, NoKey, TornKey
  <1>1. ASSUME NEW c \in Client, LookForVault(c) PROVE TypeOK'
    BY <1>1 DEF LookForVault, Goto, files
  <1>2. ASSUME NEW c \in Client, CheckRoot(c) PROVE TypeOK'
    BY <1>2 DEF CheckRoot, Goto, files, Fail
  <1>3. ASSUME NEW c \in Client, FoundVault(c) PROVE TypeOK'
    BY <1>3 DEF FoundVault, Goto, files
  <1>4. ASSUME NEW c \in Client, NameVault(c) PROVE TypeOK'
    BY <1>4 DEF NameVault, Goto, files
  <1>5. ASSUME NEW c \in Client, IdentifyVault(c) PROVE TypeOK'
    BY <1>5 DEF IdentifyVault, Goto, files, Fail
  <1>6. ASSUME NEW c \in Client, EnterStore(c) PROVE TypeOK'
    BY <1>6 DEF EnterStore, Goto, files
  <1>7. ASSUME NEW c \in Client, LoadMeta(c) PROVE TypeOK'
    BY <1>7 DEF LoadMeta, Loads, Opened, Goto, files, Fail
  <1>8. ASSUME NEW c \in Client, FinishPending(c) PROVE TypeOK'
    BY <1>8 DEF FinishPending, Loads, Opened, Goto
  <1>9. ASSUME NEW c \in Client, DiscardPending(c) PROVE TypeOK'
    BY <1>9 DEF DiscardPending, Goto, files, Fail
  <1>10. ASSUME NEW c \in Client, DiscardKey(c) PROVE TypeOK'
    BY <1>10 DEF DiscardKey, Goto, files, Fail
  <1>11. ASSUME NEW c \in Client, CreateKey(c) PROVE TypeOK'
    BY <1>11 DEF CreateKey, Goto, files, Fail
  <1>12. ASSUME NEW c \in Client, WriteKey(c) PROVE TypeOK'
    <2>1. mine[c].vault \in Id
      BY <1>12 DEF WriteKey, LocalsFit
    <2>2. QED BY <1>12, <2>1 DEF WriteKey, Goto
  <1>13. ASSUME NEW c \in Client, CreatePending(c) PROVE TypeOK'
    BY <1>13 DEF CreatePending, Goto, files, Fail
  <1>14. ASSUME NEW c \in Client, WritePending(c) PROVE TypeOK'
    BY <1>14 DEF WritePending, Goto
  <1>15. ASSUME NEW c \in Client, PublishMeta(c) PROVE TypeOK'
    BY <1>15 DEF PublishMeta, Opened, Goto
  <1>16. ASSUME NEW c \in Client, Commit(c) PROVE TypeOK'
    <2>1. mine[c].key \in Id
      BY <1>16 DEF Commit, LocalsFit
    <2>2. QED BY <1>16, <2>1 DEF Commit, files
  <1>17. ASSUME NEW c \in Client, Close(c) \/ Abort(c) PROVE TypeOK'
    BY <1>17 DEF Close, Abort, Goto, files, Fail
  <1>18. ASSUME Fault PROVE TypeOK'
    BY <1>18 DEF Fault
  <1>19. ASSUME UNCHANGED vars PROVE TypeOK'
    BY <1>19 DEF vars
  <1>20. QED
    BY <1>1, <1>2, <1>3, <1>4, <1>5, <1>6, <1>7, <1>8, <1>9, <1>10, <1>11, <1>12,
       <1>13, <1>14, <1>15, <1>16, <1>17, <1>18, <1>19 DEF Next, OpenStep

\* A process knows the vault before it enters the store, and the key before it
\* refers to it.
LEMMA StepKeepsLocals ==
  ASSUME TypeOK, LocalsFit, [Next]_vars
  PROVE  LocalsFit'
  <1> USE BootstrapAssumption DEF TypeOK, LocalsFit, Unlocked, Loading, Creating
  <1>1. ASSUME NEW c \in Client, LookForVault(c) \/ CheckRoot(c) \/ FoundVault(c)
        PROVE  LocalsFit'
    BY <1>1 DEF LookForVault, CheckRoot, FoundVault, Goto, Fail
  <1>2. ASSUME NEW c \in Client, NameVault(c) \/ IdentifyVault(c)
        PROVE  LocalsFit'
    BY <1>2 DEF NameVault, IdentifyVault, Goto, Fail
  <1>3. ASSUME NEW c \in Client, EnterStore(c)
        PROVE  LocalsFit'
    BY <1>3 DEF EnterStore, Goto
  <1>4. ASSUME NEW c \in Client, LoadMeta(c) \/ FinishPending(c)
        PROVE  LocalsFit'
    BY <1>4 DEF LoadMeta, FinishPending, Loads, Opened, Goto, Fail
  <1>5. ASSUME NEW c \in Client,
               DiscardPending(c) \/ DiscardKey(c) \/ CreateKey(c)
        PROVE  LocalsFit'
    BY <1>5 DEF DiscardPending, DiscardKey, CreateKey, Goto, Fail
  <1>6. ASSUME NEW c \in Client, WriteKey(c)
        PROVE  LocalsFit'
    BY <1>6 DEF WriteKey, Goto
  <1>7. ASSUME NEW c \in Client, CreatePending(c) \/ WritePending(c)
        PROVE  LocalsFit'
    BY <1>7 DEF CreatePending, WritePending, Goto, Fail
  <1>8. ASSUME NEW c \in Client, PublishMeta(c)
        PROVE  LocalsFit'
    BY <1>8 DEF PublishMeta, Opened, Goto
  <1>9. ASSUME NEW c \in Client, Commit(c) \/ Close(c) \/ Abort(c)
        PROVE  LocalsFit'
    BY <1>9 DEF Commit, Close, Abort, Goto, Fail
  <1>10. CASE Fault \/ UNCHANGED vars
    BY <1>10 DEF Fault, vars
  <1>11. QED
    BY <1>1, <1>2, <1>3, <1>4, <1>5, <1>6, <1>7, <1>8, <1>9, <1>10 DEF Next, OpenStep

\* The lock admits one process to load_or_initialize_auth_key, and a commit
\* takes it too: what the process found empty stays empty.
LEMMA StepKeepsLock ==
  ASSUME TypeOK, KeyIsMadeUnderLock, [Next]_vars
  PROVE  KeyIsMadeUnderLock'
  <1> USE BootstrapAssumption DEF TypeOK, KeyIsMadeUnderLock, Unlocked, Loading, Creating
  <1>1. ASSUME NEW c \in Client, LookForVault(c) \/ CheckRoot(c) \/ FoundVault(c)
        PROVE  KeyIsMadeUnderLock'
    BY <1>1 DEF LookForVault, CheckRoot, FoundVault, Goto, Fail, files
  <1>2. ASSUME NEW c \in Client, NameVault(c) \/ IdentifyVault(c)
        PROVE  KeyIsMadeUnderLock'
    BY <1>2 DEF NameVault, IdentifyVault, Goto, Fail, files
  <1>3. ASSUME NEW c \in Client, EnterStore(c)
        PROVE  KeyIsMadeUnderLock'
    BY <1>3 DEF EnterStore, Goto, files
  <1>4. ASSUME NEW c \in Client, LoadMeta(c) \/ FinishPending(c)
        PROVE  KeyIsMadeUnderLock'
    BY <1>4 DEF LoadMeta, FinishPending, Loads, Opened, Goto, Fail, files
  <1>5. ASSUME NEW c \in Client, DiscardPending(c)
        PROVE  KeyIsMadeUnderLock'
    BY <1>5 DEF DiscardPending, Goto, Fail, files
  <1>6. ASSUME NEW c \in Client, DiscardKey(c) \/ CreateKey(c)
        PROVE  KeyIsMadeUnderLock'
    BY <1>6 DEF DiscardKey, CreateKey, Pristine, Goto, Fail, files
  <1>7. ASSUME NEW c \in Client, WriteKey(c)
        PROVE  KeyIsMadeUnderLock'
    BY <1>7 DEF WriteKey, Goto
  <1>8. ASSUME NEW c \in Client, CreatePending(c) \/ WritePending(c)
        PROVE  KeyIsMadeUnderLock'
    BY <1>8 DEF CreatePending, WritePending, Goto, Fail, files
  <1>9. ASSUME NEW c \in Client, PublishMeta(c)
        PROVE  KeyIsMadeUnderLock'
    BY <1>9 DEF PublishMeta, Opened, Goto
  <1>10. ASSUME NEW c \in Client, Commit(c) \/ Close(c) \/ Abort(c)
        PROVE  KeyIsMadeUnderLock'
    BY <1>10 DEF Commit, Close, Abort, Goto, Fail, files
  <1>11. CASE Fault \/ UNCHANGED vars
    BY <1>11 DEF Fault, vars
  <1>12. QED
    BY <1>1, <1>2, <1>3, <1>4, <1>5, <1>6, <1>7, <1>8, <1>9, <1>10, <1>11
    DEF Next, OpenStep

\* Without damage the files of an initialisation fit together at every step.
LEMMA StepKeepsVault ==
  ASSUME BootstrapInvariant, [Next]_vars
  PROVE  UndamagedVault'
  <1> USE BootstrapAssumption
          DEF BootstrapInvariant, TypeOK, LocalsFit, KeyIsMadeUnderLock,
              Unlocked, Loading, Creating, KeyFile, NoKey, TornKey
  <1>1. ASSUME NEW c \in Client, LookForVault(c) PROVE UndamagedVault'
    BY <1>1 DEF LookForVault, Goto, files, UndamagedVault
  <1>2. ASSUME NEW c \in Client, CheckRoot(c) PROVE UndamagedVault'
    <2>1. CASE RootIsEmpty
      BY <1>2, <2>1 DEF CheckRoot, Goto, files, UndamagedVault
    <2>2. CASE ~ RootIsEmpty
      BY <1>2, <2>2 DEF CheckRoot, Goto, files, Fail, UndamagedVault
    <2>3. QED BY <2>1, <2>2
  <1>3. ASSUME NEW c \in Client, FoundVault(c) PROVE UndamagedVault'
    BY <1>3 DEF FoundVault, Goto, files, UndamagedVault
  <1>4. ASSUME NEW c \in Client, NameVault(c) PROVE UndamagedVault'
    BY <1>4 DEF NameVault, Goto, files, UndamagedVault
  <1>5. ASSUME NEW c \in Client, IdentifyVault(c) PROVE UndamagedVault'
    BY <1>5 DEF IdentifyVault, Goto, files, Fail, UndamagedVault
  <1>6. ASSUME NEW c \in Client, EnterStore(c) PROVE UndamagedVault'
    BY <1>6 DEF EnterStore, Goto, files, UndamagedVault
  <1>7. ASSUME NEW c \in Client, LoadMeta(c) PROVE UndamagedVault'
    BY <1>7 DEF LoadMeta, Loads, Opened, Goto, files, Fail, UndamagedVault
  <1>8. ASSUME NEW c \in Client, FinishPending(c) PROVE UndamagedVault'
    <2> SUFFICES ASSUME faults = 0 PROVE UndamagedVault'
      BY <1>8 DEF FinishPending, UndamagedVault
    <2>1. /\ pending \in Id /\ key = [vault |-> mine[c].vault, key |-> pending]
          /\ meta = Absent /\ lock = c
      BY <1>8 DEF FinishPending, Loads
    <2>2. vaultMeta = mine[c].vault
      BY <1>8 DEF FinishPending, UndamagedVault
    <2>3. data = {} /\ \A d \in Client : pc[d] # "open"
      BY <2>1 DEF UndamagedVault
    <2>4. mine' = [mine EXCEPT ![c] = [vault |-> mine[c].vault, key |-> pending]]
      <3>1. [mine[c] EXCEPT !.key = pending] = [vault |-> mine[c].vault, key |-> pending]
        OBVIOUS
      <3>2. QED BY <1>8, <3>1 DEF FinishPending, Opened
    <2>5. \A d \in Client : pc[d] \in Loading \cup Creating => d = c
      BY <2>1
    <2>6. /\ pc' = [pc EXCEPT ![c] = "open"] /\ meta' = pending /\ pending' = Absent
          /\ UNCHANGED <<vaultMeta, key, data, faults>>
      BY <1>8 DEF FinishPending, Opened, Goto
    <2>7. QED BY <2>1, <2>2, <2>3, <2>4, <2>5, <2>6 DEF UndamagedVault
  <1>9. ASSUME NEW c \in Client, DiscardPending(c) PROVE UndamagedVault'
    BY <1>9 DEF DiscardPending, Goto, files, Fail, UndamagedVault
  <1>10. ASSUME NEW c \in Client, DiscardKey(c) PROVE UndamagedVault'
    BY <1>10 DEF DiscardKey, Pristine, Goto, files, Fail, UndamagedVault
  <1>11. ASSUME NEW c \in Client, CreateKey(c) PROVE UndamagedVault'
    BY <1>11 DEF CreateKey, Goto, files, Fail, UndamagedVault
  <1>12. ASSUME NEW c \in Client, WriteKey(c) PROVE UndamagedVault'
    BY <1>12 DEF WriteKey, Goto, UndamagedVault
  <1>13. ASSUME NEW c \in Client, CreatePending(c) PROVE UndamagedVault'
    BY <1>13 DEF CreatePending, Goto, files, Fail, UndamagedVault
  <1>14. ASSUME NEW c \in Client, WritePending(c) PROVE UndamagedVault'
    BY <1>14 DEF WritePending, Goto, UndamagedVault
  <1>15. ASSUME NEW c \in Client, PublishMeta(c) PROVE UndamagedVault'
    BY <1>15 DEF PublishMeta, Opened, Goto, UndamagedVault
  <1>16. ASSUME NEW c \in Client, Commit(c) PROVE UndamagedVault'
    BY <1>16 DEF Commit, files, UndamagedVault
  <1>17. ASSUME NEW c \in Client, Close(c) \/ Abort(c) PROVE UndamagedVault'
    BY <1>17 DEF Close, Abort, Goto, files, Fail, UndamagedVault
  <1>18. ASSUME Fault PROVE UndamagedVault'
    BY <1>18 DEF Fault, UndamagedVault
  <1>19. ASSUME UNCHANGED vars PROVE UndamagedVault'
    BY <1>19 DEF vars, UndamagedVault
  <1>20. QED
    BY <1>1, <1>2, <1>3, <1>4, <1>5, <1>6, <1>7, <1>8, <1>9, <1>10, <1>11, <1>12,
       <1>13, <1>14, <1>15, <1>16, <1>17, <1>18, <1>19 DEF Next, OpenStep

\* The invariant holds in every reachable state, for any number of processes,
\* deaths and faults (TypeOK, the lock and what an undamaged vault looks like).
THEOREM BootstrapIsInvariant == Spec => []BootstrapInvariant
  <1>1. Init => BootstrapInvariant
    BY InitEstablishes
  <1>2. BootstrapInvariant /\ [Next]_vars => BootstrapInvariant'
    BY StepKeepsTypes, StepKeepsLocals, StepKeepsLock, StepKeepsVault
    DEF BootstrapInvariant
  <1>3. QED BY <1>1, <1>2, PTL DEF Spec

\* Without damage all processes and all generations share the one key on disk,
\* however many processes initialise the vault at once and die at it.
THEOREM OneKeyHolds == Spec => []OneKey
  <1>1. BootstrapInvariant => OneKey
    <2> SUFFICES ASSUME BootstrapInvariant, faults = 0 PROVE OneKey
      BY DEF OneKey
    <2>1. meta # Absent => key.vault = vaultMeta /\ meta = key.key
      BY DEF BootstrapInvariant, UndamagedVault
    <2>2. QED BY <2>1 DEF BootstrapInvariant, UndamagedVault, OneKey
  <1>2. QED BY <1>1, BootstrapIsInvariant, PTL

\* No step of a process changes the key, or an existing store.meta, once
\* something was committed: only the medium's damage does.
THEOREM KeyIsNeverDiscarded == Spec => KeyNeverDiscarded
  <1> DEFINE Kept == (data # {} /\ faults' = faults) => key' = key /\ meta \in {Absent, meta'}
  <1>1. BootstrapInvariant /\ [Next]_vars => Kept
    <2> SUFFICES ASSUME BootstrapInvariant, [Next]_vars, data # {}, faults' = faults
                 PROVE  key' = key /\ meta \in {Absent, meta'}
      OBVIOUS
    <2>1. \A c \in Client : pc[c] \notin Creating
      BY DEF BootstrapInvariant, KeyIsMadeUnderLock
    <2>2. ASSUME NEW c \in Client, OpenStep(c)
          PROVE  key' = key /\ meta \in {Absent, meta'}
      <3>1. ~ (CreateKey(c) \/ WriteKey(c) \/ CreatePending(c) \/ WritePending(c) \/ PublishMeta(c))
        BY <2>1 DEF Creating, CreateKey, WriteKey, CreatePending, WritePending, PublishMeta
      <3>2. ASSUME LookForVault(c) \/ CheckRoot(c) \/ FoundVault(c) \/ NameVault(c)
            PROVE  key' = key /\ meta' = meta
        BY <3>2 DEF LookForVault, CheckRoot, FoundVault, NameVault, Fail, files
      <3>3. ASSUME IdentifyVault(c) \/ EnterStore(c) \/ LoadMeta(c) \/ DiscardPending(c)
            PROVE  key' = key /\ meta' = meta
        BY <3>3 DEF IdentifyVault, EnterStore, LoadMeta, DiscardPending, Fail, files
      <3>4. FinishPending(c) => key' = key /\ meta = Absent
        BY DEF FinishPending
      <3>5. DiscardKey(c) => key' = key /\ meta' = meta
        BY DEF DiscardKey, Pristine, Fail, files
      <3>6. QED BY <2>2, <3>1, <3>2, <3>3, <3>4, <3>5 DEF OpenStep
    <2>3. ASSUME NEW c \in Client, Commit(c) \/ Close(c) \/ Abort(c)
          PROVE  key' = key /\ meta' = meta
      BY <2>3 DEF Commit, Close, Abort, Fail, files
    <2>4. ~ Fault
      <3>1. faults \in Nat
        BY BootstrapAssumption DEF BootstrapInvariant, TypeOK
      <3>2. QED BY <3>1 DEF Fault
    <2>5. QED BY <2>2, <2>3, <2>4 DEF Next, vars
  <1>2. QED BY <1>1, BootstrapIsInvariant, PTL DEF KeyNeverDiscarded, Spec
=============================================================================
