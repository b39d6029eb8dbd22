------------------------ MODULE LiveRuntimeProofs ------------------------
(***************************************************************************)
(* Proofs about LiveRuntime, for every bound on revisions and on failed    *)
(* driver calls: its properties, and then that it implements the service   *)
(* (RuntimeService).                                                       *)
(***************************************************************************)
EXTENDS RuntimeService, TLAPS

USE SupervisorAssumption, RuntimeAssumption

\* Removing files is well typed, and takes the files that no handle guards.
LEMMA RemovedFiles ==
  ASSUME files \in [FileName -> 0 .. MaxRevision], NEW names, NEW h
  PROVE  /\ Removed(names, h) \in [FileName -> 0 .. MaxRevision]
         /\ Removed(names, h)["active"] =
              IF "active" \in names /\ h # "live" THEN 0 ELSE files["active"]
         /\ Removed(names, h)["probe"] =
              IF "probe" \in names /\ h # "probe" THEN 0 ELSE files["probe"]
         /\ Removed(names, h)["candidate"] =
              IF "candidate" \in names THEN 0 ELSE files["candidate"]
BY DEF Removed, Guards, FileName

\* The supervisor's operations are well typed.
LEMMA SupervisorStep ==
  ASSUME SupervisorTypeOK,
         \/ \E session \in Session : Start(session)
         \/ MarkReady \/ PollRunning \/ PollStopped \/ StopOwned
         \/ CoreExits \/ SupervisorLost \/ UNCHANGED supervisor
  PROVE  SupervisorTypeOK'
<1> USE DEF SupervisorTypeOK, RuntimeState, Session
<1>1. state' \in RuntimeState /\ handle' \in Session \cup {"none"}
  BY DEF Start, MarkReady, PollRunning, PollStopped, PollExited, DriverFails, StopOwned,
     StopSucceeds, StopFails, CoreExits, SupervisorLost, supervisor
<1>2. DriverFails \/ UNCHANGED faults
  BY DEF Start, MarkReady, PollRunning, PollStopped, PollExited, StopOwned, StopSucceeds,
     StopFails, CoreExits, SupervisorLost, supervisor
<1>3. faults' \in 0 .. MaxFaults
  BY <1>2 DEF DriverFails
<1>4. running' \in BOOLEAN
  BY Zenon DEF Start, MarkReady, PollRunning, PollStopped, PollExited, DriverFails,
     StopOwned, StopSucceeds, StopFails, CoreExits, SupervisorLost, supervisor
<1> QED
  BY <1>1, <1>3, <1>4

\* Stopping ends the session, or fails and keeps the handle.
LEMMA StopEffect ==
  ASSUME SupervisorTypeOK, StopOwned
  PROVE  \/ state' = "Stopped" /\ handle' = "none" /\ faults' = faults
         \/ handle # "none" /\ state' = state /\ handle' = handle /\ faults' # 0
<1>1. CASE StopSucceeds
  BY <1>1 DEF StopSucceeds
<1>2. CASE DriverFails
  BY <1>2 DEF DriverFails, SupervisorTypeOK
<1> QED
  BY <1>1, <1>2 DEF StopOwned, StopFails

\* A poll that does not find the core releases the handle, or fails and keeps it.
LEMMA PollEffect ==
  ASSUME SupervisorTypeOK, PollStopped
  PROVE  /\ handle # "none"
         /\ \/ state' = "Failed" /\ handle' = "none" /\ faults' = faults
            \/ state' = state /\ handle' = handle /\ faults' # 0
<1>1. CASE PollExited
  BY <1>1 DEF PollExited
<1>2. CASE DriverFails
  BY <1>2 DEF DriverFails, SupervisorTypeOK
<1> QED
  BY <1>1, <1>2 DEF PollStopped

\* What a turn sees is a set of observations.
LEMMA SeenType ==
  ASSUME TypeOK, NEW seen \in Seen
  PROVE  seen \subseteq Observation
BY DEF TypeOK, Seen, SeenBefore, Observation

\* The initial state is well typed and satisfies the first invariant.
LEMMA RuntimeInit == Init => RuntimeInvariant
<1> SUFFICES ASSUME Init PROVE RuntimeInvariant
  OBVIOUS
<1>1. state \in RuntimeState /\ handle \in Session \cup {"none"} /\ faults \in 0 .. MaxFaults
  BY DEF Init, SupervisorInit, RuntimeState, Session
<1>2. files \in [FileName -> 0 .. MaxRevision]
  BY DEF Init, FileName
<1>3. running \in BOOLEAN /\ trusted \in BOOLEAN /\ late \in BOOLEAN
  BY Zenon DEF Init, SupervisorInit
<1>4. TypeOK
  BY <1>1, <1>2, <1>3 DEF Init, TypeOK, SupervisorTypeOK, View, Step, ChangeStep
<1> QED
  BY <1>4 DEF Init, SupervisorInit, RuntimeInvariant, HandleWhileActive, WrittenIsCurrent,
     FailureIsKnown, CoreRunsCurrentRevision, IsActive

\* Every step keeps the supervisor well typed.
LEMMA SupervisorTypeStep ==
  ASSUME SupervisorTypeOK, [Next]_vars
  PROVE  SupervisorTypeOK'
<1>1. CASE BeginConnect
  BY <1>1, SupervisorStep DEF BeginConnect
<1>2. CASE WriteConfig
  BY <1>2, SupervisorStep DEF WriteConfig
<1>3. CASE CheckLaunch
  BY <1>3, SupervisorStep DEF CheckLaunch
<1>4. CASE StartCore
  BY <1>4, SupervisorStep DEF StartCore, Session
<1>5. CASE CoreLost
  BY <1>5, SupervisorStep DEF CoreLost
<1>6. CASE TunMissing
  BY <1>6, SupervisorStep DEF TunMissing
<1>7. CASE NotReadyYet
  BY <1>7, SupervisorStep DEF NotReadyYet
<1>8. CASE GiveUp
  BY <1>8, SupervisorStep DEF GiveUp
<1>9. CASE Ready
  BY <1>9, SupervisorStep DEF Ready
<1>10. CASE StopAfterFailure
  BY <1>10, SupervisorStep DEF StopAfterFailure, StopOwned
<1>11. CASE Settle
  BY <1>11, SupervisorStep DEF Settle
<1>12. CASE CleanupAfterFailure
  BY <1>12, SupervisorStep DEF CleanupAfterFailure
<1>13. CASE Disconnect
  BY <1>13, SupervisorStep DEF Disconnect, StopOwned
<1>14. CASE PollNotices
  BY <1>14, SupervisorStep DEF PollNotices
<1>15. CASE BeginChange
  BY <1>15, SupervisorStep DEF BeginChange
<1>16. CASE ValidateCandidate
  BY <1>16, SupervisorStep DEF ValidateCandidate
<1>17. CASE CommitChange
  BY <1>17, SupervisorStep DEF CommitChange
<1>18. CASE BeginProbe
  BY <1>18, SupervisorStep DEF BeginProbe
<1>19. CASE StartProbe
  BY <1>19, SupervisorStep DEF StartProbe, Session
<1>20. CASE FinishProbe
  BY <1>20, SupervisorStep DEF FinishProbe
<1>21. CASE EndProbe
  BY <1>21, SupervisorStep DEF EndProbe
<1>22. CASE Deadline
  BY <1>22, SupervisorStep DEF Deadline
<1>23. CASE NetworkChanges
  BY <1>23, SupervisorStep DEF NetworkChanges
<1>24. CASE CoreStops
  BY <1>24, SupervisorStep DEF CoreStops
<1>25. CASE Crash
  BY <1>25, SupervisorStep DEF Crash
<1>26. CASE Quit
  BY <1>26, SupervisorStep DEF Quit
<1>27. CASE Startup
  BY <1>27, SupervisorStep DEF Startup
<1>28. CASE UNCHANGED vars
  BY <1>28, SupervisorStep DEF vars
<1> QED
  BY <1>1, <1>2, <1>3, <1>4, <1>5, <1>6, <1>7, <1>8, <1>9, <1>10, <1>11,
     <1>12, <1>13, <1>14, <1>15, <1>16, <1>17, <1>18, <1>19, <1>20, <1>21,
     <1>22, <1>23, <1>24, <1>25, <1>26, <1>27, <1>28 DEF Next, Proceed, Connecting

\* Every step keeps the runtime well typed.
LEMMA TypeStep ==
  ASSUME RuntimeInvariant, [Next]_vars
  PROVE  TypeOK'
<1>0. SupervisorTypeOK' /\ TypeOK
  BY SupervisorTypeStep DEF RuntimeInvariant, TypeOK
<1> USE <1>0 DEF RuntimeInvariant, FailureIsKnown, TypeOK, FileName, Observation, ConnectFailure, View, ConnectStep, ChangeStep,
      ProbeStep, Step
<1>1. CASE BeginConnect
  BY <1>1 DEF BeginConnect, Fail
<1>2. CASE WriteConfig
  BY <1>2 DEF WriteConfig, Fail
<1>3. CASE CheckLaunch
  BY <1>3 DEF CheckLaunch, Fail
<1>4. CASE StartCore
  BY <1>4 DEF StartCore, Fail
<1>5. CASE CoreLost
  BY <1>5 DEF CoreLost
<1>6. CASE TunMissing
  BY <1>6 DEF TunMissing, SeenBefore
<1>7. CASE NotReadyYet
  BY <1>7, SeenType DEF NotReadyYet
<1>8. CASE GiveUp
  BY <1>8, SeenType DEF GiveUp, DeadlineFailure
<1>9. CASE Ready
  BY <1>9 DEF Ready
<1>10. CASE StopAfterFailure
  BY <1>10 DEF StopAfterFailure, Fail
<1>11. CASE Settle
  BY <1>11 DEF Settle
<1>12. CASE CleanupAfterFailure
  BY <1>12, RemovedFiles DEF CleanupAfterFailure
<1>13. CASE Disconnect
  BY <1>13, RemovedFiles DEF Disconnect, DisconnectedView
<1>14. CASE PollNotices
  BY <1>14, RemovedFiles DEF PollNotices
<1>15. CASE BeginChange
  BY <1>15 DEF BeginChange
<1>16. CASE ValidateCandidate
  BY <1>16, RemovedFiles DEF ValidateCandidate
<1>17. CASE CommitChange
  BY <1>17 DEF CommitChange, DisconnectedView
<1>18. CASE BeginProbe
  BY <1>18 DEF BeginProbe
<1>19. CASE StartProbe
  BY <1>19 DEF StartProbe
<1>20. CASE FinishProbe
  BY <1>20 DEF FinishProbe
<1>21. CASE EndProbe
  BY <1>21, RemovedFiles DEF EndProbe
<1>22. CASE Deadline
  BY <1>22 DEF Deadline
<1>23. CASE NetworkChanges
  BY <1>23 DEF NetworkChanges
<1>24. CASE CoreStops
  BY <1>24 DEF CoreStops, runtime
<1>25. CASE Crash
  BY <1>25 DEF Crash
<1>26. CASE Quit
  BY <1>26, RemovedFiles DEF Quit
<1>27. CASE Startup
  BY <1>27 DEF Startup
<1>28. CASE UNCHANGED vars
  BY <1>28 DEF vars, supervisor, runtime
<1> QED
  BY <1>1, <1>2, <1>3, <1>4, <1>5, <1>6, <1>7, <1>8, <1>9, <1>10, <1>11,
     <1>12, <1>13, <1>14, <1>15, <1>16, <1>17, <1>18, <1>19, <1>20, <1>21,
     <1>22, <1>23, <1>24, <1>25, <1>26, <1>27, <1>28 DEF Next, Proceed, Connecting

\* No step of a command, of the core or of the application breaks the first
\* invariant.
LEMMA RuntimeStep ==
  ASSUME RuntimeInvariant, [Next]_vars
  PROVE  RuntimeInvariant'
<1>0. TypeOK'
  BY TypeStep
<1> USE <1>0 DEF RuntimeInvariant, HandleWhileActive, WrittenIsCurrent, FailureIsKnown,
      CoreRunsCurrentRevision, IsActive, TypeOK, SupervisorTypeOK, RuntimeState, Session, FileName, Observation,
      ConnectFailure, View, ConnectStep, ChangeStep, ProbeStep, Step
<1>1. CASE BeginConnect
  BY <1>1 DEF BeginConnect, Fail, supervisor
<1>2. CASE WriteConfig
  BY <1>2 DEF WriteConfig, Fail, supervisor
<1>3. CASE CheckLaunch
  BY <1>3 DEF CheckLaunch, Fail, supervisor
<1>4. CASE StartCore
  BY <1>4 DEF StartCore, Fail, Start, CanStart, supervisor
<1>5. CASE CoreLost
  BY <1>5 DEF CoreLost, PollStopped, PollExited, DriverFails
<1>6. CASE TunMissing
  BY <1>6 DEF TunMissing, PollRunning, supervisor, SeenBefore, MissesTun
<1>7. CASE NotReadyYet
  BY <1>7 DEF NotReadyYet, PollRunning, supervisor, SeenBefore, Seen, MissesTun
<1>8. CASE GiveUp
  BY <1>8 DEF GiveUp, PollRunning, supervisor, SeenBefore, Seen, MissesTun,
            DeadlineFailure
<1>9. CASE Ready
  BY <1>9 DEF Ready, MarkReady, SeenBefore
<1>10. CASE StopAfterFailure
  BY <1>10 DEF StopAfterFailure, StopSucceeds, StopFails, DriverFails, Fail
<1>11. CASE Settle
  BY <1>11 DEF Settle, supervisor
<1>12. CASE CleanupAfterFailure
  BY <1>12, RemovedFiles DEF CleanupAfterFailure, StopOwned, StopSucceeds, StopFails,
            DriverFails
<1>13. CASE Disconnect
  BY <1>13, RemovedFiles DEF Disconnect, StopSucceeds, StopFails, DriverFails, DisconnectedView
<1>14. CASE PollNotices
  BY <1>14, RemovedFiles DEF PollNotices, PollStopped, PollExited, DriverFails
<1>15. CASE BeginChange
  BY <1>15 DEF BeginChange, supervisor
<1>16. CASE ValidateCandidate
  BY <1>16, RemovedFiles DEF ValidateCandidate, supervisor
<1>17. CASE CommitChange
  BY <1>17 DEF CommitChange, supervisor, DisconnectedView
<1>18. CASE BeginProbe
  BY <1>18 DEF BeginProbe, supervisor
<1>19. CASE StartProbe
  BY <1>19 DEF StartProbe, Start, CanStart, supervisor
<1>20. CASE FinishProbe
  BY <1>20 DEF FinishProbe, supervisor, PollStopped, PollExited, DriverFails
<1>21. CASE EndProbe
  BY <1>21, RemovedFiles DEF EndProbe, StopOwned, StopSucceeds, StopFails, DriverFails
<1>22. CASE Deadline
  BY <1>22 DEF Deadline, supervisor
<1>23. CASE NetworkChanges
  BY <1>23 DEF NetworkChanges, supervisor
<1>24. CASE CoreStops
  BY <1>24 DEF CoreStops, CoreExits, runtime
<1>25. CASE Crash
  BY <1>25 DEF Crash, SupervisorLost
<1>26. CASE Quit
  BY <1>26, RemovedFiles DEF Quit, SupervisorLost
<1>27. CASE Startup
  BY <1>27 DEF Startup, supervisor
<1>28. CASE UNCHANGED vars
  BY <1>28 DEF vars, supervisor, runtime
<1> QED
  BY <1>1, <1>2, <1>3, <1>4, <1>5, <1>6, <1>7, <1>8, <1>9, <1>10, <1>11,
     <1>12, <1>13, <1>14, <1>15, <1>16, <1>17, <1>18, <1>19, <1>20, <1>21,
     <1>22, <1>23, <1>24, <1>25, <1>26, <1>27, <1>28 DEF Next, Proceed, Connecting

\* The initial state satisfies the second invariant.
LEMMA SessionInit == Init => SessionInvariant
BY DEF Init, SupervisorInit, SessionInvariant, FilesFollowCommand, SessionFollowsCommand,
   FileName, ConnectFailure, ConnectStep, ProbeStep

\* No step breaks the second invariant either.
LEMMA SessionStep ==
  ASSUME RuntimeInvariant, SessionInvariant, [Next]_vars
  PROVE  SessionInvariant'
<1> USE DEF SessionInvariant, FilesFollowCommand, SessionFollowsCommand, IsActive,
      RuntimeInvariant, HandleWhileActive, FailureIsKnown, TypeOK, SupervisorTypeOK, RuntimeState, Session, FileName, Observation,
      ConnectFailure, View, ConnectStep, ChangeStep, ProbeStep, Step
<1>1. CASE BeginConnect
  BY <1>1 DEF BeginConnect, Fail, supervisor
<1>2. CASE WriteConfig
  BY <1>2 DEF WriteConfig, Fail, supervisor
<1>3. CASE CheckLaunch
  BY <1>3 DEF CheckLaunch, Fail, supervisor
<1>4. CASE StartCore
  BY <1>4 DEF StartCore, Fail, Start, CanStart, supervisor
<1>5. CASE CoreLost
  BY <1>5, PollEffect DEF CoreLost
<1>6. CASE TunMissing
  BY <1>6 DEF TunMissing, PollRunning, supervisor, SeenBefore, MissesTun
<1>7. CASE NotReadyYet
  BY <1>7 DEF NotReadyYet, PollRunning, supervisor, SeenBefore, Seen, MissesTun
<1>8. CASE GiveUp
  BY <1>8 DEF GiveUp, PollRunning, supervisor, SeenBefore, Seen, MissesTun,
            DeadlineFailure
<1>9. CASE Ready
  BY <1>9 DEF Ready, MarkReady, SeenBefore
<1>10. CASE StopAfterFailure
  BY <1>10, StopEffect DEF StopAfterFailure, Fail, StopOwned, StopSucceeds
<1>11. CASE Settle
  BY <1>11 DEF Settle, supervisor
<1>12. CASE CleanupAfterFailure
  BY <1>12, StopEffect, RemovedFiles DEF CleanupAfterFailure
<1>13. CASE Disconnect
  <2>1. StopOwned
    BY <1>13 DEF Disconnect, StopOwned
  <2>2. files' = Removed({"active"}, handle')
    BY <1>13 DEF Disconnect
  <2>3. cmd = "idle" /\ cmd' = "idle"
    BY <1>13 DEF Disconnect
  <2>4. view' # "Connected"
    BY <1>13 DEF Disconnect, DisconnectedView
  <2>5. FilesFollowCommand'
    BY <2>1, <2>2, <2>3, StopEffect, RemovedFiles
  <2>6. SessionFollowsCommand'
    BY <2>1, <2>3, <2>4, StopEffect
  <2> QED
    BY <2>5, <2>6
<1>14. CASE PollNotices
  BY <1>14, PollEffect, RemovedFiles DEF PollNotices
<1>15. CASE BeginChange
  BY <1>15 DEF BeginChange, supervisor
<1>16. CASE ValidateCandidate
  BY <1>16, RemovedFiles DEF ValidateCandidate, supervisor
<1>17. CASE CommitChange
  BY <1>17 DEF CommitChange, supervisor, DisconnectedView
<1>18. CASE BeginProbe
  BY <1>18 DEF BeginProbe, supervisor
<1>19. CASE StartProbe
  BY <1>19 DEF StartProbe, Start, CanStart, supervisor
<1>20. CASE FinishProbe
  <2>1. cmd = "probing" /\ cmd' = "probed" /\ files' = files /\ view' = view
    BY <1>20 DEF FinishProbe
  <2>2. \/ state' = state /\ handle' = handle /\ faults' = faults
        \/ PollStopped
    BY <1>20 DEF FinishProbe, supervisor
  <2>3. handle # "live" \/ faults # 0
    BY <2>1
  <2>4. FilesFollowCommand'
    BY <2>1, <2>2, PollEffect
  <2>5. SessionFollowsCommand'
    BY <2>1, <2>2, <2>3, PollEffect
  <2> QED
    BY <2>4, <2>5
<1>21. CASE EndProbe
  <2>1. cmd = "probed" /\ cmd' = "idle" /\ view' = view
    BY <1>21 DEF EndProbe
  <2>2. StopOwned /\ files' = Removed({"probe"}, handle')
    BY <1>21 DEF EndProbe
  <2>3. FilesFollowCommand'
    BY <2>1, <2>2, StopEffect, RemovedFiles
  <2>4. SessionFollowsCommand'
    BY <2>1, <2>2, StopEffect
  <2> QED
    BY <2>3, <2>4
<1>22. CASE Deadline
  BY <1>22 DEF Deadline, supervisor
<1>23. CASE NetworkChanges
  BY <1>23 DEF NetworkChanges, supervisor
<1>24. CASE CoreStops
  BY <1>24 DEF CoreStops, CoreExits, runtime
<1>25. CASE Crash
  BY <1>25 DEF Crash, SupervisorLost
<1>26. CASE Quit
  BY <1>26, RemovedFiles DEF Quit, SupervisorLost
<1>27. CASE Startup
  BY <1>27 DEF Startup, supervisor
<1>28. CASE UNCHANGED vars
  BY <1>28 DEF vars, supervisor, runtime
<1> QED
  BY <1>1, <1>2, <1>3, <1>4, <1>5, <1>6, <1>7, <1>8, <1>9, <1>10, <1>11,
     <1>12, <1>13, <1>14, <1>15, <1>16, <1>17, <1>18, <1>19, <1>20, <1>21,
     <1>22, <1>23, <1>24, <1>25, <1>26, <1>27, <1>28 DEF Next, Proceed, Connecting

\* Supervisor, files, view and command always fit together.
THEOREM RuntimeInvariantHolds == Spec => []RuntimeInvariant
<1>1. RuntimeInvariant /\ [Next]_vars => RuntimeInvariant'
  BY RuntimeStep
<1> QED
  BY RuntimeInit, <1>1, PTL DEF Spec

\* A core that runs was started from the store's current revision, whatever
\* stops and polls failed before (disconnect and measure_delays depend on it).
THEOREM RunningCoreIsCurrent == Spec => []CoreRunsCurrentRevision
<1>1. RuntimeInvariant => CoreRunsCurrentRevision
  BY DEF RuntimeInvariant
<1> QED
  BY RuntimeInvariantHolds, <1>1, PTL

\* Files and sessions always belong to the step of the command that owns them.
THEOREM SessionInvariantHolds == Spec => []SessionInvariant
<1>1. RuntimeInvariant /\ SessionInvariant /\ [Next]_vars => SessionInvariant'
  BY SessionStep
<1> QED
  BY SessionInit, RuntimeInvariantHolds, <1>1, PTL DEF Spec

\* Between commands the interface says "connected" of a verified live session
\* only, and of every session unless a driver call failed.
THEOREM ViewsMatchTheCore == Spec => []ViewMatchesCore
<1>1. RuntimeInvariant /\ SessionInvariant => ViewMatchesCore
  BY DEF RuntimeInvariant, HandleWhileActive, SessionInvariant, SessionFollowsCommand,
     ViewMatchesCore, IsActive, CanConnect, TypeOK, SupervisorTypeOK, RuntimeState, Session, FileName, Observation,
     ConnectFailure, View, ConnectStep, ChangeStep, ProbeStep, Step
<1> QED
  BY RuntimeInvariantHolds, SessionInvariantHolds, <1>1, PTL

\* Between commands no configuration file outlives its session, except a probe's
\* after a driver call failed.
THEOREM SecretsLeave == Spec => []SecretsLeaveWithSession
<1>1. RuntimeInvariant /\ SessionInvariant => SecretsLeaveWithSession
  BY DEF RuntimeInvariant, HandleWhileActive, SessionInvariant, FilesFollowCommand,
     SecretsLeaveWithSession, IsActive, TypeOK, SupervisorTypeOK, RuntimeState, Session, FileName, Observation,
     ConnectFailure, View, ConnectStep, ChangeStep, ProbeStep, Step
<1> QED
  BY RuntimeInvariantHolds, SessionInvariantHolds, <1>1, PTL

\* A connect that failed in any of its steps leaves a supervisor that can start.
THEOREM FailedConnectsCleanUp == Spec => []FailedConnectLeavesNothing
<1>1. RuntimeInvariant /\ SessionInvariant => FailedConnectLeavesNothing
  BY DEF RuntimeInvariant, HandleWhileActive, SessionInvariant, FilesFollowCommand,
     SessionFollowsCommand, FailedConnectLeavesNothing, CanStart, IsActive,
     TypeOK, SupervisorTypeOK, RuntimeState, Session, FileName, Observation,
     ConnectFailure, View, ConnectStep, ChangeStep, ProbeStep, Step
<1> QED
  BY RuntimeInvariantHolds, SessionInvariantHolds, <1>1, PTL

---------------------------------------------------------------------------
(***************************************************************************)
(* The runtime implements the service.  Each lemma takes the actions that  *)
(* one action of AppCatalog stands for.                                    *)
(***************************************************************************)

\* Nothing is connected or measured before the first import.
CommandHasRevision == cmd \in ConnectStep \cup ProbeStep => current # 0

\* What the steps need to know of the state they start from.
Known == RuntimeInvariant /\ SessionInvariant /\ CommandHasRevision

\* Commands other than connect and the speed test never enter their steps, and
\* the current revision only grows.
LEMMA RevisionStep ==
  ASSUME RuntimeInvariant, CommandHasRevision, [Next]_vars
  PROVE  CommandHasRevision'
<1> USE DEF RuntimeInvariant, TypeOK, CommandHasRevision, ConnectStep, ProbeStep
<1>1. CASE BeginConnect \/ BeginProbe
  BY <1>1 DEF BeginConnect, BeginProbe, Fail
<1>2. CASE Connecting
  BY <1>2 DEF Connecting, WriteConfig, CheckLaunch, StartCore, CoreLost, TunMissing,
     NotReadyYet, GiveUp, StopAfterFailure, Settle, CleanupAfterFailure, Fail
<1>3. CASE StartProbe \/ FinishProbe \/ EndProbe
  BY <1>3 DEF StartProbe, FinishProbe, EndProbe
<1>4. CASE Disconnect \/ PollNotices \/ BeginChange \/ ValidateCandidate \/ CommitChange
             \/ Ready \/ Deadline \/ NetworkChanges \/ Crash \/ Quit \/ Startup
  BY <1>4 DEF Disconnect, PollNotices, BeginChange, ValidateCandidate, CommitChange, Ready,
     Deadline, NetworkChanges, Crash, Quit, Startup
<1>5. CASE CoreStops \/ UNCHANGED vars
  BY <1>5 DEF CoreStops, vars, runtime
<1> QED
  BY <1>1, <1>2, <1>3, <1>4, <1>5 DEF Next, Proceed

\* The service sees nothing.
Unseen == UNCHANGED <<CatalogOfRevision, CoreOfService, ShownByService>>

\* The catalog depends on the revision only.
LEMMA SameCatalog ==
  ASSUME current' = current
  PROVE  CatalogOfRevision' = CatalogOfRevision
BY DEF CatalogOfRevision

\* The view decides what is shown while the application runs.
LEMMA SameShown ==
  ASSUME view' = view, cmd # "down", cmd' # "down"
  PROVE  ShownByService' = ShownByService
BY DEF ShownByService

\* A session that is not a probe's of a running speed test is the service's core.
LEMMA SameCore ==
  ASSUME UNCHANGED <<handle, running>>,
         handle = "probe" => (cmd \in {"probing", "probed"} <=> cmd' \in {"probing", "probed"})
  PROVE  CoreOfService' = CoreOfService
BY DEF CoreOfService

\* Steps of a command that neither start nor stop anything.
LEMMA UnseenSteps ==
  ASSUME Known,
         \/ WriteConfig \/ CheckLaunch \/ TunMissing \/ NotReadyYet \/ GiveUp \/ Settle
         \/ NetworkChanges \/ Deadline \/ BeginChange \/ ValidateCandidate \/ BeginProbe
  PROVE  Unseen
<1>1. UNCHANGED <<handle, running, current, view>>
  BY DEF WriteConfig, CheckLaunch, TunMissing, NotReadyYet, GiveUp, Settle, NetworkChanges,
     Deadline, BeginChange, ValidateCandidate, BeginProbe, PollRunning, supervisor
<1>2. cmd # "down" /\ cmd' # "down"
  BY DEF WriteConfig, CheckLaunch, TunMissing, NotReadyYet, GiveUp, Settle, NetworkChanges,
     Deadline, BeginChange, ValidateCandidate, BeginProbe, Fail
<1>3. handle = "probe" => (cmd \in {"probing", "probed"} <=> cmd' \in {"probing", "probed"})
  BY DEF WriteConfig, CheckLaunch, TunMissing, NotReadyYet, GiveUp, Settle, NetworkChanges,
     Deadline, BeginChange, ValidateCandidate, BeginProbe, Fail, Known, RuntimeInvariant,
     HandleWhileActive
<1> QED
  BY <1>1, <1>2, <1>3, SameCatalog, SameShown, SameCore DEF Unseen

\* connect up to the launch, and its success.
LEMMA ConnectSteps ==
  ASSUME Known, BeginConnect \/ StartCore \/ Ready
  PROVE  Service!Connect \/ Unseen
<1> USE DEF Known, CommandHasRevision, ConnectStep, ProbeStep
<1>1. CatalogOfRevision' = CatalogOfRevision /\ Service!Configured(CatalogOfRevision)
  <2>1. current' = current /\ current # 0
    BY DEF BeginConnect, StartCore, Ready
  <2> QED
    BY <2>1, SameCatalog DEF CatalogOfRevision, Service!Configured
<1>2. CASE BeginConnect /\ state = "ManualVerificationRequired"
  <2>1. handle = "live" /\ UNCHANGED <<handle, running, cmd>> /\ view' = "Connected" /\ cmd = "idle"
    BY <1>2 DEF BeginConnect, supervisor, RuntimeInvariant, HandleWhileActive
  <2>2. CoreOfService' = CoreOfService /\ CoreOfService # "none" /\ ShownByService' = "connected"
    BY <2>1 DEF CoreOfService, ShownByService
  <2> QED
    BY <1>1, <2>2 DEF Service!Connect
<1>3. CASE BeginConnect /\ state # "ManualVerificationRequired"
  <2>1. /\ UNCHANGED <<handle, running>> /\ view' = "Starting"
        /\ cmd = "idle" /\ cmd' \in {"failed", "write"}
    BY <1>3 DEF BeginConnect, Fail, supervisor
  <2>2. CoreOfService' = CoreOfService /\ ShownByService' = "error"
    BY <2>1 DEF CoreOfService, ShownByService
  <2> QED
    BY <1>1, <2>2 DEF Service!Connect
<1>4. CASE StartCore
  <2>1. cmd = "start" /\ view' = view /\ view = "Starting" /\ cmd' \in {"wait", "failed"}
    BY <1>4 DEF StartCore, Fail, SessionInvariant, SessionFollowsCommand
  <2>2. ShownByService' = "error" /\ UNCHANGED ShownByService
    BY <2>1 DEF ShownByService
  <2>3. CASE Start("live")
    <3>1. CoreOfService = "none" /\ CoreOfService' = "running"
      BY <2>1, <2>3 DEF Start, CanStart, CoreOfService
    <3> QED
      BY <1>1, <2>2, <3>1 DEF Service!Connect
  <2>4. CASE UNCHANGED supervisor
    BY <1>1, <2>1, <2>2, <2>4, SameCore DEF Unseen, supervisor
  <2> QED
    BY <1>4, <2>3, <2>4 DEF StartCore
<1>5. CASE Ready
  <2>1. handle = "live" /\ UNCHANGED <<handle, running>> /\ view' = "Connected" /\ cmd' = "idle"
    BY <1>5 DEF Ready, MarkReady, RuntimeInvariant, HandleWhileActive
  <2>2. CoreOfService' = CoreOfService /\ CoreOfService # "none" /\ ShownByService' = "connected"
    BY <2>1 DEF CoreOfService, ShownByService
  <2> QED
    BY <1>1, <2>2 DEF Service!Connect
<1> QED
  BY <1>2, <1>3, <1>4, <1>5

\* What stop_owned does to a core of the service.
LEMMA StoppedCore ==
  ASSUME StopOwned, cmd \notin {"probing", "probed"}, cmd' \notin {"probing", "probed"}
  PROVE  \/ StopSucceeds /\ CoreOfService' = "none"
         \/ StopFails /\ CoreOfService # "none" /\ CoreOfService' \in {CoreOfService, "gone"}
<1>1. CASE StopSucceeds
  BY <1>1 DEF StopSucceeds, CoreOfService
<1>2. CASE StopFails
  <2>1. handle # "none" /\ handle' = handle
    BY <1>2 DEF StopFails, DriverFails
  <2>2. CASE running' = running
    BY <1>2, <2>1, <2>2 DEF CoreOfService
  <2>3. CASE ~ running'
    BY <1>2, <2>1, <2>3 DEF CoreOfService
  <2> QED
    BY <1>2, <2>2, <2>3 DEF StopFails
<1> QED
  BY <1>1, <1>2 DEF StopOwned

\* Whatever stops a session shows an error, or that there is none.
LEMMA StopSteps ==
  ASSUME Known, StopAfterFailure \/ CleanupAfterFailure \/ Disconnect
  PROVE  Service!Disconnect
<1>1. /\ StopOwned /\ current' = current
      /\ cmd \in {"stop", "failed", "idle"} /\ cmd' \in {"settle", "failed", "idle"}
  BY DEF StopAfterFailure, CleanupAfterFailure, Disconnect, StopOwned, Fail
<1>2. CASE Disconnect /\ StopSucceeds
  <2>1. view' \in {"Disconnected", "NoCore", "CleanupPending", "Launch"}
    BY <1>2 DEF Disconnect, DisconnectedView
  <2>2. ShownByService' \in {"disconnected", "error"}
    BY <1>1, <2>1 DEF ShownByService
  <2>3. CoreOfService' = "none"
    BY <1>2 DEF StopSucceeds, CoreOfService
  <2> QED
    BY <1>1, <2>2, <2>3, SameCatalog DEF Service!Disconnect
<1>3. CASE StopAfterFailure \/ CleanupAfterFailure \/ (Disconnect /\ ~ StopSucceeds)
  <2>1. view' \in ConnectFailure \cup {"Starting"}
    BY <1>3 DEF StopAfterFailure, CleanupAfterFailure, Disconnect, Known, SessionInvariant,
       SessionFollowsCommand, ConnectStep, ConnectFailure, RuntimeInvariant, FailureIsKnown,
       TypeOK
  <2>2. ShownByService' = "error"
    BY <1>1, <2>1 DEF ShownByService, ConnectFailure
  <2> QED
    BY <1>1, <2>2, StoppedCore, SameCatalog DEF Service!Disconnect
<1> QED
  BY <1>2, <1>3

\* A poll that does not find the core, within connect or between commands.
LEMMA PollSteps ==
  ASSUME Known, CoreLost \/ PollNotices
  PROVE  Service!Poll
<1>1. /\ PollStopped /\ current' = current
      /\ cmd \in {"wait", "idle"} /\ cmd' \in {"stop", "idle"}
  BY DEF CoreLost, PollNotices
<1>2. view' \in {"Starting", "Unexpected"}
  BY DEF CoreLost, PollNotices, Known, SessionInvariant, SessionFollowsCommand, ConnectStep
<1>3. ShownByService' = "error"
  BY <1>1, <1>2 DEF ShownByService
<1>4. \/ CoreOfService = "gone" /\ CoreOfService' = "none"
      \/ CoreOfService # "none" /\ CoreOfService' = CoreOfService
  BY <1>1 DEF PollStopped, PollExited, DriverFails, CoreOfService
<1> QED
  BY <1>1, <1>3, <1>4, SameCatalog DEF Service!Poll

\* The speed test: its core is the service's only when it cannot be stopped.
LEMMA ProbeSteps ==
  ASSUME Known, StartProbe \/ FinishProbe \/ EndProbe
  PROVE  Service!Measure \/ Unseen
<1> USE DEF Known, CommandHasRevision, ConnectStep, ProbeStep
<1>1. /\ cmd \in {"probe", "probing", "probed"} /\ cmd' \in {"probing", "probed", "idle"}
      /\ UNCHANGED <<view, current>> /\ current # 0
  BY DEF StartProbe, FinishProbe, EndProbe
<1>2. /\ UNCHANGED <<CatalogOfRevision, ShownByService>>
      /\ Service!Configured(CatalogOfRevision)
  BY <1>1, SameCatalog, SameShown DEF CatalogOfRevision, Service!Configured
<1>3. CASE StartProbe
  <2>1. handle = "none"
    BY <1>3 DEF StartProbe, RuntimeInvariant, HandleWhileActive
  <2>2. CoreOfService = "none" /\ CoreOfService' = "none"
    BY <1>3, <2>1 DEF StartProbe, Start, CoreOfService, supervisor
  <2> QED
    BY <1>2, <2>2 DEF Unseen
<1>4. CASE FinishProbe
  <2>1. handle = "probe" /\ handle' \in {"probe", "none"} /\ cmd = "probing" /\ cmd' = "probed"
    BY <1>4 DEF FinishProbe, PollStopped, PollExited, DriverFails, supervisor,
       RuntimeInvariant, HandleWhileActive
  <2>2. CoreOfService = "none" /\ CoreOfService' = "none"
    BY <2>1 DEF CoreOfService
  <2> QED
    BY <1>2, <2>2 DEF Unseen
<1>5. CASE EndProbe
  <2>1. handle \in {"probe", "none"} /\ cmd = "probed" /\ cmd' = "idle" /\ StopOwned
    BY <1>5 DEF EndProbe, RuntimeInvariant, HandleWhileActive, TypeOK, SupervisorTypeOK, Session
  <2>2. CoreOfService = "none" /\ CoreOfService' \in {"none", "running", "gone"}
    BY <2>1 DEF CoreOfService
  <2> QED
    BY <1>2, <2>2 DEF Unseen, Service!Measure
<1> QED
  BY <1>3, <1>4, <1>5

\* The request that stands for every change of the configuration.
Reimport == [command |-> "import", role |-> "first-hop", files |-> {1}, last |-> 1]

\* Importing the catalog's one profile again changes nothing else.
LEMMA ReimportKeeps ==
  /\ Reimport \in Service!Request
  /\ Service!Accepted(CatalogOfRevision, Reimport)
  /\ Service!Result(CatalogOfRevision, Reimport) =
       [revision |-> current, mode |-> "single", firstHops |-> {1}, protons |-> {},
        firstHop |-> 1, proton |-> 0]
<1>1. Reimport \in [command : {"import"}, role : {"first-hop"}, files : (SUBSET {1}) \ {{}},
                    last : {1}]
  BY DEF Reimport
<1>2. Service!Accepted(CatalogOfRevision, Reimport)
  BY DEF Reimport, Service!Accepted, Service!CanImport
<1>3. Service!Result(CatalogOfRevision, Reimport) =
        Service!Imported(CatalogOfRevision, Reimport)
  BY DEF Reimport, Service!Result
<1>4. Service!First({1}) = 1
  BY DEF Service!First
<1>5. Service!Keep(0, {}) = 0
  BY DEF Service!Keep, Service!First
<1>6. Service!Imported(CatalogOfRevision, Reimport) =
        Service!Merged(CatalogOfRevision, Reimport, 1)
  BY DEF Service!Imported, Reimport, CatalogOfRevision
<1>7. Service!Merged(CatalogOfRevision, Reimport, 1) =
       [revision |-> current, mode |-> "single", firstHops |-> {1}, protons |-> {},
        firstHop |-> 1, proton |-> 0]
  BY <1>5 DEF Service!Merged, Reimport, CatalogOfRevision
<1> QED
  BY <1>1, <1>2, <1>3, <1>6, <1>7 DEF Service!Request

\* A change is committed beside no core, and the view follows it.
LEMMA ChangeStepIsImport ==
  ASSUME Known, CommitChange
  PROVE  Service!Change(Reimport) \/ Unseen
<1>1. handle = "none" /\ UNCHANGED <<handle, running>> /\ cmd' = "idle" /\ cmd = "commit"
  BY DEF Known, RuntimeInvariant, HandleWhileActive, CommitChange, supervisor
<1>2. CoreOfService = "none" /\ CoreOfService' = "none"
  BY <1>1 DEF CoreOfService
<1>3. CASE UNCHANGED <<current, view>>
  BY <1>1, <1>2, <1>3, SameCatalog, SameShown DEF Unseen
<1>4. CASE current' = current + 1 /\ view' = DisconnectedView
  <2>1. ShownByService' = "disconnected"
    BY <1>1, <1>4 DEF ShownByService, DisconnectedView
  <2>2. current \in Nat /\ current < MaxRevision
    BY <1>1 DEF Known, RuntimeInvariant, TypeOK, ChangeStep
  <2>3. /\ Service!Validates(Service!Result(CatalogOfRevision, Reimport))
        /\ CatalogOfRevision.revision = current
        /\ CatalogOfRevision' =
             [Service!Result(CatalogOfRevision, Reimport) EXCEPT !.revision = current + 1]
    <3>1. CatalogOfRevision.revision = current
      BY DEF CatalogOfRevision
    <3>2. Service!Validates(Service!Result(CatalogOfRevision, Reimport))
      BY ReimportKeeps DEF Service!Validates
    <3>3. current' # 0
      BY <1>4, <2>2
    <3>4. CatalogOfRevision' =
            [revision |-> current + 1, mode |-> "single", firstHops |-> {1}, protons |-> {},
             firstHop |-> 1, proton |-> 0]
      BY <1>4, <3>3 DEF CatalogOfRevision
    <3> QED
      BY <3>1, <3>2, <3>4, ReimportKeeps
  <2>4. Reimport.command # "select"
    BY DEF Reimport
  <2> QED
    BY <1>2, <2>1, <2>2, <2>3, <2>4, ReimportKeeps DEF Service!Change
<1> QED
  BY <1>3, <1>4 DEF CommitChange

\* The end of the application and its next start.
LEMMA OpenSteps ==
  ASSUME Known, Crash \/ Quit \/ Startup
  PROVE  Service!Open
<1>1. CoreOfService' = "none"
  BY DEF Crash, Quit, Startup, SupervisorLost, CoreOfService, Known, RuntimeInvariant,
     HandleWhileActive, supervisor
<1>2. ShownByService' = "disconnected"
  BY DEF Crash, Quit, Startup, ShownByService
<1>3. CASE current' = current
  BY <1>1, <1>2, <1>3, SameCatalog DEF Service!Open
<1>4. CASE current \in 1 .. MaxRevision - 1 /\ current' = current + 1
  <2>1. /\ Service!Configured(CatalogOfRevision) /\ Service!Validates(CatalogOfRevision)
        /\ CatalogOfRevision.revision < MaxRevision
        /\ CatalogOfRevision' =
             [CatalogOfRevision EXCEPT !.revision = CatalogOfRevision.revision + 1]
    <3>1. current # 0 /\ current' # 0 /\ current < MaxRevision
      BY <1>4, RuntimeAssumption
    <3>2. CatalogOfRevision =
            [revision |-> current, mode |-> "single", firstHops |-> {1}, protons |-> {},
             firstHop |-> 1, proton |-> 0]
      BY <3>1 DEF CatalogOfRevision
    <3>3. CatalogOfRevision' =
            [revision |-> current + 1, mode |-> "single", firstHops |-> {1}, protons |-> {},
             firstHop |-> 1, proton |-> 0]
      BY <1>4, <3>1 DEF CatalogOfRevision
    <3>4. CatalogOfRevision.revision < MaxRevision
      BY <3>1, <3>2
    <3>5. CatalogOfRevision' =
            [CatalogOfRevision EXCEPT !.revision = CatalogOfRevision.revision + 1]
      <4>1. ASSUME NEW c, NEW d, NEW r,
                   c = [revision |-> r, mode |-> "single", firstHops |-> {1},
                        protons |-> {}, firstHop |-> 1, proton |-> 0],
                   d = [revision |-> r + 1, mode |-> "single", firstHops |-> {1},
                        protons |-> {}, firstHop |-> 1, proton |-> 0]
            PROVE  d = [c EXCEPT !.revision = c.revision + 1]
        BY <4>1
      <4> QED
        BY <3>2, <3>3, <4>1, Zenon
    <3>6. Service!Configured(CatalogOfRevision) /\ Service!Validates(CatalogOfRevision)
      BY <3>1, <3>2 DEF Service!Configured, Service!Validates
    <3> QED
      BY <3>4, <3>5, <3>6
  <2> QED
    BY <1>1, <1>2, <2>1 DEF Service!Open
<1> QED
  BY <1>3, <1>4 DEF Crash, Quit, Startup

\* The core exits on its own.
LEMMA ExitStep ==
  ASSUME Known, CoreStops
  PROVE  Service!CoreExits \/ Unseen
<1>1. /\ running /\ ~ running' /\ handle # "none"
      /\ UNCHANGED <<handle, cmd, current, view>>
  BY DEF CoreStops, CoreExits, runtime, Known, RuntimeInvariant, HandleWhileActive
<1>2. UNCHANGED <<CatalogOfRevision, ShownByService>>
  BY <1>1 DEF CatalogOfRevision, ShownByService
<1>3. \/ CoreOfService = "none" /\ CoreOfService' = "none"
      \/ CoreOfService = "running" /\ CoreOfService' = "gone"
  BY <1>1 DEF CoreOfService
<1> QED
  BY <1>2, <1>3 DEF Service!CoreExits, Unseen

\* Every step of the runtime is a step of the service.
LEMMA ServiceStep ==
  ASSUME Known, [Next]_vars
  PROVE  [Service!Next]_<<CatalogOfRevision, CoreOfService, ShownByService>>
<1>1. CASE UNCHANGED vars
  <2>1. UNCHANGED <<current, handle, running, cmd, view>>
    BY <1>1 DEF vars, supervisor, runtime
  <2> QED
    BY <2>1 DEF CatalogOfRevision, CoreOfService, ShownByService
<1>2. CASE WriteConfig \/ CheckLaunch \/ TunMissing \/ NotReadyYet \/ GiveUp \/ Settle
             \/ NetworkChanges \/ Deadline \/ BeginChange \/ ValidateCandidate \/ BeginProbe
  BY <1>2, UnseenSteps DEF Unseen
<1>3. CASE BeginConnect \/ StartCore \/ Ready
  BY <1>3, ConnectSteps DEF Unseen, Service!Next
<1>4. CASE StopAfterFailure \/ CleanupAfterFailure \/ Disconnect
  BY <1>4, StopSteps DEF Service!Next
<1>5. CASE CoreLost \/ PollNotices
  BY <1>5, PollSteps DEF Service!Next
<1>6. CASE StartProbe \/ FinishProbe \/ EndProbe
  BY <1>6, ProbeSteps DEF Unseen, Service!Next
<1>7. CASE CommitChange
  BY <1>7, ChangeStepIsImport, ReimportKeeps DEF Unseen, Service!Next
<1>8. CASE Crash \/ Quit \/ Startup
  BY <1>8, OpenSteps DEF Service!Next
<1>9. CASE CoreStops
  BY <1>9, ExitStep DEF Unseen, Service!Next
<1> QED
  BY <1>1, <1>2, <1>3, <1>4, <1>5, <1>6, <1>7, <1>8, <1>9 DEF Next, Proceed, Connecting

\* The runtime under the commands behaves as the service that the window was
\* checked with: AppCatalog's theorems hold of it, and the window's of both.
THEOREM RuntimeImplementsService == Spec => ImplementsService
<1>1. Init => CommandHasRevision
  BY DEF Init, CommandHasRevision, ConnectStep, ProbeStep
<1>2. Spec => []CommandHasRevision
  <2>1. RuntimeInvariant /\ CommandHasRevision /\ [Next]_vars => CommandHasRevision'
    BY RevisionStep
  <2> QED
    BY <1>1, <2>1, RuntimeInvariantHolds, PTL DEF Spec
<1>3. Init => Service!Init
  BY DEF Init, SupervisorInit, Service!Init, CatalogOfRevision, CoreOfService,
     ShownByService, Service!Unconfigured
<1>4. RuntimeInvariant /\ SessionInvariant /\ CommandHasRevision /\ [Next]_vars =>
        [Service!Next]_Service!service
  BY ServiceStep DEF Known, Service!service
<1> QED
  BY <1>2, <1>3, <1>4, RuntimeInvariantHolds, SessionInvariantHolds, PTL
     DEF Spec, ImplementsService, Service!Spec
=============================================================================
