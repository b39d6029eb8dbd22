------------------------- MODULE CoreLaunchProofs -------------------------
(***************************************************************************)
(* Proofs about CoreLaunch, for every set of documents Mihomo accepts, any *)
(* number of configurations, of files changed from outside and of failed   *)
(* driver calls.                                                           *)
(***************************************************************************)
EXTENDS CoreLaunch, TLAPS

USE SupervisorAssumption, LaunchAssumption

IInv ==
  /\ LaunchTypeOK /\ LaunchInvariant
  /\ CoreRunsWhatWasChecked /\ FilesOutliveProcesses

\* Files that are removed are well typed, and the one under a handle stays.
LEMMA RemovedFiles ==
  ASSUME config \in [Kind -> Contents], NEW names, config' \in Removed(names, handle')
  PROVE  /\ config' \in [Kind -> Contents]
         /\ \A k \in Kind : k = handle' => config'[k] = config[k]
BY DEF Removed, Contents

\* Other software changes only what is not held.
LEMMA ChangedFiles ==
  ASSUME LaunchTypeOK, Change
  PROVE  /\ HeldProgram => program' = program
         /\ \A k \in Kind : HeldConfig(k) => config'[k] = config[k]
BY DEF LaunchTypeOK, Change

\* Once its file is written a job goes on with it, or is over.
LEMMA WrittenJob ==
  ASSUME LaunchTypeOK, WriteFile
  PROVE  /\ job.at = "write"
         /\ job'.at \in {"static", "end", "idle"}
         /\ job'.at # "idle" =>
              job'.kind = job.kind /\ job'.document = job.document /\ job'.part = "program"
         /\ job' \in [kind : Kind, at : At, part : Part, document : Contents,
                      authorized : BOOLEAN]
         /\ UNCHANGED <<state, handle, running, program, stored, holding, process, core>>
<1>1. \/ job' = [job EXCEPT !.at = "static", !.part = "program"]
      \/ job' = [job EXCEPT !.at = "end", !.part = "program"]
      \/ job' = Idle
  BY DEF WriteFile, To
<1>2. job.at = "write" /\ UNCHANGED <<state, handle, running, program, stored, holding, process, core>>
  BY DEF WriteFile, supervisor
<1>3. CASE job' = Idle
  BY <1>2, <1>3 DEF Idle, Kind, At, Part, Contents
<1>4. CASE job' # Idle
  BY <1>1, <1>2, <1>4 DEF LaunchTypeOK, Kind, At, Part, Inspection
<1> QED
  BY <1>3, <1>4

\* The process of a job is the pinned program.
LEMMA PinnedProcess ==
  ASSUME LaunchTypeOK, CoreRunsWhatWasChecked, process # NoProcess,
         NEW p, p = [process EXCEPT !.document = config[job.kind]]
  PROVE  p.program = "pinned"
BY DEF LaunchTypeOK, CoreRunsWhatWasChecked

\* A launch is of a stored document, and that has a TUN.
LEMMA OrderedDocument ==
  ASSUME stored \in Contents, stored # NoDocument => stored.tun,
         NEW session \in Session, Ordered(session) \in Document
  PROVE  Ordered(session).tun <=> session = "live"
BY DEF Contents, Document, NoDocument, Session, Ordered, Probe

\* A check that passes is Mihomo's own verdict on the document of the job.
LEMMA PassingCheck ==
  ASSUME LaunchTypeOK, HeldWhileNeeded, CoreRunsWhatWasChecked, CheckPasses
  PROVE  process.document = job.document /\ process.document \in Sound
<1>1. process # NoProcess
  BY DEF HeldWhileNeeded, CheckPasses, Spawned
<1> QED
  BY <1>1 DEF CoreRunsWhatWasChecked, CheckPasses

\* Handles come and go with the runtime state.
LEMMA HandleStep ==
  ASSUME IInv, [Next]_vars
  PROVE  HandleWhileActive'
<1> USE DEF IInv, LaunchTypeOK, SupervisorTypeOK, LaunchInvariant, HandleWhileActive, Active,
    RuntimeState, Session, Kind, CheckedBeforeLaunch, Launching
<1>1. CASE Startup
  BY <1>1 DEF Startup, supervisor, files, launch, Idle
<1>2. CASE \E kind \in Kind, d \in Document : Begin(kind, d)
  BY <1>2 DEF Begin, supervisor, files, launch, Idle
<1>3. CASE WriteFile
  BY <1>3 DEF WriteFile, supervisor, files, launch, To, HeldConfig
<1>4. CASE Inspect
  BY <1>4 DEF Inspect, supervisor, files, launch, Found, Following
<1>5. CASE Hold
  BY <1>5 DEF Hold, supervisor, files, launch, To, Following
<1>6. CASE Refuse
  BY <1>6 DEF Refuse, supervisor, files, launch, To
<1>7. CASE Create
  BY <1>7 DEF Create, supervisor, files, launch, To
<1>8. CASE Assign
  BY <1>8 DEF Assign, supervisor, files, launch, To
<1>9. CASE Read
  <2>1. UNCHANGED supervisor
    BY <1>9 DEF Read
  <2> QED
    BY <2>1 DEF supervisor
<1>10. CASE CheckPasses
  BY <1>10 DEF CheckPasses, supervisor, files, launch, To
<1>11. CASE Approve
  BY <1>11 DEF Approve, supervisor, files, launch
<1>12. CASE Adopt
  BY <1>12 DEF Adopt, supervisor, files, launch, To, Start
<1>13. CASE Use
  BY <1>13 DEF Use, supervisor, files, launch, To, Idle, MarkReady, PollStopped, PollExited,
     DriverFails
<1>14. CASE End
  BY <1>14 DEF End, supervisor, files, launch, Removed, Idle, Forget, StopOwned, StopSucceeds,
     StopFails, DriverFails
<1>15. CASE Accept
  BY <1>15 DEF Accept, supervisor, files, launch, Removed, Idle
<1>16. CASE Disconnect
  BY <1>16 DEF Disconnect, supervisor, files, launch, Removed, Forget, StopOwned,
     StopSucceeds, StopFails, DriverFails
<1>17. CASE Poll
  BY <1>17 DEF Poll, supervisor, files, launch, Removed, Forget, PollStopped, PollExited,
     DriverFails
<1>18. CASE Exit
  BY <1>18 DEF Exit, supervisor, files, launch, CoreExits
<1>19. CASE Change
  BY <1>19 DEF Change, supervisor, files, launch, HeldConfig, HeldProgram
<1>20. CASE Crash
  BY <1>20 DEF Crash, supervisor, files, launch, Idle, SupervisorLost
<1>21. CASE UNCHANGED vars
  BY <1>21 DEF vars, supervisor, files, launch
<1> QED
  BY <1>1, <1>2, <1>3, <1>4, <1>5, <1>6, <1>7, <1>8, <1>9, <1>10, <1>11, <1>12, <1>13, <1>14,
     <1>15, <1>16, <1>17, <1>18, <1>19, <1>20, <1>21 DEF Next

\* Launches end before a session begins, and none begins beside one.
LEMMA BesideStep ==
  ASSUME IInv, [Next]_vars
  PROVE  NoJobBesideSession'
<1> USE DEF IInv, LaunchTypeOK, SupervisorTypeOK, LaunchInvariant, HandleWhileActive,
    NoJobBesideSession, Active, RuntimeState, Session, At, Inspection, Kind, Part
<1>1. CASE Startup
  BY <1>1 DEF Startup, supervisor, files, launch, Idle
<1>2. CASE \E kind \in Kind, d \in Document : Begin(kind, d)
  BY <1>2 DEF Begin, supervisor, files, launch, Idle
<1>3. CASE WriteFile
  BY <1>3 DEF WriteFile, supervisor, files, launch, To, HeldConfig
<1>4. CASE Inspect
  BY <1>4 DEF Inspect, supervisor, files, launch, Found, Following
<1>5. CASE Hold
  BY <1>5 DEF Hold, supervisor, files, launch, To, Following
<1>6. CASE Refuse
  BY <1>6 DEF Refuse, supervisor, files, launch, To
<1>7. CASE Create
  BY <1>7 DEF Create, supervisor, files, launch, To
<1>8. CASE Assign
  BY <1>8 DEF Assign, supervisor, files, launch, To
<1>9. CASE Read
  BY <1>9 DEF Read, supervisor, files, launch
<1>10. CASE CheckPasses
  BY <1>10 DEF CheckPasses, supervisor, files, launch, To
<1>11. CASE Approve
  BY <1>11 DEF Approve, supervisor, files, launch
<1>12. CASE Adopt
  BY <1>12 DEF Adopt, supervisor, files, launch, To, Start
<1>13. CASE Use
  <2>1. CASE MarkReady /\ job' = Idle /\ job.kind = "live"
    BY <1>13, <2>1 DEF Use, MarkReady, Idle, files
  <2>2. CASE UNCHANGED supervisor /\ To("end")
    BY <1>13, <2>2 DEF Use, To, files, supervisor
  <2>3. CASE PollStopped /\ To("end")
    BY <1>13, <2>3 DEF Use, To, files, PollStopped, PollExited, DriverFails
  <2> QED
    BY <1>13, <2>1, <2>2, <2>3 DEF Use
<1>14. CASE End
  BY <1>14 DEF End, supervisor, files, launch, Removed, Idle, Forget, StopOwned, StopSucceeds,
     StopFails, DriverFails
<1>15. CASE Accept
  BY <1>15 DEF Accept, supervisor, files, launch, Removed, Idle
<1>16. CASE Disconnect
  BY <1>16 DEF Disconnect, supervisor, files, launch, Removed, Forget, StopOwned,
     StopSucceeds, StopFails, DriverFails
<1>17. CASE Poll
  BY <1>17 DEF Poll, supervisor, files, launch, Removed, Forget, PollStopped, PollExited,
     DriverFails
<1>18. CASE Exit
  BY <1>18 DEF Exit, supervisor, files, launch, CoreExits
<1>19. CASE Change
  BY <1>19 DEF Change, supervisor, files, launch, HeldConfig, HeldProgram
<1>20. CASE Crash
  BY <1>20 DEF Crash, supervisor, files, launch, Idle, SupervisorLost
<1>21. CASE UNCHANGED vars
  BY <1>21 DEF vars, supervisor, files, launch
<1> QED
  BY <1>1, <1>2, <1>3, <1>4, <1>5, <1>6, <1>7, <1>8, <1>9, <1>10, <1>11, <1>12, <1>13, <1>14,
     <1>15, <1>16, <1>17, <1>18, <1>19, <1>20, <1>21 DEF Next

\* Files are held exactly where the job needs them.
LEMMA HeldStep ==
  ASSUME IInv, [Next]_vars
  PROVE  HeldWhileNeeded'
<1> USE DEF IInv, LaunchTypeOK, LaunchInvariant, HeldWhileNeeded, At, Inspection, Holding,
    Spawned, Kind, Part, FoundStaysTrue, CoreRunsWhatWasChecked, NoProcess
<1>1. CASE Startup
  BY <1>1 DEF Startup, supervisor, files, launch, Idle
<1>2. CASE \E kind \in Kind, d \in Document : Begin(kind, d)
  <2>1. PICK kind \in Kind, d \in Document : Begin(kind, d)
    BY <1>2
  <2> QED
    BY <2>1 DEF Begin, supervisor, files, Idle
<1>3. CASE WriteFile
  <2>1. /\ job.at = "write" /\ job'.at \in {"static", "end", "idle"}
        /\ holding' = holding /\ process' = process
    BY <1>3, WrittenJob
  <2> QED
    BY <2>1
<1>4. CASE Inspect
  BY <1>4 DEF Inspect, supervisor, files, launch, Found, Following
<1>5. CASE Hold
  BY <1>5 DEF Hold, supervisor, files, launch, To, Following
<1>6. CASE Refuse
  BY <1>6 DEF Refuse, supervisor, files, launch, To
<1>7. CASE Create
  BY <1>7 DEF Create, supervisor, files, launch, To
<1>8. CASE Assign
  BY <1>8 DEF Assign, supervisor, files, launch, To
<1>9. CASE Read
  <2>1. UNCHANGED <<job, holding>>
    BY <1>9 DEF Read
  <2>2. CASE UNCHANGED process
    BY <2>1, <2>2
  <2>3. CASE process # NoProcess /\ process' = [process EXCEPT !.document = config[job.kind]]
    <3>1. process'.program = "pinned"
      BY <2>3, PinnedProcess
    <3> QED
      BY <2>1, <2>3, <3>1
  <2> QED
    BY <1>9, <2>2, <2>3 DEF Read
<1>10. CASE CheckPasses
  BY <1>10 DEF CheckPasses, supervisor, files, launch, To
<1>11. CASE Approve
  BY <1>11 DEF Approve, supervisor, files, launch
<1>12. CASE Adopt
  BY <1>12 DEF Adopt, supervisor, files, launch, To, Start
<1>13. CASE Use
  <2>1. CASE MarkReady /\ job' = Idle /\ job.kind = "live"
    BY <1>13, <2>1 DEF Use, MarkReady, Idle, files
  <2>2. CASE UNCHANGED supervisor /\ To("end")
    BY <1>13, <2>2 DEF Use, To, files, supervisor
  <2>3. CASE PollStopped /\ To("end")
    BY <1>13, <2>3 DEF Use, To, files, PollStopped, PollExited, DriverFails
  <2> QED
    BY <1>13, <2>1, <2>2, <2>3 DEF Use
<1>14. CASE End
  BY <1>14 DEF End, supervisor, files, launch, Removed, Idle, Forget, StopOwned, StopSucceeds,
     StopFails, DriverFails
<1>15. CASE Accept
  BY <1>15 DEF Accept, supervisor, files, launch, Removed, Idle
<1>16. CASE Disconnect
  BY <1>16 DEF Disconnect, supervisor, files, launch, Removed, Forget, StopOwned,
     StopSucceeds, StopFails, DriverFails
<1>17. CASE Poll
  BY <1>17 DEF Poll, supervisor, files, launch, Removed, Forget, PollStopped, PollExited,
     DriverFails
<1>18. CASE Exit
  BY <1>18 DEF Exit, supervisor, files, launch, CoreExits
<1>19. CASE Change
  BY <1>19 DEF Change, supervisor, files, launch, HeldConfig, HeldProgram
<1>20. CASE Crash
  BY <1>20 DEF Crash, supervisor, files, launch, Idle, SupervisorLost
<1>21. CASE UNCHANGED vars
  BY <1>21 DEF vars, supervisor, files, launch
<1> QED
  BY <1>1, <1>2, <1>3, <1>4, <1>5, <1>6, <1>7, <1>8, <1>9, <1>10, <1>11, <1>12, <1>13, <1>14,
     <1>15, <1>16, <1>17, <1>18, <1>19, <1>20, <1>21 DEF Next

\* A job keeps its document, and what it is about does not change meanwhile.
LEMMA OrderedStep ==
  ASSUME IInv, [Next]_vars
  PROVE  JobIsOrdered'
<1> USE DEF IInv, LaunchTypeOK, LaunchInvariant, JobIsOrdered, CheckedBeforeLaunch, Ordered,
    Probe, At, Inspection, Kind, Session, Part, Document, Contents, NoDocument
<1>1. CASE Startup
  BY <1>1 DEF Startup, supervisor, files, launch, Idle
<1>2. CASE \E kind \in Kind, d \in Document : Begin(kind, d)
  <2>1. PICK kind \in Kind, d \in Document : Begin(kind, d)
    BY <1>2
  <2> QED
    BY <2>1 DEF Begin, supervisor, files, Idle
<1>3. CASE WriteFile
  BY <1>3, WrittenJob
<1>4. CASE Inspect
  BY <1>4 DEF Inspect, supervisor, files, launch, Found, Following
<1>5. CASE Hold
  BY <1>5 DEF Hold, supervisor, files, launch, To, Following
<1>6. CASE Refuse
  BY <1>6 DEF Refuse, supervisor, files, launch, To
<1>7. CASE Create
  BY <1>7 DEF Create, supervisor, files, launch, To
<1>8. CASE Assign
  BY <1>8 DEF Assign, supervisor, files, launch, To
<1>9. CASE Read
  BY <1>9 DEF Read, supervisor, files, launch
<1>10. CASE CheckPasses
  BY <1>10 DEF CheckPasses, supervisor, files, launch, To
<1>11. CASE Approve
  BY <1>11 DEF Approve, supervisor, files, launch
<1>12. CASE Adopt
  BY <1>12 DEF Adopt, supervisor, files, launch, To, Start
<1>13. CASE Use
  <2>1. CASE MarkReady /\ job' = Idle /\ job.kind = "live"
    BY <1>13, <2>1 DEF Use, MarkReady, Idle, files
  <2>2. CASE UNCHANGED supervisor /\ To("end")
    BY <1>13, <2>2 DEF Use, To, files, supervisor
  <2>3. CASE PollStopped /\ To("end")
    BY <1>13, <2>3 DEF Use, To, files, PollStopped, PollExited, DriverFails
  <2> QED
    BY <1>13, <2>1, <2>2, <2>3 DEF Use
<1>14. CASE End
  BY <1>14 DEF End, supervisor, files, launch, Removed, Idle, Forget, StopOwned, StopSucceeds,
     StopFails, DriverFails
<1>15. CASE Accept
  BY <1>15 DEF Accept, supervisor, files, launch, Removed, Idle
<1>16. CASE Disconnect
  BY <1>16 DEF Disconnect, supervisor, files, launch, Removed, Forget, StopOwned,
     StopSucceeds, StopFails, DriverFails
<1>17. CASE Poll
  BY <1>17 DEF Poll, supervisor, files, launch, Removed, Forget, PollStopped, PollExited,
     DriverFails
<1>18. CASE Exit
  BY <1>18 DEF Exit, supervisor, files, launch, CoreExits
<1>19. CASE Change
  BY <1>19 DEF Change, supervisor, files, launch, HeldConfig, HeldProgram
<1>20. CASE Crash
  BY <1>20 DEF Crash, supervisor, files, launch, Idle, SupervisorLost
<1>21. CASE UNCHANGED vars
  BY <1>21 DEF vars, supervisor, files, launch
<1> QED
  BY <1>1, <1>2, <1>3, <1>4, <1>5, <1>6, <1>7, <1>8, <1>9, <1>10, <1>11, <1>12, <1>13, <1>14,
     <1>15, <1>16, <1>17, <1>18, <1>19, <1>20, <1>21 DEF Next

\* A launch goes on only from a passed check of what was read under guards.
LEMMA CheckedStep ==
  ASSUME IInv, [Next]_vars
  PROVE  CheckedBeforeLaunch'
<1> USE DEF IInv, LaunchTypeOK, LaunchInvariant, HeldWhileNeeded, JobIsOrdered,
    CheckedBeforeLaunch, FoundStaysTrue, CoreRunsWhatWasChecked, FilesOutliveProcesses, At,
    Inspection, Holding, Spawned, Launching, Kind, Session, Part, Document, Contents,
    NoDocument, NoProcess
<1>1. CASE Startup
  BY <1>1 DEF Startup, supervisor, files, launch, Idle
<1>2. CASE \E kind \in Kind, d \in Document : Begin(kind, d)
  BY <1>2 DEF Begin, supervisor, files, launch, Idle
<1>3. CASE WriteFile
  BY <1>3, WrittenJob
<1>4. CASE Inspect
  <2>1. /\ job'.at = job.at \/ (job.at \in Inspection /\ job'.at = Following(job.at))
        /\ job'.kind = job.kind /\ job'.document = job.document /\ stored' = stored
    BY <1>4 DEF Inspect
  <2>2. job'.at \in Launching => job.at \in Launching
    BY <2>1 DEF Following
  <2>3. job'.at = "accepted" => job.at = "accepted"
    BY <2>1 DEF Following
  <2> QED
    BY <2>1, <2>2, <2>3
<1>5. CASE Hold
  BY <1>5 DEF Hold, supervisor, files, launch, To, Following
<1>6. CASE Refuse
  BY <1>6 DEF Refuse, supervisor, files, launch, To
<1>7. CASE Create
  BY <1>7 DEF Create, supervisor, files, launch, To
<1>8. CASE Assign
  BY <1>8 DEF Assign, supervisor, files, launch, To
<1>9. CASE Read
  BY <1>9 DEF Read, supervisor, files, launch
<1>10. CASE CheckPasses
  <2>1. process.document = job.document /\ job.document \in Sound
    BY <1>10, PassingCheck DEF CheckPasses
  <2>2. /\ job'.at = IF job.kind = "candidate" THEN "accepted" ELSE "approve"
        /\ job'.kind = job.kind /\ job'.document = job.document /\ stored' = stored
    BY <1>10 DEF CheckPasses, To
  <2> QED
    BY <2>1, <2>2
<1>11. CASE Approve
  BY <1>11 DEF Approve, supervisor, files, launch
<1>12. CASE Adopt
  BY <1>12 DEF Adopt, supervisor, files, launch, To, Start
<1>13. CASE Use
  <2>1. CASE MarkReady /\ job' = Idle /\ job.kind = "live"
    BY <1>13, <2>1 DEF Use, MarkReady, Idle, files
  <2>2. CASE UNCHANGED supervisor /\ To("end")
    BY <1>13, <2>2 DEF Use, To, files, supervisor
  <2>3. CASE PollStopped /\ To("end")
    BY <1>13, <2>3 DEF Use, To, files, PollStopped, PollExited, DriverFails
  <2> QED
    BY <1>13, <2>1, <2>2, <2>3 DEF Use
<1>14. CASE End
  BY <1>14 DEF End, supervisor, files, launch, Removed, Idle, Forget, StopOwned, StopSucceeds,
     StopFails, DriverFails
<1>15. CASE Accept
  BY <1>15 DEF Accept, supervisor, files, launch, Removed, Idle
<1>16. CASE Disconnect
  BY <1>16 DEF Disconnect, supervisor, files, launch, Removed, Forget, StopOwned,
     StopSucceeds, StopFails, DriverFails
<1>17. CASE Poll
  BY <1>17 DEF Poll, supervisor, files, launch, Removed, Forget, PollStopped, PollExited,
     DriverFails
<1>18. CASE Exit
  BY <1>18 DEF Exit, supervisor, files, launch, CoreExits
<1>19. CASE Change
  BY <1>19 DEF Change, supervisor, files, launch, HeldConfig, HeldProgram
<1>20. CASE Crash
  BY <1>20 DEF Crash, supervisor, files, launch, Idle, SupervisorLost
<1>21. CASE UNCHANGED vars
  BY <1>21 DEF vars, supervisor, files, launch
<1> QED
  BY <1>1, <1>2, <1>3, <1>4, <1>5, <1>6, <1>7, <1>8, <1>9, <1>10, <1>11, <1>12, <1>13, <1>14,
     <1>15, <1>16, <1>17, <1>18, <1>19, <1>20, <1>21 DEF Next

\* Held files do not change, and no job inspects others.
LEMMA FoundStep ==
  ASSUME IInv, [Next]_vars
  PROVE  FoundStaysTrue'
<1> USE DEF IInv, LaunchTypeOK, LaunchInvariant, HeldWhileNeeded, FoundStaysTrue, At,
    Inspection, Holding, Kind, Session, Part, Contents, NoDocument, HeldConfig, HeldProgram
<1>1. CASE Startup
  BY <1>1 DEF Startup, supervisor, files, launch, Idle
<1>2. CASE \E kind \in Kind, d \in Document : Begin(kind, d)
  BY <1>2 DEF Begin, supervisor, files, launch, Idle
<1>3. CASE WriteFile
  BY <1>3, WrittenJob
<1>4. CASE Inspect
  BY <1>4 DEF Inspect, supervisor, files, launch, Found, Following
<1>5. CASE Hold
  BY <1>5 DEF Hold, supervisor, files, launch, To, Following
<1>6. CASE Refuse
  BY <1>6 DEF Refuse, supervisor, files, launch, To
<1>7. CASE Create
  BY <1>7 DEF Create, supervisor, files, launch, To
<1>8. CASE Assign
  BY <1>8 DEF Assign, supervisor, files, launch, To
<1>9. CASE Read
  BY <1>9 DEF Read, supervisor, files, launch
<1>10. CASE CheckPasses
  BY <1>10 DEF CheckPasses, supervisor, files, launch, To
<1>11. CASE Approve
  BY <1>11 DEF Approve, supervisor, files, launch
<1>12. CASE Adopt
  BY <1>12 DEF Adopt, supervisor, files, launch, To, Start
<1>13. CASE Use
  <2>1. CASE MarkReady /\ job' = Idle /\ job.kind = "live"
    BY <1>13, <2>1 DEF Use, MarkReady, Idle, files
  <2>2. CASE UNCHANGED supervisor /\ To("end")
    BY <1>13, <2>2 DEF Use, To, files, supervisor
  <2>3. CASE PollStopped /\ To("end")
    BY <1>13, <2>3 DEF Use, To, files, PollStopped, PollExited, DriverFails
  <2> QED
    BY <1>13, <2>1, <2>2, <2>3 DEF Use
<1>14. CASE End
  BY <1>14 DEF End, supervisor, files, launch, Removed, Idle, Forget, StopOwned, StopSucceeds,
     StopFails, DriverFails
<1>15. CASE Accept
  BY <1>15 DEF Accept, supervisor, files, launch, Removed, Idle
<1>16. CASE Disconnect
  BY <1>16 DEF Disconnect, supervisor, files, launch, Removed, Forget, StopOwned,
     StopSucceeds, StopFails, DriverFails
<1>17. CASE Poll
  BY <1>17 DEF Poll, supervisor, files, launch, Removed, Forget, PollStopped, PollExited,
     DriverFails
<1>18. CASE Exit
  BY <1>18 DEF Exit, supervisor, files, launch, CoreExits
<1>19. CASE Change
  BY <1>19 DEF Change, supervisor, files, launch, HeldConfig, HeldProgram
<1>20. CASE Crash
  BY <1>20 DEF Crash, supervisor, files, launch, Idle, SupervisorLost
<1>21. CASE UNCHANGED vars
  BY <1>21 DEF vars, supervisor, files, launch
<1> QED
  BY <1>1, <1>2, <1>3, <1>4, <1>5, <1>6, <1>7, <1>8, <1>9, <1>10, <1>11, <1>12, <1>13, <1>14,
     <1>15, <1>16, <1>17, <1>18, <1>19, <1>20, <1>21 DEF Next

\* Processes are created under guards from what was inspected under them.
LEMMA RunsStep ==
  ASSUME IInv, [Next]_vars
  PROVE  CoreRunsWhatWasChecked'
<1> USE DEF IInv, LaunchTypeOK, SupervisorTypeOK, LaunchInvariant, HandleWhileActive,
    NoJobBesideSession, HeldWhileNeeded, JobIsOrdered, CheckedBeforeLaunch, FoundStaysTrue,
    CoreRunsWhatWasChecked, FilesOutliveProcesses, At, Inspection, Holding, Spawned,
    Launching, Kind, Session, Part, Document, Contents, NoDocument, NoProcess, Ordered, Probe,
    HeldConfig, HeldProgram
<1>1. CASE Startup
  BY <1>1 DEF Startup, supervisor, files, launch, Idle
<1>2. CASE \E kind \in Kind, d \in Document : Begin(kind, d)
  <2>1. PICK kind \in Kind, d \in Document : Begin(kind, d)
    BY <1>2
  <2> QED
    BY <2>1 DEF Begin, supervisor, files, Idle
<1>3. CASE WriteFile
  BY <1>3 DEF WriteFile, supervisor, files, launch, To, HeldConfig
<1>4. CASE Inspect
  BY <1>4 DEF Inspect, supervisor, files, launch, Found, Following
<1>5. CASE Hold
  BY <1>5 DEF Hold, supervisor, files, launch, To, Following
<1>6. CASE Refuse
  BY <1>6 DEF Refuse, supervisor, files, launch, To
<1>7. CASE Create
  BY <1>7 DEF Create, supervisor, files, launch, To
<1>8. CASE Assign
  <2>1. process' = [process EXCEPT !.assigned = TRUE] /\ job'.document = job.document
    BY <1>8 DEF Assign, To
  <2>2. process'.program = process.program /\ process'.document = process.document
    BY <2>1
  <2>3. UNCHANGED <<core, handle, stored>> /\ process # NoProcess
    BY <1>8 DEF Assign, supervisor
  <2> QED
    BY <2>1, <2>2, <2>3
<1>9. CASE Read
  BY <1>9 DEF Read, supervisor, files, launch
<1>10. CASE CheckPasses
  BY <1>10 DEF CheckPasses, supervisor, files, launch, To
<1>11. CASE Approve
  BY <1>11 DEF Approve, supervisor, files, launch
<1>12. CASE Adopt
  <2>1. core' = [process EXCEPT !.assigned = TRUE] /\ process' = NoProcess
    BY <1>12 DEF Adopt
  <2>2. core'.program = process.program /\ core'.document = process.document
    BY <2>1
  <2>3. handle' = job.kind /\ stored' = stored /\ process # NoProcess
    BY <1>12 DEF Adopt, Start
  <2>4. job.document = Ordered(job.kind) /\ job.document \in Sound /\ job.kind \in Session
    BY <1>12 DEF Adopt
  <2>5. Ordered(job.kind).tun <=> job.kind = "live"
    BY <2>4, OrderedDocument
  <2>6. core'.program = "pinned" /\ core'.document \in {NoDocument, job.document}
    BY <2>2, <2>3
  <2>7. Ordered(handle)' = Ordered(job.kind)
    BY <2>3
  <2> QED
    BY <2>1, <2>3, <2>4, <2>5, <2>6, <2>7
<1>13. CASE Use
  <2>1. CASE MarkReady /\ job' = Idle /\ job.kind = "live"
    BY <1>13, <2>1 DEF Use, MarkReady, Idle, files
  <2>2. CASE UNCHANGED supervisor /\ To("end")
    BY <1>13, <2>2 DEF Use, To, files, supervisor
  <2>3. CASE PollStopped /\ To("end")
    BY <1>13, <2>3 DEF Use, To, files, PollStopped, PollExited, DriverFails
  <2> QED
    BY <1>13, <2>1, <2>2, <2>3 DEF Use
<1>14. CASE End
  BY <1>14 DEF End, supervisor, files, launch, Removed, Idle, Forget, StopOwned, StopSucceeds,
     StopFails, DriverFails
<1>15. CASE Accept
  BY <1>15 DEF Accept, supervisor, files, launch, Removed, Idle
<1>16. CASE Disconnect
  BY <1>16 DEF Disconnect, supervisor, files, launch, Removed, Forget, StopOwned,
     StopSucceeds, StopFails, DriverFails
<1>17. CASE Poll
  BY <1>17 DEF Poll, supervisor, files, launch, Removed, Forget, PollStopped, PollExited,
     DriverFails
<1>18. CASE Exit
  BY <1>18 DEF Exit, supervisor, files, launch, CoreExits
<1>19. CASE Change
  BY <1>19 DEF Change, supervisor, files, launch, HeldConfig, HeldProgram
<1>20. CASE Crash
  BY <1>20 DEF Crash, supervisor, files, launch, Idle, SupervisorLost
<1>21. CASE UNCHANGED vars
  BY <1>21 DEF vars, supervisor, files, launch
<1> QED
  BY <1>1, <1>2, <1>3, <1>4, <1>5, <1>6, <1>7, <1>8, <1>9, <1>10, <1>11, <1>12, <1>13, <1>14,
     <1>15, <1>16, <1>17, <1>18, <1>19, <1>20, <1>21 DEF Next

\* Guards are passed on, and let go after the process only.
LEMMA OutliveStep ==
  ASSUME IInv, [Next]_vars
  PROVE  FilesOutliveProcesses'
<1> USE DEF IInv, LaunchTypeOK, SupervisorTypeOK, LaunchInvariant, HandleWhileActive,
    NoJobBesideSession, HeldWhileNeeded, JobIsOrdered, CheckedBeforeLaunch, FoundStaysTrue,
    CoreRunsWhatWasChecked, FilesOutliveProcesses, At, Inspection, Holding, Spawned,
    Launching, Kind, Session, Part, Document, Contents, NoDocument, NoProcess, Ordered, Probe,
    HeldConfig, HeldProgram
<1>1. CASE Startup
  BY <1>1 DEF Startup, supervisor, files, launch, Idle
<1>2. CASE \E kind \in Kind, d \in Document : Begin(kind, d)
  <2>1. PICK kind \in Kind, d \in Document : Begin(kind, d)
    BY <1>2
  <2> QED
    BY <2>1 DEF Begin, supervisor, files, Idle
<1>3. CASE WriteFile
  BY <1>3 DEF WriteFile, supervisor, files, launch, To, HeldConfig
<1>4. CASE Inspect
  BY <1>4 DEF Inspect, supervisor, files, launch, Found, Following
<1>5. CASE Hold
  BY <1>5 DEF Hold, supervisor, files, launch, To, Following
<1>6. CASE Refuse
  BY <1>6 DEF Refuse, supervisor, files, launch, To
<1>7. CASE Create
  BY <1>7 DEF Create, supervisor, files, launch, To
<1>8. CASE Assign
  BY <1>8 DEF Assign, supervisor, files, launch, To
<1>9. CASE Read
  BY <1>9 DEF Read, supervisor, files, launch
<1>10. CASE CheckPasses
  BY <1>10 DEF CheckPasses, supervisor, files, launch, To
<1>11. CASE Approve
  BY <1>11 DEF Approve, supervisor, files, launch
<1>12. CASE Adopt
  BY <1>12 DEF Adopt, supervisor, files, launch, To, Start
<1>13. CASE Use
  <2>1. CASE MarkReady /\ job' = Idle /\ job.kind = "live"
    BY <1>13, <2>1 DEF Use, MarkReady, Idle, files
  <2>2. CASE UNCHANGED supervisor /\ To("end")
    BY <1>13, <2>2 DEF Use, To, files, supervisor
  <2>3. CASE PollStopped /\ To("end")
    BY <1>13, <2>3 DEF Use, To, files, PollStopped, PollExited, DriverFails
  <2> QED
    BY <1>13, <2>1, <2>2, <2>3 DEF Use
<1>14. CASE End
  <2>1. config' \in [Kind -> Contents] /\ \A k \in Kind : k = handle' => config'[k] = config[k]
    BY <1>14, RemovedFiles DEF End
  <2>2. handle' = handle \/ handle' = "none"
    BY <1>14 DEF End, StopOwned, StopSucceeds, StopFails, DriverFails, supervisor
  <2>3. job.at \notin Spawned /\ UNCHANGED <<program, stored, process>>
    BY <1>14 DEF End
  <2>4. process = NoProcess
    BY <2>3
  <2>5. ASSUME handle' # "none" PROVE program' = "pinned" /\ config'[handle'] = Ordered(handle)'
    <3>1. handle' = handle /\ handle \in Kind
      BY <2>2, <2>5
    <3>2. config'[handle] = config[handle]
      BY <2>1, <3>1
    <3> QED
      BY <2>3, <2>5, <3>1, <3>2
  <2> QED
    BY <2>3, <2>4, <2>5
<1>15. CASE Accept
  BY <1>15 DEF Accept, supervisor, files, launch, Removed, Idle
<1>16. CASE Disconnect
  <2>1. config' \in [Kind -> Contents] /\ \A k \in Kind : k = handle' => config'[k] = config[k]
    BY <1>16, RemovedFiles DEF Disconnect
  <2>2. handle' = handle \/ handle' = "none"
    BY <1>16 DEF Disconnect, StopOwned, StopSucceeds, StopFails, DriverFails, supervisor
  <2>3. job.at \notin Spawned /\ UNCHANGED <<program, stored, process>>
    BY <1>16 DEF Disconnect
  <2>4. process = NoProcess
    BY <2>3
  <2>5. ASSUME handle' # "none" PROVE program' = "pinned" /\ config'[handle'] = Ordered(handle)'
    <3>1. handle' = handle /\ handle \in Kind
      BY <2>2, <2>5
    <3>2. config'[handle] = config[handle]
      BY <2>1, <3>1
    <3> QED
      BY <2>3, <2>5, <3>1, <3>2
  <2> QED
    BY <2>3, <2>4, <2>5
<1>17. CASE Poll
  <2>1. config' \in [Kind -> Contents] /\ \A k \in Kind : k = handle' => config'[k] = config[k]
    BY <1>17, RemovedFiles DEF Poll
  <2>2. handle' = handle \/ handle' = "none"
    BY <1>17 DEF Poll, PollStopped, PollExited, DriverFails, supervisor
  <2>3. job.at \notin Spawned /\ UNCHANGED <<program, stored, process>>
    BY <1>17 DEF Poll
  <2>4. process = NoProcess
    BY <2>3
  <2>5. ASSUME handle' # "none" PROVE program' = "pinned" /\ config'[handle'] = Ordered(handle)'
    <3>1. handle' = handle /\ handle \in Kind
      BY <2>2, <2>5
    <3>2. config'[handle] = config[handle]
      BY <2>1, <3>1
    <3> QED
      BY <2>3, <2>5, <3>1, <3>2
  <2> QED
    BY <2>3, <2>4, <2>5
<1>18. CASE Exit
  BY <1>18 DEF Exit, supervisor, files, launch, CoreExits
<1>19. CASE Change
  <2>1. UNCHANGED <<supervisor, launch>>
    BY <1>19 DEF Change
  <2>2. process # NoProcess => program' = program /\ config'[job.kind] = config[job.kind]
    BY <1>19, ChangedFiles
  <2>3. handle # "none" => program' = program /\ config'[handle] = config[handle]
    BY <1>19, ChangedFiles
  <2> QED
    BY <2>1, <2>2, <2>3 DEF supervisor, launch
<1>20. CASE Crash
  BY <1>20 DEF Crash, supervisor, files, launch, Idle, SupervisorLost
<1>21. CASE UNCHANGED vars
  BY <1>21 DEF vars, supervisor, files, launch
<1> QED
  BY <1>1, <1>2, <1>3, <1>4, <1>5, <1>6, <1>7, <1>8, <1>9, <1>10, <1>11, <1>12, <1>13, <1>14,
     <1>15, <1>16, <1>17, <1>18, <1>19, <1>20, <1>21 DEF Next

\* Every document has its TUN enabled or not.
LEMMA TunIsBoolean == \A d \in Contents : d.tun \in BOOLEAN
<1>1. \A d \in Document : d.tun \in BOOLEAN
  BY DEF Document
<1>2. NoDocument.tun \in BOOLEAN
  BY DEF NoDocument
<1> QED
  BY <1>1, <1>2 DEF Contents

\* Stopping the core, or failing to, is well typed.
LEMMA StopTyped ==
  ASSUME SupervisorTypeOK, StopOwned
  PROVE  SupervisorTypeOK'
<1>1. state' \in RuntimeState /\ handle' \in Session \cup {"none"}
  BY DEF SupervisorTypeOK, StopOwned, StopSucceeds, StopFails, DriverFails, RuntimeState
<1>2. faults' \in 0 .. MaxFaults
  <2>1. CASE faults' = faults
    BY <2>1 DEF SupervisorTypeOK
  <2>2. CASE DriverFails
    BY <2>2 DEF SupervisorTypeOK, DriverFails
  <2> QED
    BY <2>1, <2>2 DEF StopOwned, StopSucceeds, StopFails
<1>3. running' \in BOOLEAN
  BY Zenon DEF SupervisorTypeOK, StopOwned, StopSucceeds, StopFails
<1> QED
  BY <1>1, <1>2, <1>3 DEF SupervisorTypeOK

\* The supervisor stays well typed.
LEMMA SupervisorTyped ==
  ASSUME IInv, [Next]_vars
  PROVE  SupervisorTypeOK'
<1> USE DEF IInv, LaunchTypeOK, SupervisorTypeOK, RuntimeState, Session, Kind,
    CheckedBeforeLaunch, Launching, LaunchInvariant
<1>1. CASE Startup
  BY <1>1 DEF Startup, supervisor, files, launch, Idle
<1>2. CASE \E kind \in Kind, d \in Document : Begin(kind, d)
  BY <1>2 DEF Begin, supervisor, files, launch, Idle
<1>3. CASE WriteFile
  BY <1>3 DEF WriteFile, supervisor, files, launch, To, HeldConfig
<1>4. CASE Inspect
  BY <1>4 DEF Inspect, supervisor, files, launch, Found, Following
<1>5. CASE Hold
  BY <1>5 DEF Hold, supervisor, files, launch, To, Following
<1>6. CASE Refuse
  BY <1>6 DEF Refuse, supervisor, files, launch, To
<1>7. CASE Create
  BY <1>7 DEF Create, supervisor, files, launch, To
<1>8. CASE Assign
  BY <1>8 DEF Assign, supervisor, files, launch, To
<1>9. CASE Read
  <2>1. UNCHANGED supervisor
    BY <1>9 DEF Read
  <2> QED
    BY <2>1 DEF supervisor
<1>10. CASE CheckPasses
  BY <1>10 DEF CheckPasses, supervisor, files, launch, To
<1>11. CASE Approve
  BY <1>11 DEF Approve, supervisor, files, launch
<1>12. CASE Adopt
  BY <1>12 DEF Adopt, supervisor, files, launch, To, Start
<1>13. CASE Use
  BY <1>13 DEF Use, supervisor, files, launch, To, Idle, MarkReady, PollStopped, PollExited,
     DriverFails
<1>14. CASE End
  <2>1. CASE UNCHANGED supervisor
    BY <2>1 DEF supervisor
  <2>2. CASE StopOwned
    BY <2>2, StopTyped
  <2> QED
    BY <1>14, <2>1, <2>2 DEF End
<1>15. CASE Accept
  BY <1>15 DEF Accept, supervisor, files, launch, Removed, Idle
<1>16. CASE Disconnect
  <2>1. CASE UNCHANGED supervisor
    BY <2>1 DEF supervisor
  <2>2. CASE StopOwned
    BY <2>2, StopTyped
  <2> QED
    BY <1>16, <2>1, <2>2 DEF Disconnect
<1>17. CASE Poll
  BY <1>17 DEF Poll, supervisor, files, launch, Removed, Forget, PollStopped, PollExited,
     DriverFails
<1>18. CASE Exit
  BY <1>18 DEF Exit, supervisor, files, launch, CoreExits
<1>19. CASE Change
  BY <1>19 DEF Change, supervisor, files, launch, HeldConfig, HeldProgram
<1>20. CASE Crash
  BY <1>20 DEF Crash, supervisor, files, launch, Idle, SupervisorLost
<1>21. CASE UNCHANGED vars
  BY <1>21 DEF vars, supervisor, files, launch
<1> QED
  BY <1>1, <1>2, <1>3, <1>4, <1>5, <1>6, <1>7, <1>8, <1>9, <1>10, <1>11, <1>12, <1>13, <1>14,
     <1>15, <1>16, <1>17, <1>18, <1>19, <1>20, <1>21 DEF Next

\* The files on the disk stay well typed.
LEMMA FilesTyped ==
  ASSUME IInv, [Next]_vars
  PROVE  (program \in Program /\ config \in [Kind -> Contents] /\ changes \in 0 .. MaxChanges)'
<1> USE DEF IInv, LaunchTypeOK, Program, Contents
<1>1. CASE Startup
  BY <1>1 DEF Startup, supervisor, files, launch, Idle
<1>2. CASE \E kind \in Kind, d \in Document : Begin(kind, d)
  BY <1>2 DEF Begin, supervisor, files, launch, Idle
<1>3. CASE WriteFile
  BY <1>3 DEF WriteFile, supervisor, files, launch, To, HeldConfig
<1>4. CASE Inspect
  BY <1>4 DEF Inspect, supervisor, files, launch, Found, Following
<1>5. CASE Hold
  BY <1>5 DEF Hold, supervisor, files, launch, To, Following
<1>6. CASE Refuse
  BY <1>6 DEF Refuse, supervisor, files, launch, To
<1>7. CASE Create
  BY <1>7 DEF Create, supervisor, files, launch, To
<1>8. CASE Assign
  BY <1>8 DEF Assign, supervisor, files, launch, To
<1>9. CASE Read
  BY <1>9 DEF Read, supervisor, files, launch
<1>10. CASE CheckPasses
  BY <1>10 DEF CheckPasses, supervisor, files, launch, To
<1>11. CASE Approve
  BY <1>11 DEF Approve, supervisor, files, launch
<1>12. CASE Adopt
  BY <1>12 DEF Adopt, supervisor, files, launch, To, Start
<1>13. CASE Use
  BY <1>13 DEF Use, supervisor, files, launch, To, Idle, MarkReady, PollStopped, PollExited,
     DriverFails
<1>14. CASE End
  <2>1. config' \in [Kind -> Contents]
    BY <1>14, RemovedFiles DEF End, supervisor
  <2> QED
    BY <2>1, <1>14 DEF End
<1>15. CASE Accept
  <2>1. config' \in [Kind -> Contents]
    BY <1>15, RemovedFiles DEF Accept, supervisor
  <2> QED
    BY <2>1, <1>15 DEF Accept
<1>16. CASE Disconnect
  <2>1. config' \in [Kind -> Contents]
    BY <1>16, RemovedFiles DEF Disconnect, supervisor
  <2> QED
    BY <2>1, <1>16 DEF Disconnect
<1>17. CASE Poll
  <2>1. config' \in [Kind -> Contents]
    BY <1>17, RemovedFiles DEF Poll, supervisor
  <2> QED
    BY <2>1, <1>17 DEF Poll
<1>18. CASE Exit
  BY <1>18 DEF Exit, supervisor, files, launch, CoreExits
<1>19. CASE Change
  BY <1>19 DEF Change, supervisor, files, launch, HeldConfig, HeldProgram
<1>20. CASE Crash
  BY <1>20 DEF Crash, supervisor, files, launch, Idle, SupervisorLost
<1>21. CASE UNCHANGED vars
  BY <1>21 DEF vars, supervisor, files, launch
<1> QED
  BY <1>1, <1>2, <1>3, <1>4, <1>5, <1>6, <1>7, <1>8, <1>9, <1>10, <1>11, <1>12, <1>13, <1>14,
     <1>15, <1>16, <1>17, <1>18, <1>19, <1>20, <1>21 DEF Next

\* What is stored stays a document.
LEMMA StoredTyped ==
  ASSUME IInv, [Next]_vars
  PROVE  (stored \in Contents)'
<1> USE DEF IInv, LaunchTypeOK, LaunchInvariant, JobIsOrdered, Contents
<1>1. CASE Startup
  BY <1>1 DEF Startup, supervisor, files, launch, Idle
<1>2. CASE \E kind \in Kind, d \in Document : Begin(kind, d)
  BY <1>2 DEF Begin, supervisor, files, launch, Idle
<1>3. CASE WriteFile
  BY <1>3 DEF WriteFile, supervisor, files, launch, To, HeldConfig
<1>4. CASE Inspect
  BY <1>4 DEF Inspect, supervisor, files, launch, Found, Following
<1>5. CASE Hold
  BY <1>5 DEF Hold, supervisor, files, launch, To, Following
<1>6. CASE Refuse
  BY <1>6 DEF Refuse, supervisor, files, launch, To
<1>7. CASE Create
  BY <1>7 DEF Create, supervisor, files, launch, To
<1>8. CASE Assign
  BY <1>8 DEF Assign, supervisor, files, launch, To
<1>9. CASE Read
  BY <1>9 DEF Read, supervisor, files, launch
<1>10. CASE CheckPasses
  BY <1>10 DEF CheckPasses, supervisor, files, launch, To
<1>11. CASE Approve
  BY <1>11 DEF Approve, supervisor, files, launch
<1>12. CASE Adopt
  BY <1>12 DEF Adopt, supervisor, files, launch, To, Start
<1>13. CASE Use
  BY <1>13 DEF Use, supervisor, files, launch, To, Idle, MarkReady, PollStopped, PollExited,
     DriverFails
<1>14. CASE End
  BY <1>14 DEF End, supervisor, files, launch, Removed, Idle, Forget, StopOwned, StopSucceeds,
     StopFails, DriverFails
<1>15. CASE Accept
  BY <1>15 DEF Accept, supervisor, files, launch, Removed, Idle
<1>16. CASE Disconnect
  BY <1>16 DEF Disconnect, supervisor, files, launch, Removed, Forget, StopOwned,
     StopSucceeds, StopFails, DriverFails
<1>17. CASE Poll
  BY <1>17 DEF Poll, supervisor, files, launch, Removed, Forget, PollStopped, PollExited,
     DriverFails
<1>18. CASE Exit
  BY <1>18 DEF Exit, supervisor, files, launch, CoreExits
<1>19. CASE Change
  BY <1>19 DEF Change, supervisor, files, launch, HeldConfig, HeldProgram
<1>20. CASE Crash
  BY <1>20 DEF Crash, supervisor, files, launch, Idle, SupervisorLost
<1>21. CASE UNCHANGED vars
  BY <1>21 DEF vars, supervisor, files, launch
<1> QED
  BY <1>1, <1>2, <1>3, <1>4, <1>5, <1>6, <1>7, <1>8, <1>9, <1>10, <1>11, <1>12, <1>13, <1>14,
     <1>15, <1>16, <1>17, <1>18, <1>19, <1>20, <1>21 DEF Next

\* A job stays well typed.
LEMMA JobTyped ==
  ASSUME IInv, [Next]_vars
  PROVE  (job \in [kind : Kind, at : At, part : Part, document : Contents, authorized : BOOLEAN])'
<1> USE DEF IInv, LaunchTypeOK, LaunchInvariant, JobIsOrdered, Contents, Kind, Session, Part,
    At, Inspection
<1>1. CASE Startup
  BY <1>1 DEF Startup, supervisor, files, launch, Idle
<1>2. CASE \E kind \in Kind, d \in Document : Begin(kind, d)
  <2>1. PICK kind \in Kind, d \in Document : Begin(kind, d)
    BY <1>2
  <2> QED
    BY <2>1 DEF Begin, supervisor, files, Idle
<1>3. CASE WriteFile
  BY <1>3, WrittenJob
<1>4. CASE Inspect
  BY <1>4 DEF Inspect, supervisor, files, launch, Found, Following
<1>5. CASE Hold
  BY <1>5 DEF Hold, supervisor, files, launch, To, Following
<1>6. CASE Refuse
  BY <1>6 DEF Refuse, supervisor, files, launch, To
<1>7. CASE Create
  BY <1>7 DEF Create, supervisor, files, launch, To
<1>8. CASE Assign
  BY <1>8 DEF Assign, supervisor, files, launch, To
<1>9. CASE Read
  BY <1>9 DEF Read, supervisor, files, launch
<1>10. CASE CheckPasses
  BY <1>10 DEF CheckPasses, supervisor, files, launch, To
<1>11. CASE Approve
  <2>1. job.document.tun \in BOOLEAN
    BY TunIsBoolean
  <2>2. job' = [job EXCEPT !.at = "spec", !.authorized = job.document.tun]
    BY <1>11 DEF Approve
  <2> QED
    BY <2>1, <2>2
<1>12. CASE Adopt
  BY <1>12 DEF Adopt, supervisor, files, launch, To, Start
<1>13. CASE Use
  <2>1. CASE MarkReady /\ job' = Idle /\ job.kind = "live"
    BY <1>13, <2>1 DEF Use, MarkReady, Idle, files
  <2>2. CASE UNCHANGED supervisor /\ To("end")
    BY <1>13, <2>2 DEF Use, To, files, supervisor
  <2>3. CASE PollStopped /\ To("end")
    BY <1>13, <2>3 DEF Use, To, files, PollStopped, PollExited, DriverFails
  <2> QED
    BY <1>13, <2>1, <2>2, <2>3 DEF Use
<1>14. CASE End
  BY <1>14 DEF End, supervisor, files, launch, Removed, Idle, Forget, StopOwned, StopSucceeds,
     StopFails, DriverFails
<1>15. CASE Accept
  BY <1>15 DEF Accept, supervisor, files, launch, Removed, Idle
<1>16. CASE Disconnect
  BY <1>16 DEF Disconnect, supervisor, files, launch, Removed, Forget, StopOwned,
     StopSucceeds, StopFails, DriverFails
<1>17. CASE Poll
  BY <1>17 DEF Poll, supervisor, files, launch, Removed, Forget, PollStopped, PollExited,
     DriverFails
<1>18. CASE Exit
  BY <1>18 DEF Exit, supervisor, files, launch, CoreExits
<1>19. CASE Change
  BY <1>19 DEF Change, supervisor, files, launch, HeldConfig, HeldProgram
<1>20. CASE Crash
  BY <1>20 DEF Crash, supervisor, files, launch, Idle, SupervisorLost
<1>21. CASE UNCHANGED vars
  BY <1>21 DEF vars, supervisor, files, launch
<1> QED
  BY <1>1, <1>2, <1>3, <1>4, <1>5, <1>6, <1>7, <1>8, <1>9, <1>10, <1>11, <1>12, <1>13, <1>14,
     <1>15, <1>16, <1>17, <1>18, <1>19, <1>20, <1>21 DEF Next

\* Processes stay well typed.
LEMMA ProcessesTyped ==
  ASSUME IInv, [Next]_vars
  PROVE  (/\ process \in [program : Program, document : Contents, assigned : BOOLEAN]
          /\ core \in [program : Program, document : Contents, assigned : BOOLEAN])'
<1> USE DEF IInv, LaunchTypeOK, SupervisorTypeOK, LaunchInvariant, HandleWhileActive,
    Contents, NoProcess, NoDocument, Program, Kind, Session
<1>1. CASE Startup
  BY <1>1 DEF Startup, supervisor, files, launch, Idle
<1>2. CASE \E kind \in Kind, d \in Document : Begin(kind, d)
  BY <1>2 DEF Begin, supervisor, files, launch, Idle
<1>3. CASE WriteFile
  BY <1>3 DEF WriteFile, supervisor, files, launch, To, HeldConfig
<1>4. CASE Inspect
  BY <1>4 DEF Inspect, supervisor, files, launch, Found, Following
<1>5. CASE Hold
  BY <1>5 DEF Hold, supervisor, files, launch, To, Following
<1>6. CASE Refuse
  BY <1>6 DEF Refuse, supervisor, files, launch, To
<1>7. CASE Create
  BY <1>7 DEF Create, supervisor, files, launch, To
<1>8. CASE Assign
  BY <1>8 DEF Assign, supervisor, files, launch, To
<1>9. CASE Read
  BY <1>9 DEF Read, supervisor, files, launch
<1>10. CASE CheckPasses
  BY <1>10 DEF CheckPasses, supervisor, files, launch, To
<1>11. CASE Approve
  BY <1>11 DEF Approve, supervisor, files, launch
<1>12. CASE Adopt
  BY <1>12 DEF Adopt, supervisor, files, launch, To, Start
<1>13. CASE Use
  BY <1>13 DEF Use, supervisor, files, launch, To, Idle, MarkReady, PollStopped, PollExited,
     DriverFails
<1>14. CASE End
  BY <1>14 DEF End, supervisor, files, launch, Removed, Idle, Forget, StopOwned, StopSucceeds,
     StopFails, DriverFails
<1>15. CASE Accept
  BY <1>15 DEF Accept, supervisor, files, launch, Removed, Idle
<1>16. CASE Disconnect
  BY <1>16 DEF Disconnect, supervisor, files, launch, Removed, Forget, StopOwned,
     StopSucceeds, StopFails, DriverFails
<1>17. CASE Poll
  BY <1>17 DEF Poll, supervisor, files, launch, Removed, Forget, PollStopped, PollExited,
     DriverFails
<1>18. CASE Exit
  BY <1>18 DEF Exit, supervisor, files, launch, CoreExits
<1>19. CASE Change
  BY <1>19 DEF Change, supervisor, files, launch, HeldConfig, HeldProgram
<1>20. CASE Crash
  BY <1>20 DEF Crash, supervisor, files, launch, Idle, SupervisorLost
<1>21. CASE UNCHANGED vars
  BY <1>21 DEF vars, supervisor, files, launch
<1> QED
  BY <1>1, <1>2, <1>3, <1>4, <1>5, <1>6, <1>7, <1>8, <1>9, <1>10, <1>11, <1>12, <1>13, <1>14,
     <1>15, <1>16, <1>17, <1>18, <1>19, <1>20, <1>21 DEF Next

\* Flags stay Boolean.
LEMMA FlagsTyped ==
  ASSUME IInv, [Next]_vars
  PROVE  (trusted \in BOOLEAN /\ holding \in BOOLEAN /\ stray \in BOOLEAN)'
<1> USE DEF IInv, LaunchTypeOK
<1>1. CASE Startup
  BY <1>1 DEF Startup, supervisor, files, launch, Idle
<1>2. CASE \E kind \in Kind, d \in Document : Begin(kind, d)
  BY <1>2 DEF Begin, supervisor, files, launch, Idle
<1>3. CASE WriteFile
  BY <1>3 DEF WriteFile, supervisor, files, launch, To, HeldConfig
<1>4. CASE Inspect
  BY <1>4 DEF Inspect, supervisor, files, launch, Found, Following
<1>5. CASE Hold
  BY <1>5 DEF Hold, supervisor, files, launch, To, Following
<1>6. CASE Refuse
  BY <1>6 DEF Refuse, supervisor, files, launch, To
<1>7. CASE Create
  BY <1>7 DEF Create, supervisor, files, launch, To
<1>8. CASE Assign
  BY <1>8 DEF Assign, supervisor, files, launch, To
<1>9. CASE Read
  BY <1>9 DEF Read, supervisor, files, launch
<1>10. CASE CheckPasses
  BY <1>10 DEF CheckPasses, supervisor, files, launch, To
<1>11. CASE Approve
  BY <1>11 DEF Approve, supervisor, files, launch
<1>12. CASE Adopt
  BY <1>12 DEF Adopt, supervisor, files, launch, To, Start
<1>13. CASE Use
  BY <1>13 DEF Use, supervisor, files, launch, To, Idle, MarkReady, PollStopped, PollExited,
     DriverFails
<1>14. CASE End
  BY <1>14 DEF End, supervisor, files, launch, Removed, Idle, Forget, StopOwned, StopSucceeds,
     StopFails, DriverFails
<1>15. CASE Accept
  BY <1>15 DEF Accept, supervisor, files, launch, Removed, Idle
<1>16. CASE Disconnect
  BY <1>16 DEF Disconnect, supervisor, files, launch, Removed, Forget, StopOwned,
     StopSucceeds, StopFails, DriverFails
<1>17. CASE Poll
  BY <1>17 DEF Poll, supervisor, files, launch, Removed, Forget, PollStopped, PollExited,
     DriverFails
<1>18. CASE Exit
  BY <1>18 DEF Exit, supervisor, files, launch, CoreExits
<1>19. CASE Change
  BY <1>19 DEF Change, supervisor, files, launch, HeldConfig, HeldProgram
<1>20. CASE Crash
  BY <1>20 DEF Crash, supervisor, files, launch, Idle, SupervisorLost
<1>21. CASE UNCHANGED vars
  BY <1>21 DEF vars, supervisor, files, launch
<1> QED
  BY <1>1, <1>2, <1>3, <1>4, <1>5, <1>6, <1>7, <1>8, <1>9, <1>10, <1>11, <1>12, <1>13, <1>14,
     <1>15, <1>16, <1>17, <1>18, <1>19, <1>20, <1>21 DEF Next

\* The initial state is well typed and has no job, no process and no file.
LEMMA LaunchInit == Init => IInv
<1> SUFFICES ASSUME Init PROVE IInv
  OBVIOUS
<1> USE DEF Init, SupervisorInit, NoProcess, NoDocument, Idle
<1>1. SupervisorTypeOK
  <2>1. state \in RuntimeState /\ handle \in Session \cup {"none"} /\ faults \in 0 .. MaxFaults
    BY DEF RuntimeState, Session
  <2>2. running \in BOOLEAN
    BY Zenon
  <2> QED
    BY <2>1, <2>2 DEF SupervisorTypeOK
<1>2. config \in [Kind -> Contents] /\ stored \in Contents /\ changes \in 0 .. MaxChanges
  BY DEF Contents
<1>3. job \in [kind : Kind, at : At, part : Part, document : Contents, authorized : BOOLEAN]
  BY DEF Kind, At, Part, Contents
<1>4. /\ process \in [program : Program, document : Contents, assigned : BOOLEAN]
      /\ core \in [program : Program, document : Contents, assigned : BOOLEAN]
  BY DEF Program, Contents
<1>5. LaunchTypeOK
  BY <1>1, <1>2, <1>3, <1>4 DEF LaunchTypeOK
<1>6. LaunchInvariant
  BY DEF LaunchInvariant, HandleWhileActive, NoJobBesideSession, HeldWhileNeeded,
     JobIsOrdered, CheckedBeforeLaunch, FoundStaysTrue, Active, Holding, Spawned, Launching,
     Inspection
<1> QED
  BY <1>5, <1>6 DEF IInv, CoreRunsWhatWasChecked, FilesOutliveProcesses

\* Every step keeps the invariant.
LEMMA LaunchStep ==
  ASSUME IInv, [Next]_vars
  PROVE  IInv'
<1>1. LaunchTypeOK'
  BY SupervisorTyped, FilesTyped, StoredTyped, JobTyped, ProcessesTyped, FlagsTyped
     DEF LaunchTypeOK
<1>2. LaunchInvariant'
  BY HandleStep, BesideStep, HeldStep, OrderedStep, CheckedStep, FoundStep DEF LaunchInvariant
<1> QED
  BY <1>1, <1>2, RunsStep, OutliveStep DEF IInv

\* Files, processes and the job in progress are well formed in every state.
THEOREM LaunchTypeCorrect == Spec => []LaunchTypeOK
<1>1. IInv /\ [Next]_vars => IInv'
  BY LaunchStep
<1>2. IInv => LaunchTypeOK
  BY DEF IInv
<1> QED
  BY LaunchInit, <1>1, <1>2, PTL DEF Spec

\* Whatever happens to the files meanwhile, a Mihomo process reads exactly the
\* document it was created for, and a session only one that Mihomo's own check
\* accepted.
THEOREM CoresRunWhatWasChecked == Spec => []CoreRunsWhatWasChecked
<1>1. IInv /\ [Next]_vars => IInv'
  BY LaunchStep
<1>2. IInv => CoreRunsWhatWasChecked
  BY DEF IInv
<1> QED
  BY LaunchInit, <1>1, <1>2, PTL DEF Spec

\* The files of a process stay on the disk unchanged for as long as it may run.
THEOREM FilesAlwaysOutliveProcesses == Spec => []FilesOutliveProcesses
<1>1. IInv /\ [Next]_vars => IInv'
  BY LaunchStep
<1>2. IInv => FilesOutliveProcesses
  BY DEF IInv
<1> QED
  BY LaunchInit, <1>1, <1>2, PTL DEF Spec
============================================================================
