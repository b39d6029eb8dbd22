---------------------------- MODULE LiveRuntime ----------------------------
(***************************************************************************)
(* The desktop application's runtime: LiveRuntime of                       *)
(* apps/hk-proton-desktop/src-tauri/src/live_runtime.rs, driving the core  *)
(* supervisor, under the commands of AppService (service.rs).              *)
(*                                                                         *)
(* run_service_command (commands.rs) holds one mutex during a command, so  *)
(* commands do not interleave with each other.  They do interleave with    *)
(* the core, which may exit between any two steps, and with the end of the *)
(* application, which leaves the files of the step it died in behind.      *)
(*                                                                         *)
(* The runtime directory holds three configuration files with plain        *)
(* secrets.  A file is represented by the revision it was rendered from.   *)
(* While the supervisor holds a session's handle, the handle's read-only   *)
(* guard keeps anyone from removing or replacing the session's file.       *)
(*                                                                         *)
(* The rendered profile always enables TUN, so wait_for_controller always  *)
(* waits for it.                                                           *)
(***************************************************************************)
EXTENDS CoreSupervisor

CONSTANT MaxRevision  \* bound: revisions that configuration changes create

ASSUME RuntimeAssumption == MaxRevision \in Nat

VARIABLES
  files,    \* files[n]: the configuration file, 0 when there is none
  current,  \* the store's current revision, 0 before the first import
  trusted,  \* trusted_core is there
  view,     \* LiveRuntime.view
  cmd,      \* the step of the command in progress, "idle", or "down"
  failure,  \* the ConnectFailure that connect is about to report, or "none"
  saw,      \* what wait_for_controller has seen so far
  late,     \* CONTROLLER_READY_TIMEOUT has passed
  net       \* what the core has set up: its ports, its TUN with the routes

runtime == <<files, current, trusted, view, cmd, failure, saw, late, net>>
vars == <<supervisor, runtime>>

FileName == {"active", "candidate", "probe"}
Observation == {"ports", "tun", "controller", "snapshot"}

ConnectFailure ==
  {"CoreUnavailable", "State", "Validation", "Preflight", "Conflict", "Launch",
   "PortOwnership", "ControllerUnavailable", "ApiMismatch", "TunDisabled",
   "CleanupPending"}

\* "Unexpected" is the view of a core that poll found gone; "NoCore" the
\* disconnected view without a trusted core.
View == ConnectFailure \cup {"Disconnected", "NoCore", "Starting", "Connected", "Unexpected"}

ConnectStep == {"write", "check", "start", "wait", "stop", "settle", "failed"}
ChangeStep == {"candidate", "commit"}
ProbeStep == {"probe", "probing", "probed"}
Step == ConnectStep \cup ChangeStep \cup ProbeStep

IsActive == state \notin {"Stopped", "Failed"}
DisconnectedView == IF trusted THEN "Disconnected" ELSE "NoCore"

\* RuntimeView.can_connect
CanConnect == trusted /\ view \notin {"Starting", "Connected", "CoreUnavailable"}

\* The handle's guard keeps the session's file (open_immutable_guard).
Guards(h, n) == <<h, n>> \in {<<"live", "active">>, <<"probe", "probe">>}

\* The files after an attempt to remove some of them under a handle.
Removed(names, h) ==
  [n \in FileName |-> IF n \in names /\ ~ Guards(h, n) THEN 0 ELSE files[n]]

Init ==
  /\ SupervisorInit
  /\ files = [n \in FileName |-> 0]
  /\ current = 0
  /\ trusted = FALSE
  /\ view = "NoCore"
  /\ cmd = "down"
  /\ failure = "none"
  /\ saw = {}
  /\ late = FALSE
  /\ net = {}

----------------------------------------------------------------------------
(* connect *)

Fail(f) == failure' = f /\ cmd' = "failed"

BeginConnect ==
  /\ cmd = "idle" /\ current # 0
  /\ IF state = "ManualVerificationRequired"
     THEN view' = "Connected" /\ UNCHANGED <<cmd, failure>>
     ELSE /\ view' = "Starting"
          /\ \/ IsActive /\ Fail("Launch")
             \/ ~ IsActive /\ ~ trusted /\ Fail("CoreUnavailable")
             \/ ~ IsActive /\ trusted /\ Fail("State")
             \/ ~ IsActive /\ trusted /\ cmd' = "write" /\ UNCHANGED failure
  /\ UNCHANGED <<supervisor, files, current, trusted, saw, late, net>>

WriteConfig ==
  /\ cmd = "write"
  /\ \/ files' = [files EXCEPT !["active"] = current] /\ cmd' = "check" /\ UNCHANGED failure
     \/ files' = [files EXCEPT !["active"] = 0] /\ Fail("State")
  /\ UNCHANGED <<supervisor, current, trusted, view, saw, late, net>>

\* Static validation, preflight snapshot, conflicts, launch authorization.
CheckLaunch ==
  /\ cmd = "check"
  /\ \/ cmd' = "start" /\ UNCHANGED failure
     \/ \E f \in {"State", "Validation", "Preflight", "Conflict", "Launch"} : Fail(f)
  /\ UNCHANGED <<supervisor, files, current, trusted, view, saw, late, net>>

StartCore ==
  /\ cmd = "start"
  /\ \/ Start("live") /\ cmd' = "wait" /\ UNCHANGED failure
     \/ UNCHANGED supervisor /\ Fail("Launch")
  /\ saw' = {} /\ late' = FALSE /\ net' = {}
  /\ UNCHANGED <<files, current, trusted, view>>

\* One turn of wait_for_controller when poll does not find the core running.
CoreLost ==
  /\ cmd = "wait"
  /\ PollStopped
  /\ failure' = "Launch" /\ cmd' = "stop"
  /\ UNCHANGED <<files, current, trusted, view, saw, late, net>>

\* What a turn leaves in the flags: the controller is only asked when the ports
\* are owned and the TUN was seen up.
SeenBefore == saw \cup net
Seen ==
  {SeenBefore \cup answered :
     answered \in IF {"ports", "tun"} \subseteq SeenBefore /\ "ports" \in net
                  THEN {{}, {"controller"}, {"controller", "snapshot"}} ELSE {{}}}

\* Mutant of MissesTun: a controller that does not answer ends the turn as well.
MissesTunOrController ==
  "ports" \in net /\ ("tun" \notin SeenBefore \/ "controller" \notin saw)

\* Ports owned, TUN not seen: the turn ends before the deadline is looked at.
MissesTun == "ports" \in net /\ "tun" \notin SeenBefore

TunMissing ==
  /\ cmd = "wait"
  /\ PollRunning
  /\ MissesTun
  /\ saw' = SeenBefore
  /\ UNCHANGED <<files, current, trusted, view, cmd, failure, late, net>>

NotReadyYet ==
  /\ cmd = "wait"
  /\ PollRunning
  /\ ~ MissesTun /\ ~ late
  /\ saw' \in Seen
  /\ UNCHANGED <<files, current, trusted, view, cmd, failure, late, net>>

DeadlineFailure(seen) ==
  IF "ports" \notin seen THEN "PortOwnership"
  ELSE IF "tun" \notin seen THEN "TunDisabled"
  ELSE IF "snapshot" \notin seen THEN "ControllerUnavailable"
  ELSE "ApiMismatch"

GiveUp ==
  /\ cmd = "wait"
  /\ PollRunning
  /\ ~ MissesTun /\ late
  /\ saw' \in Seen
  /\ failure' = DeadlineFailure(saw')
  /\ cmd' = "stop"
  /\ UNCHANGED <<files, current, trusted, view, late, net>>

\* The snapshot reconciles.  The core may have gone since the turn's poll.
Ready ==
  /\ cmd = "wait"
  /\ MarkReady
  /\ "ports" \in net /\ "tun" \in SeenBefore
  /\ saw' = Observation
  /\ view' = "Connected" /\ cmd' = "idle"
  /\ UNCHANGED <<files, current, trusted, failure, late, net>>

\* The core binds its ports and sets up its TUN, or loses them.
NetworkChanges ==
  /\ cmd = "wait" /\ running
  /\ net' \in SUBSET {"ports", "tun"}
  /\ UNCHANGED <<supervisor, files, current, trusted, view, cmd, failure, saw, late>>

Deadline ==
  /\ cmd = "wait" /\ ~ late
  /\ late' = TRUE
  /\ UNCHANGED <<supervisor, files, current, trusted, view, cmd, failure, saw, net>>

StopAfterFailure ==
  /\ cmd = "stop"
  /\ \/ StopSucceeds /\ cmd' = "settle" /\ UNCHANGED failure
     \/ StopFails /\ Fail("Launch")
  /\ UNCHANGED <<files, current, trusted, view, saw, late, net>>

\* wait_for_owned_cleanup
Settle ==
  /\ cmd = "settle"
  /\ failure' \in {failure, "CleanupPending"}
  /\ cmd' = "failed"
  /\ UNCHANGED <<supervisor, files, current, trusted, view, saw, late, net>>

\* Mutant of CleanupAfterFailure: only the files are removed.
CleanupFilesOnly ==
  /\ cmd = "failed"
  /\ files' = Removed({"active", "probe"}, handle)
  /\ view' = failure /\ failure' = "none" /\ cmd' = "idle"
  /\ UNCHANGED <<supervisor, current, trusted, saw, late, net>>

\* cleanup_after_failure, then the failure's view.
CleanupAfterFailure ==
  /\ cmd = "failed"
  /\ StopOwned
  /\ files' = Removed({"active", "probe"}, handle')
  /\ view' = failure /\ failure' = "none" /\ cmd' = "idle"
  /\ UNCHANGED <<current, trusted, saw, late, net>>

----------------------------------------------------------------------------
(* disconnect, poll *)

Disconnect ==
  /\ cmd = "idle"
  /\ \/ StopSucceeds /\ view' = DisconnectedView
     \/ StopSucceeds /\ handle # "none" /\ view' = "CleanupPending"
     \/ StopFails /\ view' = "Launch"
  /\ files' = Removed({"active"}, handle')
  /\ UNCHANGED <<current, trusted, cmd, failure, saw, late, net>>

\* Mutants of PollNotices: the file stays; the view stays; only a failing
\* driver is noticed.
PollKeepsFile ==
  /\ cmd = "idle"
  /\ IsActive
  /\ PollStopped
  /\ view' = "Unexpected"
  /\ UNCHANGED <<files, current, trusted, cmd, failure, saw, late, net>>

PollKeepsView ==
  /\ cmd = "idle"
  /\ IsActive
  /\ PollStopped
  /\ files' = Removed({"active"}, handle')
  /\ UNCHANGED <<current, trusted, view, cmd, failure, saw, late, net>>

PollIgnoresExit ==
  /\ cmd = "idle"
  /\ IsActive
  /\ DriverFails /\ UNCHANGED running
  /\ view' = "Unexpected"
  /\ UNCHANGED <<files, current, trusted, cmd, failure, saw, late, net>>

\* A poll that finds the core running changes nothing.
PollNotices ==
  /\ cmd = "idle"
  /\ IsActive
  /\ PollStopped
  /\ files' = Removed({"active"}, handle')
  /\ view' = "Unexpected"
  /\ UNCHANGED <<current, trusted, cmd, failure, saw, late, net>>

----------------------------------------------------------------------------
(* import_config_files, delete_profile, update_selection *)

\* Mutant of BeginChange: RuntimeActive is not checked.
ChangeWhileActive ==
  /\ cmd = "idle"
  /\ trusted
  /\ current < MaxRevision
  /\ files' = [files EXCEPT !["candidate"] = current + 1]
  /\ cmd' = "candidate"
  /\ UNCHANGED <<supervisor, current, trusted, view, failure, saw, late, net>>

\* The candidate is written for Mihomo's static check.
BeginChange ==
  /\ cmd = "idle"
  /\ ~ IsActive
  /\ trusted
  /\ current < MaxRevision
  /\ files' = [files EXCEPT !["candidate"] = current + 1]
  /\ cmd' = "candidate"
  /\ UNCHANGED <<supervisor, current, trusted, view, failure, saw, late, net>>

ValidateCandidate ==
  /\ cmd = "candidate"
  /\ files' = Removed({"candidate"}, handle)
  /\ cmd' \in {"commit", "idle"}
  /\ UNCHANGED <<supervisor, current, trusted, view, failure, saw, late, net>>

\* Mutant of CommitChange: the runtime is not told (configuration_changed).
CommitKeepsView ==
  /\ cmd = "commit"
  /\ current' \in {current, current + 1}
  /\ cmd' = "idle"
  /\ UNCHANGED <<supervisor, files, trusted, view, failure, saw, late, net>>

\* The commit, then configuration_changed; it finds no active core.
CommitChange ==
  /\ cmd = "commit"
  /\ \/ current' = current + 1 /\ view' = DisconnectedView
     \/ UNCHANGED <<current, view>>
  /\ cmd' = "idle"
  /\ UNCHANGED <<supervisor, files, trusted, failure, saw, late, net>>

----------------------------------------------------------------------------
(* measure_node_delays; with an active core it only reads *)

BeginProbe ==
  /\ cmd = "idle" /\ current # 0
  /\ ~ IsActive
  /\ trusted
  /\ \/ files' = [files EXCEPT !["probe"] = current] /\ cmd' = "probe"
     \/ files' = [files EXCEPT !["probe"] = 0] /\ UNCHANGED cmd
  /\ UNCHANGED <<supervisor, current, trusted, view, failure, saw, late, net>>

StartProbe ==
  /\ cmd = "probe"
  /\ \/ Start("probe") /\ cmd' = "probing"
     \/ UNCHANGED supervisor /\ cmd' = "probed"
  /\ UNCHANGED <<files, current, trusted, view, failure, saw, late, net>>

\* Measured, timed out, or the core was lost.
FinishProbe ==
  /\ cmd = "probing"
  /\ UNCHANGED supervisor \/ PollStopped
  /\ cmd' = "probed"
  /\ UNCHANGED <<files, current, trusted, view, failure, saw, late, net>>

\* Mutant of EndProbe: the probe's file is not removed.
EndProbeKeepsFile ==
  /\ cmd = "probed"
  /\ StopOwned
  /\ cmd' = "idle"
  /\ UNCHANGED <<files, current, trusted, view, failure, saw, late, net>>

EndProbe ==
  /\ cmd = "probed"
  /\ StopOwned
  /\ files' = Removed({"probe"}, handle')
  /\ cmd' = "idle"
  /\ UNCHANGED <<current, trusted, view, failure, saw, late, net>>

----------------------------------------------------------------------------
(* The end and the start of the application *)

Crash ==
  /\ cmd # "down"
  /\ SupervisorLost
  /\ cmd' = "down" /\ failure' = "none"
  /\ UNCHANGED <<files, current, trusted, view, saw, late, net>>

\* Drop for LiveRuntime; a handle that stop_owned keeps goes after the files.
Quit ==
  /\ cmd = "idle"
  /\ \E h \in {"none", handle} :
        /\ h # "none" => faults < MaxFaults
        /\ files' = Removed({"active", "probe"}, h)
  /\ SupervisorLost
  /\ cmd' = "down"
  /\ UNCHANGED <<current, trusted, view, failure, saw, late, net>>

\* LiveRuntime::new, then refresh_runtime_contract_if_needed, which may commit
\* the state again under a new revision.
Startup ==
  /\ cmd = "down"
  /\ files' = [n \in FileName |-> 0]
  /\ trusted' \in BOOLEAN
  /\ view' = IF trusted' THEN "Disconnected" ELSE "NoCore"
  /\ cmd' = "idle"
  /\ \/ UNCHANGED current
     \/ trusted' /\ current \in 1 .. MaxRevision - 1 /\ current' = current + 1
  /\ UNCHANGED <<supervisor, failure, saw, late, net>>

CoreStops == CoreExits /\ UNCHANGED runtime

----------------------------------------------------------------------------
Connecting ==
  \/ WriteConfig \/ CheckLaunch \/ StartCore
  \/ CoreLost \/ TunMissing \/ NotReadyYet \/ GiveUp
  \/ StopAfterFailure \/ Settle \/ CleanupAfterFailure

\* The command in progress takes its next step.
Proceed ==
  \/ Connecting
  \/ ValidateCandidate \/ CommitChange
  \/ StartProbe \/ FinishProbe \/ EndProbe

Next ==
  \/ BeginConnect \/ Disconnect \/ PollNotices \/ BeginChange \/ BeginProbe
  \/ Proceed \/ Ready
  \/ Deadline \/ NetworkChanges \/ CoreStops
  \/ Crash \/ Quit \/ Startup

Spec == Init /\ [][Next]_vars

\* A command that runs goes on running, whether or not the controller ever
\* answers as expected (Ready); time passes, and the user interface polls every
\* 1.5 seconds while its window is visible and no command runs.
FairSpec == Spec /\ WF_vars(Proceed) /\ WF_vars(Deadline) /\ WF_vars(PollNotices)
----------------------------------------------------------------------------
(* Properties *)

TypeOK ==
  /\ SupervisorTypeOK
  /\ files \in [FileName -> 0 .. MaxRevision]
  /\ current \in 0 .. MaxRevision
  /\ trusted \in BOOLEAN
  /\ view \in View
  /\ cmd \in Step \cup {"idle", "down"}
  /\ failure \in ConnectFailure \cup {"none"}
  /\ saw \subseteq Observation
  /\ late \in BOOLEAN
  /\ net \subseteq {"ports", "tun"}
  /\ cmd \in ChangeStep => current < MaxRevision

\* The core of a live session runs the store's current revision, from a file
\* that is still there.  disconnect and measure_delays rely on it when they take
\* ports and controller credentials from load_current instead of remembering
\* what was started (live_runtime.rs:351, :411); a stop that fails, a poll that
\* errs and a configuration change in between must not break it.
CoreRunsCurrentRevision == handle = "live" => files["active"] = current

\* Between commands the interface says "connected" only of an owned live
\* session that was verified, and, when no driver call failed, of every session
\* there is: it never offers Connect beside a core it owns.
ViewMatchesCore ==
  cmd = "idle" =>
    /\ view = "Connected" => state = "ManualVerificationRequired" /\ handle = "live"
    /\ faults = 0 /\ IsActive => view = "Connected" /\ ~ CanConnect

\* Between commands, and however earlier runs of the application ended, no
\* active profile and no candidate with plain secrets is left on disk without a
\* session; a probe profile may be, after a stop that failed (EndProbe keeps it,
\* Disconnect and PollNotices do not remove it).
SecretsLeaveWithSession ==
  (cmd = "idle" /\ ~ IsActive) =>
    /\ files["active"] = 0 /\ files["candidate"] = 0
    /\ faults = 0 => files["probe"] = 0

\* Whatever step a connect failed in, it leaves a supervisor that can start
\* again, no session and no file behind, unless a driver call failed.
FailedConnectLeavesNothing ==
  (cmd = "idle" /\ view \in ConnectFailure /\ faults = 0) =>
    /\ CanStart
    /\ files["active"] = 0 /\ files["probe"] = 0

\* The core owns its ports and the TUN was never seen up.
WaitsForTun == cmd = "wait" /\ "ports" \in saw /\ "tun" \notin saw

\* Every command ends, with one exception: wait_for_controller may wait for a
\* TUN forever.
OnlyTunHangs == []<>(cmd \in {"idle", "down"}) \/ <>[]WaitsForTun

\* The interface stops saying "connected" after the core is gone.
CoreLossIsNoticed == (view = "Connected" /\ ~ running) ~> (view # "Connected" \/ cmd = "down")

----------------------------------------------------------------------------
(* What the sources say and the code does not do *)

\* CONTROLLER_READY_TIMEOUT bounds the wait, so every command ends, at least when
\* the network comes to rest (live_runtime.rs:46, :906-917; the message for a TUN
\* that could not be created at :508).
CommandsReturn ==
  <>[][net' = net]_vars => ((cmd \in Step) ~> (cmd \in {"idle", "down"}))

\* After the core was lost the interface says that one can retry
\* (live_runtime.rs:387): a connect that passed its checks may start the core.
RetryCanStart == cmd = "start" => CanStart

\* The view of a failed launch says that no connection was kept
\* (live_runtime.rs:475).
LaunchFailureKeepsNothing ==
  (cmd = "idle" /\ view = "Launch") => ~ (handle = "live" /\ running)

----------------------------------------------------------------------------
(* The inductive invariants behind the safety properties *)

\* There is a handle exactly while the runtime is active, and the steps of a
\* command that prepare the next session have none.
HandleWhileActive ==
  /\ handle # "none" <=> IsActive
  /\ running => handle # "none"
  /\ state = "ManualVerificationRequired" => handle = "live"
  /\ cmd \in {"write", "check", "start", "settle", "candidate", "commit", "probe", "down"} =>
        ~ IsActive
  /\ cmd = "wait" => handle = "live"
  /\ cmd = "probing" => handle = "probe"
  /\ cmd = "probed" => handle # "live"

\* The active profile a connect has written is the current one until it starts.
WrittenIsCurrent == cmd \in {"check", "start"} => files["active"] = current

\* A connect that is about to fail knows why.
FailureIsKnown == cmd \in {"stop", "settle", "failed"} => failure # "none"

\* What CoreRunsCurrentRevision needs to be preserved by every step of a command,
\* of the core and of the application (is_active, connect_inner, stop_owned).
RuntimeInvariant ==
  /\ TypeOK
  /\ HandleWhileActive
  /\ WrittenIsCurrent
  /\ FailureIsKnown
  /\ CoreRunsCurrentRevision

\* Which step may find which file.
FilesFollowCommand ==
  /\ files["candidate"] # 0 => cmd \in {"candidate", "down"}
  /\ files["active"] # 0 =>
        handle = "live" \/ cmd \in ConnectStep \cup {"down"}
  /\ faults = 0 /\ files["probe"] # 0 => cmd \in ProbeStep \cup {"down"}

\* Which step may find which session, and what the view says of it.
SessionFollowsCommand ==
  /\ view = "Connected" => state = "ManualVerificationRequired" \/ cmd = "down"
  /\ cmd \in ConnectStep => view = "Starting"
  /\ faults = 0 =>
        /\ handle = "probe" => cmd \in {"probing", "probed"}
        /\ handle = "live" =>
              \/ cmd \in {"wait", "stop"}
              \/ cmd = "idle" /\ view = "Connected" /\ state = "ManualVerificationRequired"
        /\ view \in ConnectFailure /\ cmd # "down" =>
              state = "Stopped" \/ cmd \in {"probing", "probed"}

\* What ties files, sessions and views to the step of the command, for
\* ViewMatchesCore, SecretsLeaveWithSession and FailedConnectLeavesNothing
\* (connect, disconnect, poll, measure_disconnected_delays).
SessionInvariant == FilesFollowCommand /\ SessionFollowsCommand
============================================================================
