-------------------------- MODULE CoreSupervisor --------------------------
(***************************************************************************)
(* CoreSupervisor of crates/hk-proton-manager/src/process.rs with the      *)
(* driver of windows_process.rs: the one Mihomo process the application    *)
(* owns, the handle to it, and the runtime state.  The operators below are *)
(* parts of the actions of whoever drives the supervisor (LiveRuntime).    *)
(*                                                                         *)
(* The process may exit at any time.  The three system calls behind the    *)
(* driver (query, kill and wait) may fail; then the handle is kept.  A     *)
(* handle that is dropped ends its process: the process belongs to a       *)
(* kill-on-close job.                                                      *)
(***************************************************************************)
EXTENDS Naturals

CONSTANT MaxFaults  \* bound: how many driver calls may fail

ASSUME SupervisorAssumption == MaxFaults \in Nat

VARIABLES
  state,    \* CoreSupervisor.state
  handle,   \* the session CoreSupervisor.handle belongs to, or "none"
  running,  \* the process of the handle is still there
  faults    \* driver calls that failed so far

supervisor == <<state, handle, running, faults>>

RuntimeState ==
  {"Stopped", "Starting", "ManualVerificationRequired", "Failed"}

\* A live session (TUN and routes) or a probe session (loopback only).
Session == {"live", "probe"}

SupervisorTypeOK ==
  /\ state \in RuntimeState
  /\ handle \in Session \cup {"none"}
  /\ running \in BOOLEAN
  /\ faults \in 0 .. MaxFaults

SupervisorInit ==
  /\ state = "Stopped"
  /\ handle = "none"
  /\ running = FALSE
  /\ faults = 0

----------------------------------------------------------------------------
CanStart == state = "Stopped" /\ handle = "none"

\* start, after spawn succeeded
Start(session) ==
  /\ CanStart
  /\ state' = "Starting"
  /\ handle' = session
  /\ running' = TRUE
  /\ UNCHANGED faults

\* mark_api_ready, mark_config_reconciled and require_manual_verification,
\* called one after the other with nothing in between.
MarkReady ==
  /\ state = "Starting" /\ handle # "none"
  /\ state' = "ManualVerificationRequired"
  /\ UNCHANGED <<handle, running, faults>>

DriverFails ==
  /\ handle # "none"
  /\ faults < MaxFaults
  /\ faults' = faults + 1
  /\ UNCHANGED <<state, handle>>

\* poll with a handle: the process is there, or it has exited and the handle
\* is released, or try_wait fails.
PollRunning == handle # "none" /\ running /\ UNCHANGED supervisor

PollExited ==
  /\ handle # "none" /\ ~ running
  /\ state' = "Failed"
  /\ handle' = "none"
  /\ UNCHANGED <<running, faults>>

PollStopped == PollExited \/ (DriverFails /\ UNCHANGED running)

\* Mutant of StopFails: the session counts as stopped and the handle is kept.
StopFailsSilently ==
  /\ handle # "none"
  /\ faults < MaxFaults
  /\ faults' = faults + 1
  /\ state' = "Stopped"
  /\ UNCHANGED <<handle, running>>

StopSucceeds ==
  /\ state' = "Stopped"
  /\ handle' = "none"
  /\ running' = FALSE
  /\ UNCHANGED faults

\* Query and kill fail on a process that stays, wait fails on one that goes.
StopFails == DriverFails /\ running' \in {running, FALSE}

StopOwned == StopSucceeds \/ StopFails

\* The process exits on its own.
CoreExits ==
  /\ running
  /\ running' = FALSE
  /\ UNCHANGED <<state, handle, faults>>

\* The application's process ends, and its jobs with it; the next one starts
\* with a new supervisor.
SupervisorLost ==
  /\ state' = "Stopped"
  /\ handle' = "none"
  /\ running' = FALSE
  /\ UNCHANGED faults
============================================================================
