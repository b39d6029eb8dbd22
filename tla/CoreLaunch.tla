----------------------------- MODULE CoreLaunch -----------------------------
(***************************************************************************)
(* How a document becomes a running Mihomo: the files it is read from, the *)
(* launch plans and authorizations of process.rs, and the processes of     *)
(* windows_process.rs, for the three things live_runtime.rs starts Mihomo  *)
(* for: to check a candidate, to connect, and to measure delays.           *)
(*                                                                         *)
(* The program and the configuration lie on the disk, where other software *)
(* may replace or remove them (a restored backup, a cleaner, a scanner     *)
(* that puts a file into quarantine) unless they are held open without     *)
(* sharing.  They are read again and again on the way: hashed, parsed, and *)
(* at last read by Mihomo.  Each of these is a step of its own.            *)
(*                                                                         *)
(* The handle of CoreSupervisor holds the files of its process.  What      *)
(* LaunchGate and LiveRuntime model is only a choice here: the verdict     *)
(* about the network, the controller's answers, the view.                  *)
(***************************************************************************)
EXTENDS CoreSupervisor

CONSTANTS
  MaxDocument,  \* bound: configurations that commands render
  Sound,        \* the documents that Mihomo's own check accepts
  MaxChanges    \* bound: files that other software replaces or removes

\* A document: the configuration it was rendered from, and whether it has the
\* TUN enabled (NetworkEffectProjection).  Its digest tells it from all others.
Document == [of : 1 .. MaxDocument, tun : BOOLEAN]

ASSUME LaunchAssumption ==
  /\ MaxDocument \in Nat
  /\ Sound \subseteq Document
  /\ MaxChanges \in Nat

VARIABLES
  program,  \* the executable on the disk
  config,   \* the configuration files on the disk
  stored,   \* the document of the current revision
  trusted,  \* trusted_core is there
  job,      \* the check or launch in progress
  holding,  \* the job holds the executable and its configuration file
  process,  \* the Mihomo process the job has created and not handed on
  core,     \* the process of the supervisor's handle
  stray,    \* a process is left that no job object ends
  changes   \* files that other software changed so far

files == <<program, config, changes>>
launch == <<stored, trusted, job, holding, process, core, stray>>
vars == <<supervisor, files, launch>>

Program == {"pinned", "other", "none"}

\* No file, or one that is no document.
NoDocument == [of |-> 0, tun |-> FALSE]
Contents == Document \cup {NoDocument}

Probe(d) == [of |-> d.of, tun |-> FALSE]

\* Each kind of job has a configuration file of its own.
Kind == Session \cup {"candidate"}

\* A process has read no document yet when it starts.
NoProcess == [program |-> "none", document |-> NoDocument, assigned |-> FALSE]

\* What validate_integrity reads, in this order.
Part == {"program", "digest", "projection"}

\* Where it is called: static_validation (unprotected) and run_static_validation,
\* CoreLaunchSpec::live or ::probe and CoreSupervisor::start (unprotected), and
\* WindowsMihomoDriver::spawn.
Inspection == {"static", "static held", "spec", "start", "spawn"}

At ==
  Inspection \cup {"down", "idle", "write", "hold", "create", "assign", "checking",
                   "approve", "hold core", "create core", "assign core", "use",
                   "accepted", "end"}

Idle == [kind |-> "candidate", at |-> "idle", part |-> "program",
         document |-> NoDocument, authorized |-> FALSE]

Active == state \notin {"Stopped", "Failed"}

\* Mutant of HeldConfig: the guards end with the call that created the process.
HeldUntilAdopted(k) == holding /\ job.kind = k

HeldConfig(k) == (holding /\ job.kind = k) \/ handle = k
HeldProgram == holding \/ handle # "none"

LaunchTypeOK ==
  /\ SupervisorTypeOK
  /\ program \in Program
  /\ config \in [Kind -> Contents]
  /\ stored \in Contents
  /\ trusted \in BOOLEAN
  /\ job \in [kind : Kind, at : At, part : Part, document : Contents, authorized : BOOLEAN]
  /\ holding \in BOOLEAN
  /\ process \in [program : Program, document : Contents, assigned : BOOLEAN]
  /\ core \in [program : Program, document : Contents, assigned : BOOLEAN]
  /\ stray \in BOOLEAN
  /\ changes \in 0 .. MaxChanges

Init ==
  /\ SupervisorInit
  /\ program \in Program
  /\ config \in [Kind -> {NoDocument}]
  /\ stored = NoDocument
  /\ trusted = FALSE
  /\ job = [Idle EXCEPT !.at = "down"]
  /\ holding = FALSE
  /\ process = NoProcess
  /\ core = NoProcess
  /\ stray = FALSE
  /\ changes = 0

----------------------------------------------------------------------------
(* The files of a job *)

\* LiveRuntime::new with materialize_embedded_mihomo; AppService::open may then
\* store a document of its own (refresh_runtime_contract_if_needed).
Startup ==
  /\ job.at = "down"
  /\ config' = [k \in Kind |-> NoDocument]
  /\ \/ program' = "pinned" /\ trusted' = TRUE
     \/ program' \in Program /\ trusted' = FALSE
  /\ stored' \in {stored} \cup
       {d \in Document : d.tun /\ stored # NoDocument}
  /\ job' = Idle
  /\ UNCHANGED <<supervisor, holding, process, core, stray, changes>>

\* validate_candidate, connect_inner and measure_disconnected_delays, up to
\* where they write their file.  A connect that is refused cleans up like one
\* that fails.
Begin(kind, d) ==
  /\ job.at = "idle"
  /\ \/ kind = "candidate" /\ d.tun /\ ~ Active /\ trusted
     \/ kind = "probe" /\ stored # NoDocument /\ d = Probe(stored) /\ ~ Active /\ trusted
     \/ kind = "live" /\ d = stored /\ state # "ManualVerificationRequired"
  /\ job' = [Idle EXCEPT !.kind = kind, !.document = d,
                         !.at = IF Active \/ ~ trusted THEN "end" ELSE "write"]
  /\ UNCHANGED <<supervisor, files, stored, trusted, holding, process, core, stray>>

To(at) == job' = [job EXCEPT !.at = at, !.part = "program"]

\* write_runtime_config, which may fail before, while and after it writes.  Only
\* connect cleans up after a file it could not write.
WriteFile ==
  /\ job.at = "write"
  /\ \/ /\ ~ HeldConfig(job.kind)
        /\ config' = [config EXCEPT ![job.kind] = job.document]
        /\ To("static")
     \/ /\ \/ UNCHANGED config
           \/ /\ ~ HeldConfig(job.kind)
              /\ \E d \in {NoDocument, job.document} : config' = [config EXCEPT ![job.kind] = d]
        /\ \/ job.kind = "live" /\ To("end")
           \/ job.kind # "live" /\ job' = Idle
  /\ UNCHANGED <<supervisor, program, changes, stored, trusted, holding, process, core, stray>>

\* remove_runtime_config for some files, under the guards of the handle h: each
\* one may fail to go.
Removed(names, h) ==
  {[k \in Kind |-> IF k \in gone THEN NoDocument ELSE config[k]] :
     gone \in SUBSET (names \ {h})}

----------------------------------------------------------------------------
(* Inspections *)

\* What one part of validate_integrity finds, against what the plan (the
\* candidate) says, and for a launch what was authorized.
Found ==
  CASE job.part = "program" -> program = "pinned"
    [] job.part = "digest" -> config[job.kind] = job.document
    [] job.part = "projection" ->
         /\ config[job.kind] # NoDocument
         /\ config[job.kind].tun = job.document.tun
         /\ job.at \in {"spec", "start", "spawn"} =>
              /\ job.authorized = config[job.kind].tun
              /\ job.kind = "probe" => ~ config[job.kind].tun

\* Mutant of Following: the launch is not inspected again under its guards.
FollowingUnheld(at) ==
  CASE at = "static" -> "hold"
    [] at = "static held" -> "create"
    [] at = "spec" -> "start"
    [] at = "start" -> "hold core"
    [] at = "spawn" -> "create core"
    [] at = "hold" -> "static held"
    [] at = "hold core" -> "create core"

Following(at) ==
  CASE at = "static" -> "hold"
    [] at = "static held" -> "create"
    [] at = "spec" -> "start"
    [] at = "start" -> "hold core"
    [] at = "spawn" -> "create core"
    [] at = "hold" -> "static held"
    [] at = "hold core" -> "spawn"

Inspect ==
  /\ job.at \in Inspection
  /\ job.at = "start" => CanStart
  /\ Found
  /\ job' = CASE job.part = "program" -> [job EXCEPT !.part = "digest"]
              [] job.part = "digest" -> [job EXCEPT !.part = "projection"]
              [] job.part = "projection" ->
                   [job EXCEPT !.at = Following(job.at), !.part = "program"]
  /\ UNCHANGED <<supervisor, files, stored, trusted, holding, process, core, stray>>

\* open_immutable_guard for the executable and for the configuration
Hold ==
  /\ job.at \in {"hold", "hold core"}
  /\ program # "none" /\ config[job.kind] # NoDocument
  /\ holding' = TRUE
  /\ To(Following(job.at))
  /\ UNCHANGED <<supervisor, files, stored, trusted, process, core, stray>>

\* A step of the job is refused or fails: something read is not what was
\* expected, the network is in the way, the process cannot be created or
\* assigned, it does not answer in time.  A process the job has is killed and
\* waited for before its files are let go; only when asking after that of a check
\* fails (try_wait, windows_process.rs:218) it is neither killed nor waited for:
\* closing its job object ends it, just before the files are let go.
Refuse ==
  /\ job.at \in At \ {"down", "idle", "write", "use", "accepted", "end"}
  /\ To("end")
  /\ process' = NoProcess
  /\ holding' = FALSE
  /\ UNCHANGED <<supervisor, files, stored, trusted, core, stray>>

----------------------------------------------------------------------------
(* Mihomo processes *)

\* Command::spawn
Create ==
  /\ job.at \in {"create", "create core"}
  /\ process' = [program |-> program, document |-> NoDocument, assigned |-> FALSE]
  /\ To(IF job.at = "create" THEN "assign" ELSE "assign core")
  /\ UNCHANGED <<supervisor, files, stored, trusted, holding, core, stray>>

\* OwnedJob::assign for the check
Assign ==
  /\ job.at = "assign"
  /\ process' = [process EXCEPT !.assigned = TRUE]
  /\ To("checking")
  /\ UNCHANGED <<supervisor, files, stored, trusted, holding, core, stray>>

\* Mihomo reads its configuration some time after it was created.
Read ==
  \/ /\ process # NoProcess /\ process.document = NoDocument
     /\ process' = [process EXCEPT !.document = config[job.kind]]
     /\ UNCHANGED <<supervisor, files, stored, trusted, job, holding, core, stray>>
  \/ /\ running /\ core.document = NoDocument
     /\ core' = [core EXCEPT !.document = config[handle]]
     /\ UNCHANGED <<supervisor, files, stored, trusted, job, holding, process, stray>>

\* The check exits with 0.  Only the pinned program's verdict is known.
CheckPasses ==
  /\ job.at = "checking"
  /\ process.document # NoDocument
  /\ process.program = "pinned" => process.document \in Sound
  /\ process' = NoProcess
  /\ holding' = FALSE
  /\ To(IF job.kind = "candidate" THEN "accepted" ELSE "approve")
  /\ UNCHANGED <<supervisor, files, stored, trusted, core, stray>>

\* capture_preflight with LivePreflightApproval::from_snapshot and the
\* authorization, or ProbeLaunchAuthorization::from_snapshot.
Approve ==
  /\ job.at = "approve"
  /\ job.kind = "probe" => ~ job.document.tun
  /\ job' = [job EXCEPT !.at = "spec", !.authorized = job.document.tun]
  /\ UNCHANGED <<supervisor, files, stored, trusted, holding, process, core, stray>>

\* OwnedJob::assign for a launch: the supervisor takes the process over, and
\* its guards with it.
Adopt ==
  /\ job.at = "assign core"
  /\ Start(job.kind)
  /\ core' = [process EXCEPT !.assigned = TRUE]
  /\ process' = NoProcess
  /\ holding' = FALSE
  /\ To("use")
  /\ UNCHANGED <<files, stored, trusted, stray>>

----------------------------------------------------------------------------
(* The end of a job, and what else commands do *)

\* wait_for_controller or wait_for_probe_controller is done; a connect that
\* succeeds is over.
Use ==
  /\ job.at = "use"
  /\ \/ job.kind = "live" /\ MarkReady /\ job' = Idle
     \/ (UNCHANGED supervisor \/ PollStopped) /\ To("end")
  /\ UNCHANGED <<files, stored, trusted, holding, process, core, stray>>

\* The owner's own record of the process that is gone.
Forget == core' = IF handle' = "none" THEN NoProcess ELSE core

\* cleanup_after_failure, and the last lines of the other two
End ==
  /\ job.at = "end"
  /\ IF job.kind = "candidate" THEN UNCHANGED supervisor ELSE StopOwned
  /\ config' \in Removed(IF job.kind = "live" THEN {"live", "probe"} ELSE {job.kind}, handle')
  /\ job' = Idle
  /\ Forget
  /\ UNCHANGED <<program, changes, stored, trusted, holding, process, stray>>

\* The candidate's file goes, and build_candidate's caller stores the document.
Accept ==
  /\ job.at = "accepted"
  /\ config' \in Removed({"candidate"}, handle)
  /\ stored' \in {stored, job.document}
  /\ stored' = job.document => config'["candidate"] = NoDocument
  /\ job' = Idle
  /\ UNCHANGED <<supervisor, program, changes, trusted, holding, process, core, stray>>

\* LiveRuntime::disconnect
Disconnect ==
  /\ job.at = "idle"
  /\ StopOwned
  /\ config' \in Removed({"live"}, handle')
  /\ Forget
  /\ UNCHANGED <<program, changes, stored, trusted, job, holding, process, stray>>

\* LiveRuntime::poll that does not find its core
Poll ==
  /\ job.at = "idle" /\ Active
  /\ PollStopped
  /\ config' \in Removed({"live"}, handle')
  /\ Forget
  /\ UNCHANGED <<program, changes, stored, trusted, job, holding, process, stray>>

Exit ==
  /\ CoreExits
  /\ UNCHANGED <<files, launch>>

\* Other software replaces or removes a file.
Change ==
  /\ changes < MaxChanges
  /\ changes' = changes + 1
  /\ \/ ~ HeldProgram /\ program' \in Program \ {program} /\ UNCHANGED config
     \/ /\ \E k \in Kind, d \in Contents :
             ~ HeldConfig(k) /\ config[k] # d /\ config' = [config EXCEPT ![k] = d]
        /\ UNCHANGED program
  /\ UNCHANGED <<supervisor, launch>>

\* The application ends, and with it the processes in its job objects.
Crash ==
  /\ job.at # "down"
  /\ SupervisorLost
  /\ stray' = (stray \/ (process # NoProcess /\ ~ process.assigned))
  /\ process' = NoProcess
  /\ core' = NoProcess
  /\ holding' = FALSE
  /\ job' = [Idle EXCEPT !.at = "down"]
  /\ UNCHANGED <<files, stored, trusted>>

Next ==
  \/ Startup
  \/ \E kind \in Kind, d \in Document : Begin(kind, d)
  \/ WriteFile \/ Inspect \/ Hold \/ Refuse
  \/ Create \/ Assign \/ Read \/ CheckPasses \/ Approve \/ Adopt
  \/ Use \/ End \/ Accept \/ Disconnect \/ Poll \/ Exit \/ Change \/ Crash

Spec == Init /\ [][Next]_vars
----------------------------------------------------------------------------
(* Properties *)

\* Where a job may be when its files are held, when it has a process, and when
\* its document has passed Mihomo's check.
Holding ==
  {"static held", "create", "assign", "checking", "spawn", "create core", "assign core"}
Spawned == {"assign", "checking", "assign core"}
Launching == {"approve", "spec", "start", "hold core", "spawn", "create core", "assign core"}

\* What a session is to run.
Ordered(session) == IF session = "live" THEN stored ELSE Probe(stored)

\* There is a handle exactly while the runtime is active, and a process of it
\* only then.
HandleWhileActive == (Active <=> handle # "none") /\ (running => handle # "none")

\* No check and no launch goes on beside a session.
NoJobBesideSession ==
  /\ handle # "none" => job.at \in {"idle", "use", "end"}
  /\ job.at = "use" => handle \in {"none", job.kind}

HeldWhileNeeded == (holding <=> job.at \in Holding) /\ (process # NoProcess <=> job.at \in Spawned)

\* The document of a job is the one its command is about.
JobIsOrdered ==
  job.at \notin {"down", "idle", "use", "end"} =>
    /\ job.document \in Document
    /\ job.kind = "candidate" => job.document.tun
    /\ job.kind # "candidate" => job.document = Ordered(job.kind)

\* Nothing is launched that Mihomo's own check did not accept.
CheckedBeforeLaunch ==
  /\ job.at \in Launching => job.kind # "candidate" /\ job.document \in Sound
  /\ job.at = "accepted" => job.kind = "candidate"
  /\ stored # NoDocument => stored.tun

\* What an inspection has found stays true while the files are held.
FoundStaysTrue ==
  job.at \in Holding =>
    /\ job.at \notin Inspection \/ job.part # "program" => program = "pinned"
    /\ job.at \notin Inspection \/ job.part = "projection" => config[job.kind] = job.document

\* Together with the two properties below, an inductive invariant.
LaunchInvariant ==
  /\ HandleWhileActive /\ NoJobBesideSession /\ HeldWhileNeeded
  /\ JobIsOrdered /\ CheckedBeforeLaunch /\ FoundStaysTrue

\* Whatever other software does to the files on the way, a Mihomo process is the
\* pinned program and has read exactly the document it was created for: a check
\* is about the document that is stored or launched afterwards, and a session
\* runs the document of the current revision after Mihomo's own check accepted
\* these very bytes, with a TUN only when the user connected.
CoreRunsWhatWasChecked ==
  /\ process # NoProcess =>
       /\ process.program = "pinned"
       /\ process.document \in {NoDocument, job.document}
  /\ handle # "none" =>
       /\ core.program = "pinned"
       /\ Ordered(handle) \in Sound
       /\ core.document \in {NoDocument, Ordered(handle)}
       /\ Ordered(handle).tun <=> handle = "live"

\* The files a Mihomo process was created from stay on the disk as they are for
\* as long as the process may run, through failed stops and late exits, until
\* the application has ended it or is gone itself.
FilesOutliveProcesses ==
  /\ process # NoProcess => program = "pinned" /\ config[job.kind] = job.document
  /\ handle # "none" => program = "pinned" /\ config[handle] = Ordered(handle)
============================================================================
