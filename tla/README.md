# slpyW2W: verification models

TLA+ models of slpyW2W, a Windows desktop client that imports VLESS and
WireGuard profiles, renders them into one Mihomo configuration, keeps them in a
crash-safe encrypted store, and owns the Mihomo process that carries the traffic.
The modules are checked with TLC on small instances; the safety properties that
matter most are proved with TLAPS for every value of the constants.

    tlc -config StateStore_race.cfg MCStateStore     # one run of PROJECT.json
    tlapm StateStoreProofs.tla                       # the proofs of one module

## 1. The system

| Component | Source | State it keeps | Operations |
|---|---|---|---|
| Generation store | `hk-proton-manager/src/store.rs` | `generations/<n>`, two head slots each for `current` and `last-known-good`, `secrets/*.dpapi`, `store.lock`, vault metadata and key | `open`, `commit`, `load_current`, `load_generation`, `load_runtime_yaml`, `rollback`, `mark_last_known_good` |
| Core supervisor, process driver | `process.rs`, `windows_process.rs` | runtime state, process handle with job object and file guards | `start`, `poll`, `mark_*`, `require_manual_verification`, `stop_owned`; static checks, plans, authorizations, `spawn` |
| Launch gate | `conflict.rs`, `windows_snapshot.rs`, `live_runtime.rs` 709-1109, `process.rs` 60-189 | none that outlives a connect | snapshot, `evaluate_conflicts`, approvals, own TUN's readiness |
| API reconciliation | `api.rs` | none | `reconcile` |
| Live runtime | `live_runtime.rs`, `runtime.rs` | supervisor, three plain configuration files, trusted core, view | `new`, `connect`, `disconnect`, `poll`, `validate_candidate`, `configuration_changed`, `measure_delays`, `Drop` |
| Application service | `service.rs`, `commands.rs`, `dto.rs`, `error.rs` | the store and the runtime behind one mutex | eight commands |
| Application state | `state.rs` | profiles with their version records and secret references, selections, mode | `validate`, `materialize`, `GenerationCandidate::validated` |
| User interface | `useAppController.js`, `App.jsx`, `appBridge.js` | the status on the screen, the operation in progress, poll and speed test flags | clicks, poll timer, first load |
| Desktop shell | `lib.rs`, `update.rs` | single instance, update check | start, exit, update |
| Profiles to configuration | `hk-proton-core/src/*` | none | parse, render, validate |
| Configuration file scanner | `scanner.rs` | none | reads the files the user selected |
| Private directory, DPAPI | `windows_path.rs`, `dpapi.rs` | files | atomic replace, remove, encrypt |

How they interact. The interface sends asynchronous Tauri commands; several may
be under way. `run_service_command` takes one mutex, so the service executes one
command at a time. A command reads the store's current revision, asks the runtime
to validate the candidate (a configuration file and Mihomo's own static check),
commits it with the revision it had read as expectation, and tells the runtime.
The runtime drives the supervisor, the supervisor owns the process. Two actors
are outside that mutex: the Mihomo process, which may exit at any time, other
software that may replace the files Mihomo is started from, and other processes
that have the same store open (a second installation, a tool, the
integration tests), which exclude each other with a non-blocking file lock held
for one store call only.

What is hard. Races of whole store calls between processes; a crash between any
two renames; damaged files; a `stop` or `poll` whose system call fails; the core
exiting between any two steps of a connect; plain configuration files that must
not outlive their session; answers that reach the interface in another order than
their calls; optimistic statuses; sequences of imports and deletions that must not
leave a state the validation refuses, or a profile that cannot be rendered; a
configuration that is hashed, parsed and read by Mihomo at different moments; a
document written by an older release. `hazards` in `PROJECT.json` names each at
its line, with the property that covers it.

What makes each component correct:

* vault: one key for everything that was ever signed, an interrupted
  initialisation can be finished or repeated;
* launch gate: no approval beside another tunnel, no refusal without a reason,
  readiness only of a TUN that captures everything it should;
* store: no lost update, immutable generations, a head that always names a
  complete generation, one damaged file survived, retries accepted;
* supervisor and runtime: one session at most, the core always runs the store's
  current revision, no plain secrets on disk without a session, a failed connect
  leaves nothing, every command returns, a lost core is noticed, the view does
  not lie;
* service and state: the selection always exists, accepted requests always
  validate and render, only the user changes the route;
* configuration: traffic takes the selected hops and nothing goes past them, what
  one command stored another one accepts, a core with another document is
  recognised;
* launch: what runs is what was checked, from files that stay while it runs;
* interface: what stays on the screen was saved, it catches up with the service,
  and every operation gives the buttons back.

## 2. The modules

### VersionedDocument: what the store promises

One document with a line of contents, extended by optimistic commits. `Commit`
extends exactly the line its author had loaded; `Restart` loses what an author
knew; `Fault` cuts the line back to an earlier non-empty point or makes the
document `Lost`.

### StateStore: how it keeps the promise

State: `slot[name][i]` (a head file: epoch and revision), `gen[r]` (the published
generation: content, needed and supplied secrets, parent), `rotten` (generations
the medium damaged), `vault[s]` (secret files), `lock`, and per client `pc`,
`base` (the revision it loaded or committed last) and `call` (locals).

One visible change of the directory tree is one step, since a process may die
between two of them:

| Code | Actions |
|---|---|
| `commit` 189-247 | `BeginCommit` (lock, compare with the head, next revision, secret checks), `PublishSecret` per file, `VerifySecrets`, `PublishGeneration` (rename), `CommitHead` or `CommitHeadFails` |
| `rollback` 308-324 | `BeginRollback`, `WalkParent` per generation, `LoadTarget`, `LoadTargetYaml`, then `CommitRollback` or `RollbackRefused`: separately locked calls |
| `mark_last_known_good`, `load_current` | `MarkLastKnownGood`, `LoadCurrent` |
| process death, damage | `Crash`, `DamageSlot`, `DamageGeneration`, `DamageSecret` |

Reading a head is `ValidSlots`/`HeadReadable`/`HeadRevision`; writing one is
`TargetSlot`/`NextEpoch`/`WriteHead`. A head slot, a manifest and a state file
carry HMACs and hashes: all checks together are the question whether the bytes
are those that were written. What is written below `.staging` is read by nobody
before its rename and is not a step. Revision 0 is `None`. `MaxU64` is the end of
`u64`: the code's `checked_add` fails there, and so do the guards.

`StateStoreRefinement` maps the store to the document (the line is the chain of
contents from the first generation to the one `read_head` finds) and
`MCStateStore` holds the candidates TLC commits.

### VaultBootstrap: before the first commit

`vaultMeta`, `key`, `pending` and `meta` are the files `vault.meta`,
`vault-auth-key.dpapi`, `.store.meta.pending` and `store.meta`. Each process goes
through `open_current_user` (`LookForVault`, `CheckRoot`, `FoundVault`,
`NameVault`, `IdentifyVault`), takes the lock (`EnterStore`) and runs
`load_or_initialize_auth_key`: `LoadMeta`, `FinishPending`, `DiscardPending`,
`DiscardKey`, then `CreateKey` to `PublishMeta`. `write_new_synced` is two steps,
since a process may die between `create_new` and the data; renames are one.
`data` is the set of keys that signed what the three directories contain: empty
means empty directories. A `Commit` is one step (StateStore has its steps).
`Abort` is the death of a process, or an error, in the middle; `Fault` loses or
damages a file, as the repository's tests do.

### AddressRanges and LaunchGate

`AddressRanges` has the range arithmetic as operators over sets of ranges, taken
in sorted order: `Normalized`, `Coverage`, `Subtract`, `Covers`.

`LaunchGate` has the tables of the operating system (`life` of adapters, `routes`,
`bound` listeners) that other software changes (`Change`), the twelve reads of
`capture_preflight` (`ReadFirst`, `ReadSecond`; `Read` takes the next table:
interfaces, routes, and the listeners of TCP and UDP over IPv4 and IPv6, each a
system call of its own) and their evaluation (`Evaluate`, `CanStart`). An adapter
that is down may keep its routes, as the TAP of `tests/conflict_policy.rs:30` does;
one that is gone has none. After `LaunchCore` the own adapter comes, goes and gets
its routes (`TunChanges`), and each look at it reads the interfaces (`LookAtTun`) and
then the routes (`EndLook`, with `OwnedTunReady`). A route is a range of addresses;
the configuration routes some of either family to the TUN (`GateAssumption`, as
`mihomo.rs:197` writes them). Once the core is launched the code looks at the own
adapter only, so the others are dropped from the state. `MCLaunchGate` has one line,
one foreign tunnel and one own adapter, with eight addresses per family, and three
who may listen: on the required address, on all, and on another, each in a table of
its own. It abstracts one branch of `LiveRuntime!CheckLaunch` and the
network half of its wait.

### CoreSupervisor and LiveRuntime

`CoreSupervisor` has the operators for the supervisor's transitions, with three
system calls (query, kill, wait) that may fail: then the handle is kept. Dropping
a handle ends its process (kill-on-close job).

`LiveRuntime` is the runtime under the service's commands. `cmd` is the step of
the command in progress:

| Code | Actions |
|---|---|
| `connect_inner` 98-201 | `BeginConnect`, `WriteConfig`, `CheckLaunch`, `StartCore`, then turns of the wait |
| `wait_for_controller` 855-919 | `CoreLost`, `TunMissing`, `NotReadyYet`, `GiveUp`, `Ready`; `Deadline` is the clock, `NetworkChanges` the core binding ports and creating its TUN |
| failure 185-207 | `StopAfterFailure`, `Settle`, `CleanupAfterFailure` |
| `disconnect`, `poll` | `Disconnect`, `PollNotices` |
| `validate_candidate`, commit, `configuration_changed` | `BeginChange`, `ValidateCandidate`, `CommitChange` |
| `measure_disconnected_delays` | `BeginProbe`, `StartProbe`, `FinishProbe`, `EndProbe` |
| `new`, `Drop`, process death | `Startup`, `Quit`, `Crash` |

A configuration file is the revision it was rendered from. While the supervisor
holds a session, its read-only guard keeps that session's file from being removed
or replaced (`Guards`, `Removed`). `CheckLaunch` stands for the static check, the
network snapshot, the conflict evaluation and the launch authorization: each may
refuse. The rendered profile always enables TUN, so the wait always waits for it.

`RuntimeService` maps the runtime to the part of it that `AppCatalog` has:
`CatalogOfRevision`, `CoreOfService` (the core of a speed test in progress is the
test's own) and `ShownByService`. `ImplementsService` says that every step is a
step of `AppCatalog` or invisible. Together with `WindowImplementsCatalog` this
closes the chain window, service, runtime.

### CoreLaunch: from a document to a running Mihomo

`program` and `config` are the executable and the three configuration files on the
disk, which other software changes (`Change`) unless they are held open. `job` is
what the program does with them: a candidate's check, a launch, or a probe.

| Code | Actions |
|---|---|
| `write_runtime_config`, `remove_runtime_config` | `WriteFile` (may fail before, while and after it writes), `Removed` |
| `CoreLaunchSpec::validate_integrity`, called for the static check, under its guards, by `live`/`probe`, by `start` and by `spawn` | `Inspect`, one step for each of the three files and properties it reads |
| `open_immutable_guard` | `Hold` |
| `run_static_validation` | `Create`, `Assign`, `Read`, `CheckPasses` |
| `LivePreflightApproval`, authorizations | `Approve` |
| `WindowsMihomoDriver::spawn`, `CoreSupervisor::start` | `Create`, `Adopt` |
| waits, cleanup, `disconnect`, `poll` | `Use`, `End`, `Disconnect`, `Poll` |
| commit of a checked candidate | `Accept` |
| every refusal and failure | `Refuse` |

A document is the number of its configuration and whether it enables the TUN; its
digest tells it from all others. `Sound` is the set of documents Mihomo's own check
accepts. Mihomo reads its configuration some time after it was created (`Read`),
which is why the guards matter. `Refuse` ends the process of a check or a launch
before its files are let go: by killing it and waiting for it, or, when asking after a
check's process fails (`windows_process.rs:218`), by closing its job, which is taken to
end it at once. That killing itself fails is left out: the wait after it then lasts
until the process is gone, with the files held. What `LaunchGate` and `LiveRuntime` have in detail
is a choice here: the network's verdict, the controller's answers, the view.

### AppCatalog: the service as its clients see it

`catalog` is the state of the current revision (mode, profiles, selections),
`core` and `shown` what the commands can tell of the runtime. `Imported`,
`Deleted` and `Selected` are `merge_imports`, `delete_profile` and
`update_selection`; `Change(r)` is the whole command: checks, new state, its
validation before the commit, the commit. A profile is its identifier, which the
code computes from the role and the file's contents; lists are sorted by it.

### RenderedProfile and ProfileLibrary: what the commands store and render

`RenderedProfile` is about one document. `WireGuardConfig` and `VlessConfig` are
what the parsers accept; `HopAccepted`, `Reaches` and `Renderable` what
`generate_profile` refuses; `Document` what it writes (proxies with dialer and key,
groups, rules, route exclusions, name servers); `ValidateRenderedProfile` what the
validator demands; `Carried` what Mihomo does with a destination; `Reconciled` what
`api.rs` accepts of a running core. Addresses are the numbers of `AddressRanges`.
`Fixed` stands for the settings that are the same in every document.

`ProfileLibrary` composes it with `AppCatalog`: `record` has the version record of
each profile, `vault` the profiles whose secrets were published, `document` the
runtime profile of the current revision, `resolver` what domains resolve to, and
`release` the program that is running.

| Code | Definitions |
|---|---|
| `parse_source`, `resolve_vless_endpoint` | `Parsed`, `Resolved`, `Resolvable` |
| `apply_import`, `profile_version_from_import` | `Records`, `Version` |
| `materialize`, `resolve_secret` | `Materialized`, `SecretKnown` |
| `build_candidate`, `render_runtime_yaml`, `GenerationCandidate::validated` | `Renders`, `Hops`, `Written`, `Commit` |
| `refresh_runtime_contract_if_needed` | `CurrentContract`, `Start` |

`Command(r)` is a command of `AppCatalog` that takes place when its candidate
renders. An older release wrote documents without the exclusion of the first hop's
address, or with other ports; `Start` is the start of this one.

### AppController: the window

`status` is what the screen shows, `op` the operation of `perform`, `load`,
`poll`, `test` and `call` the calls under way. A call is sent, executed under the
service's mutex (`ServeOperation`, `ServeLoad`, `ServePoll`, `ServeTest`; it may
fail before it changed anything, or after), and answered (`OperationSucceeds`,
`OperationFails`, `NextCommand`, `Loaded`, `Polled`, `Tested`). Clicks are
`UpdateSelection`, `ImportConfigs`, `DeleteProfile`, `ConnectClicked`,
`DisconnectClicked`, `SwitchMode`, `TestDelays`, each with the condition that
enables its button. `op.next` is the rest of `applyModeChange`.

Abstractions: a confirmation dialog is a later click, so `DeleteProfile` takes
any profile and `SwitchMode` any mode; the window is visible (a hidden one does
not poll); `can_connect` is left out, so Connect is offered whenever the status
is configured and not connected; delays, messages and the update buttons are
left out.

The window composes with the service: its steps are steps of `AppCatalog` or
leave it alone (`WindowImplementsCatalog`).

## 3. What is checked

| Run | Instance | Shows |
|---|---|---|
| `store_race` | 2 clients, 2 secrets with 2 values, 4 candidates, revisions to 4, 1 damage, symmetry | `ImplementsDocument`: commits are compare-and-swaps on the history their author saw, a crash leaves the document as before or after; `GenerationsAreImmutable`; `SecretsAsSupplied`; `RetryIsAccepted` |
| `store_faults` | 2 clients, one marks and rolls back, 2 candidates that share a secret, revisions and epochs to 3, 1 damage (471,757 states) | `HeadsOrdered`, `OneFaultIsSurvived` at the last revision and epoch too; without damage `HeadExtendsHead` (no lost update), `FallbackIsParent` (a lost newest slot costs one commit), `LastKnownGoodIsAncestor`; the inductive `StoreInvariant` and `UndamagedStore` |
| `runtime` | revisions to 3, 2 failing driver calls (82,808 states) | `CoreRunsCurrentRevision`, `ViewMatchesCore`, `SecretsLeaveWithSession`, `FailedConnectLeavesNothing`, the invariants behind them; `OnlyTunHangs`, `CoreLossIsNoticed`; `ImplementsService` |
| `library` | 2 first hops, 3 exits of which one cannot be rendered, 4 commits, 1 domain with two addresses or none, 3 releases, 20 further files (31,554 states) | `SelectionsExist`, `ValidationNeverRefuses`, `RouteIsStable`; `LibraryAlwaysRenders`: an accepted profile never stands in the way; `UsableFilesAreImported`; `TrafficTakesSelectedPath`; `CurrentDocumentIsValid`; `ProxiesMatchFiles`; `ReconcileIsExact` |
| `window` | 1 first hop, 1 exit, 3 commits (263,414 states) | `RevisionIdentifiesStatus`: a screen with the current revision shows its settings, whatever failed and however late answers come; `ScreenCatchesUp`, `ControlsComeBack` |
| `bootstrap` | 2 processes, 4 identifiers, 2 deaths, 1 damage | `OneKey`, `KeyNeverDiscarded`, `EventuallyOpens` |
| `gate` | 8 addresses, 3 adapters, 3 listeners, 2 changes during a capture, 11 TUN routes | `ApprovalIsGrounded`: what was judged was true at some moment; `QuietNetworkIsJudgedRightly`; `TunReadyIsExact` |
| `launch` | 2 configurations of which one is refused without its TUN, 3 changes by other software, 1 failing driver call (558,120 states) | `CoreRunsWhatWasChecked`: every Mihomo process is the pinned program and reads the document it was created for; `FilesOutliveProcesses` |
| `runtime_tun`, `runtime_retry`, `runtime_launch`, `library_reimport` | 1 revision, 0 or 1 failing call; the library as above | the four findings below |

Bounds, and why they are enough. Two clients are all a race of two commits needs,
since the lock admits one committer. Four revisions let a commit wrap around both
head slots twice and leave an orphan; three reach the end of the revision and
epoch range from every position of the slots. One damage before, between or after
the writes of one commit is what the store claims to survive.
In the runtime, the state is a function of the current revision and of whether a
file belongs to it, so three revisions have an older, a current and a newer one;
two failing driver calls let a stop fail twice in one command (the stop after a
failure and the cleanup). In the library, the files are chosen so that first hops
and exits of both kinds meet, one at a domain each, and one exit leaves the last
addresses out; every list of these profiles is reached within four commits. The 20
further files vary one thing at a time: networks that touch, overlap, repeat or
miss the first, a middle or the last address; hosts, name servers, addresses and
MTU. `AppCatalog` alone is proved for any number of profiles. In the window, three
commits let a status be older than one that is older than the service's.

In the launch, three changes let other software replace a file, put it back and
replace another one between two readings; two configurations are the current one
and another one. In the vault, two deaths leave every combination of half-written files behind two
processes, and four identifiers are what two processes can have in use at once. In
the gate, two changes are what it takes to fool a single reading (a listener is
replaced by a tunnel behind the reader's back); the double reading withstands them.
It withstands three, and fails at four: a tunnel that goes down and comes back
between the two readings of the routes, while a listener comes and goes, is seen in
neither table of the second reading. The property is therefore stated with the
bound, and it is a limit of the code, not only of the instance.

`MaxU64`, `MaxFaults` (store, driver calls, vault), `MaxRevision`, `MaxAborts`,
`MaxDocument` and `MaxChanges` are the only bounds; each is a guard of the action
that would exceed it. In `AppCatalog`, `Change` stops at `MaxRevision`: the window
then sees commands fail, as it does with a store that refuses. Deadlock checking
is off in the store's, the library's, the window's and the launch's runs: at the
last revision, with the head unreadable or with nothing to do, they may stop.

Fairness. `VaultBootstrap!FairSpec`: a process that opens the vault runs on, and
the user starts the program again after a failure; deaths stay possible up to
their bound. `LiveRuntime!FairSpec`: a command that runs takes its next step (the
code is sequential and every wait in it is a sleep), the clock reaches the
deadline, and the interface polls every 1.5 s while its window is visible and no
command runs. Nothing is assumed of the core: neither that it answers nor that
it creates its TUN. `AppController!FairControllerSpec`: the service executes and
answers calls, file dialogs are closed in the end, the timer runs, and polls do
not fail for ever. No fairness on clicks. That calls are answered is what
`OnlyTunHangs` says of the runtime with its one exception, so the window's
liveness holds wherever that exception does not strike.

## 4. Findings

1. `runtime_tun`: while the core owns its ports and the TUN never comes up,
   `wait_for_controller` continues at `live_runtime.rs:885` before it looks at the
   deadline at 906. `connect` then never returns and keeps the mutex. The timeout
   and its message for exactly this case (lines 46, 508, 909) say otherwise.
   `OnlyTunHangs` shows that this is the only way a command can hang.
2. `runtime_retry`: after `poll` found the core gone the supervisor is `Failed`;
   `start` accepts `Stopped` only. The retry the interface offers
   (`live_runtime.rs:387`) passes all checks and is refused at `process.rs:801`;
   cleaning up after it resets the supervisor, so the next one can succeed.
3. `runtime_launch`: when `stop_owned` fails, `disconnect` shows the view of a
   failed launch, which says that no connection was kept, although the supervisor
   keeps the handle because the core may still be running.
4. `library_reimport`: the comment at `service.rs:567-569` says that endpoints are
   pinned to an address when the user imports or a candidate is generated anew.
   New candidates of other commands never resolve, and importing a file again
   resolves it and then keeps the address of the first import, since the file is
   unchanged (`service.rs:749-753`). When a server moves, its profile has to be
   deleted and imported again.

Not findings, since nothing in the repository says otherwise, but worth knowing:
`updateSelection` sends the whole selection from the screen, so a screen that is
one poll behind sets back what another command changed; and a command whose
commit succeeded is reported as failed when the status cannot be read back.

Four limits the models name as exceptions or as a state nothing looks at: an
application that dies between the spawn of Mihomo and the assignment to its job
leaves the process running (`CoreLaunch`, `stray`); a process that dies while it writes
`vault.meta` leaves a directory that can never be opened (`EventuallyOpens`; the
file is not replaced, `store.rs:119-124`); four changes within one capture can
hide a tunnel (above); and `captures_global_ipv6` knows single prefixes of length
2 or less only, so a foreign tunnel that splits IPv6 further is admitted, while
for IPv4 the comment at `conflict.rs:133` rules out exactly this.

## 5. What is proved

All theorems hold for every value of the constants that satisfies the named
assumptions (`StoreAssumption`, `BootstrapAssumption`, `SupervisorAssumption`,
`RuntimeAssumption`, `LaunchAssumption`, `CatalogAssumption`, `LibraryAssumption`,
`DocumentAssumption`, `WidthAssumption`, `GateAssumption`, `UnreadableAssumption`:
ranges, that profile identifiers are finitely many, and that the marker values are
no real ones). One theorem, `ApprovalsAreGrounded`, has a hypothesis of its own.

**StateStoreProofs.** `TypeCorrect` first. `StoreInvariant` is inductive: the
lock is held by the one client in a commit; its revision is above every published
one until it publishes it and above everything the slots name afterwards; parents
are earlier; slots never tie. Without the second part a commit could not be shown
to rename onto nothing (`GenerationsNeverChange`) or to write the later revision
under the later epoch (`HeadsAreOrdered`). `HeadsNameGenerations` is a conjunct.
For `HeadOnlyExtends` a further invariant is needed, `UndamagedStore`: without
damage everything published is readable, so the head a committer compared with is
still the head when it writes; then its generation's parent is the old head.

Two more invariants stand on those. `SecretInvariant`
says that a commit under way still finds its secrets as `write_pending_secrets`
accepted them, and that no secret a published generation needs ever goes away: a
secret appears in the commit that supplies it, only one commit is under way, and
after that only damage changes it. `SecretsStayAsSupplied` and `RetriesAreAccepted`
follow. `OneFaultIsOneLoss` says that until a second fault one slot, one generation
or one secret is lost. With the order of the slots this is `OneFaultLeavesAHead`:
the two slots name different generations, so one of them is spared.
`FallbackIsOneBehind` needs `UndamagedStore`: the slot that `write_head` leaves alone
is the head the committer compared with, and that is the new generation's parent.

The properties about whole chains of generations use what `LineTo` and `Ancestry`
are on every revision (`LineIs`): the recursive functions satisfy their equations
because a parent is always earlier, which the prover gets from the least revision
that breaks them. `LineInvariant` says that every valid slot of `current` is on one
line of ancestors, and that a commit under way builds on the head its author
expects. `LastKnownGoodStaysAncestor` needs a marked revision to be on that line, and
that a line without damage only grows. `StoreImplementsDocument` is the refinement, for
any number of damages: a written head extends the line its author had read, a damaged
slot, generation or secret cuts the line back to an ancestor or makes the document
unreadable, and everything before `CommitHead` is invisible.

`SecretInvariant`, `OneFaultIsOneLoss` and `LineInvariant` are in no run: what they
are for is (`RetryIsAccepted`, `SecretsAsSupplied`, `OneFaultIsSurvived`,
`ImplementsDocument`). TLC checked them before they were proved.

**VaultBootstrapProofs.** `BootstrapInvariant` is inductive: who is inside
`load_or_initialize_auth_key` holds the lock, who creates a key does so while
nothing is signed and `store.meta` is absent, and without damage `vault.meta` has
one author and never changes under those who know it. The last part is what keeps
two processes on one identity, although `vault.meta` is created outside the lock;
`OneKeyHolds` follows. `KeyIsNeverDiscarded` needs the second part only: a process
that passed `store_is_pristine` keeps everybody else from signing until it is done.

**LiveRuntimeProofs.** `RuntimeInvariant` is inductive: there is a handle exactly
while the runtime is active, which step may have which session, and the active
file is the current revision once written. `RunningCoreIsCurrent` follows. On top
of it `SessionInvariant` ties every file, session and view to the step of the
command; `ViewsMatchTheCore`, `SecretsLeave` and `FailedConnectsCleanUp` follow
from both.

`RuntimeImplementsService` needs both invariants and that nothing is connected or measured before the first import. One lemma for each action
of `AppCatalog` says which steps of the runtime it stands for: a connect that is
under way shows an error until it succeeds, a stop is a `Disconnect`, what `poll`
finds gone a `Poll`, and a probe is invisible until it cannot be stopped.

**CoreLaunchProofs.** `LaunchTypeCorrect` first. The inductive invariant is
`LaunchInvariant` with the two properties. Its parts say where a job may be when
its files are held or it has a process, that its document is what the store has
for its kind, that nothing is on its way to a launch that the check did not accept,
and, at the centre, `FoundStaysTrue`: what an inspection under the guards has found
stays true until they are given back. An inspection before the guards proves
nothing, whatever it found; dropping the one inside `spawn` breaks
`CoreRunsWhatWasChecked`, and guards that end with the spawn break
`FilesOutliveProcesses`. `CoresRunWhatWasChecked` and `FilesAlwaysOutliveProcesses`
hold for any number of changes by other software and of failing driver calls.

**AppCatalogProofs.** Each of `Imported`, `Deleted`, `Selected` builds a sound
state from a sound one (`ResultIsSound`), where sound says that selections exist
and that a state has an exit node selected as soon as it has one.
`SelectionsAlwaysExist`, `AcceptedRequestsValidate` and `RouteIsAlwaysStable`
follow.

**ProfileLibraryProofs.** `LibraryImplementsCatalog`: records, secrets, documents
and the refresh at the start are details of `AppCatalog`'s actions, so the three
theorems above hold for the library too. `LibraryInvariant` is inductive: exactly
the profiles of the current state have records, each made from its own file at some
answer of the resolver, their secrets are in the vault, and the document of
whatever release has their proxies. `ProxiesAreThoseOfFiles` follows; it also needs
that a candidate only renders with IPv4 endpoints. `ReconciliationIsExact` compares
what a core with the document of one state reports with what another state expects:
the selectors tell the route, the names the profiles.

The rest is about what a document does. `CoverageIsExact`: after the sweep of
`covers_all_ipv4` the next address is the first one that no network has
(`SweepFindsFirstFree`), so it accepts exactly the sets of networks that leave
nothing out. `TrailIs` follows a name to the proxies behind it and `DocumentTrails`
gives the trail of every name of a rendered document: at most three steps, ending at
the selected hops. From it `DocumentIsValid` (the validator accepts what the renderer
wrote) and `DocumentCarries` (where each destination goes).

`RenderInvariant` ties them to the state: every record is `Stored` (renders in its
role, with an address its domain had once), a configured state renders, and its document is
`Written` from its records. It is inductive because every change keeps the records of
the profiles that stay (`RecordsAreStored`) and the route it selects consists of such
(`ChangesRender`), and because the refresh at the start replaces exactly the documents of
other releases (`CurrentContractIsOwn`). `AcceptedProfilesAlwaysRender`,
`StoredDocumentsStayValid` and `TrafficNeverStrays` follow. `UsableFilesAreAccepted`
needs no invariant: it compares the refusals, address by address, with what makes a
file usable. `RenderInvariant` is in no run; TLC checked it as well.

**LaunchGateProofs.** First the operators of `AddressRanges`, for any width of
addresses. They are folds over finite sets, so each is built up one range at a time
(`BuildUp`, `FoldExists`): merging keeps the addresses and leaves gaps between what is
merged (`NormalizedMerges`), subtracting takes exactly the excluded addresses
(`SubtractIsExact`), covering is inclusion (`CoversIsExact`), and the coverage is the
number of addresses (`CoverageCountsAddresses`). So the comparison of the routes is
exact (`CompleteIsExact`). `LookInvariant` adds what two reads at different moments
need: if the own adapter was up when the interfaces were read and its routes are
complete now, it was up and complete at one moment of the look, because it gets routes
only while it is up and may at most keep them when it goes down. `TunIsReadyExactly`
follows.

A capture reads six tables twice while other software changes them, so what the
readings say need not have been true at any time. `CaptureInvariant` says that there
is a story: a sequence of table states, each one change from the one before, and twelve
moments in order at which the tables were read (`Recorded`). Without a change all
moments are one, which is `QuietNetworksAreJudgedRightly`. For `ApprovalsAreGrounded`
take the moment the adapters were read for the second time. Routes and listeners were
read before it and after it with the same result; of three changes, one at most happened
on one of the two sides, so a state at or next to that moment is as it was judged; two
listeners in the way, even of tables read at different moments, would take two changes
on either side (`ThreeChangesDeceiveNobody`). Hence the hypothesis `MaxChanges <= 3`, and TLC finds
the deception with four. The run has two; on a smaller
instance TLC checked three as well. `GateTypeOK` is in
no run, because every part of it that could break is behind one of the three properties;
TLC checked it too.

**AppControllerProofs.** A status is fresh when its revision is not ahead of the
service's and, if equal, its settings are the service's. `WindowInvariant` says
that every view under way is fresh, and so is the status, except while an
optimistic operation runs; then the status it would restore is. Freshness
survives every step of the service because a change always takes the next
revision. `ScreenShowsWhatWasSaved` follows, and `WindowImplementsCatalog`: the
window with its service is a behaviour of `AppCatalog`, so its theorems hold
behind the window.

Only model-checked: the liveness properties (`OnlyTunHangs`, `CoreLossIsNoticed`,
`ScreenCatchesUp`, `ControlsComeBack`, `EventuallyOpens`), which are out of the
provers' reach. Every other property of a passing run is a theorem.

## 6. What is not modelled

* The grammar of the input files (`wireguard.rs`, `vless.rs`) and of YAML: the
  models start from what the parsers accept. Fields of the document that nothing
  else depends on (ports of endpoints, fingerprints, keep-alive). Display names and
  source hashes: a profile's identifier is a hash of its file, so a profile that is
  there always has the same file, and `apply_import` never adds a second version.
* Size limits: of the scanner (128 files, 8 MiB), of the speed test (128 targets),
  of the controller's answers. They are plain numbers nothing else depends on,
  except that more than 128 profiles can be imported and then not be measured.
* The warning about Clash processes and the order of findings in a report.
* `confirm_manual_verification` and `import_existing_configs`: called by tests only.
* DPAPI, path checks, the updater's download, the update buttons: I/O without state
  of their own.

## 7. Plan

`LiveRuntime` and `CoreLaunch` drive the same supervisor, each with its own half of the
detail. What is left is to tie them together: an abstract specification of who may start,
stop and replace a session, implemented by both.
