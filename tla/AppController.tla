--------------------------- MODULE AppController ---------------------------
(***************************************************************************)
(* The window: useAppController.js and the buttons of App.jsx, in front of *)
(* the service of AppCatalog.                                              *)
(*                                                                         *)
(* Every call to the service is asynchronous.  A call is sent, executed    *)
(* while it holds the service's lock, and its answer handled later: the    *)
(* first load, the poll of the timer, the speed test and the operation the *)
(* user started may be on their way at the same time, and their answers    *)
(* come in any order.  JavaScript runs one handler at a time, so what a    *)
(* handler does between two awaits is one step.                            *)
(*                                                                         *)
(* A confirmation dialog is a later click: DeleteProfile and SwitchMode    *)
(* take any profile and mode, because the status may have changed while    *)
(* the dialog was open.  The window is visible (the timer does nothing     *)
(* while it is hidden).  canConnect is left out: Connect is offered        *)
(* whenever the status is configured and not connected.  The delays and    *)
(* the messages on the screen are left out.                                *)
(***************************************************************************)
EXTENDS AppCatalog, Sequences

VARIABLES
  status,   \* statusRef: the status on the screen
  loading,  \* the first load is on its way
  load,     \* the call of the first load
  poll,     \* the call of the timer
  test,     \* the call of the speed test, and whether it greys out the buttons
  op,       \* the operation in progress (operationActiveRef, pendingAction)
  call      \* its current call

window == <<status, loading, op>>
calls == <<load, poll, test, call>>
vars == <<service, window, calls>>

\* AppStatusDto: the settings and what the runtime shows.
View == [settings |-> catalog, runtime |-> shown]
ViewType == [settings : Settings, runtime : Shown]

\* unconfigured_status, which is also what normalizeAppStatus makes of null.
InitialStatus == [settings |-> Unconfigured, runtime |-> "disconnected"]

----------------------------------------------------------------------------
(* Calls *)

NoCall == [phase |-> "idle", view |-> InitialStatus]
Sent == [phase |-> "sent", view |-> InitialStatus]
Failed == [phase |-> "failed", view |-> InitialStatus]
Answered(v) == [phase |-> "answered", view |-> v]

Call == [phase : {"idle", "sent", "failed", "answered"}, view : ViewType]

\* run_service_command: the service executes a call.  It may fail before it
\* changes anything, or after, when the status cannot be read back.
Serve(slot, Command) ==
  /\ slot.phase = "sent"
  /\ \/ Command /\ slot' \in {Answered(View'), Failed}
     \/ UNCHANGED service /\ slot' = Failed

\* The commands of an operation.
Task == [command : {"validate", "connect", "disconnect"}]
          \cup [command : {"import"}, role : Role]
          \cup {r \in Request : r.command # "import"}

Validate == [command |-> "validate"]
ConnectTask == [command |-> "connect"]
DisconnectTask == [command |-> "disconnect"]
ImportTask(role) == [command |-> "import", role |-> role]
SelectTask(mode, firstHop, proton) ==
  [command |-> "select", mode |-> mode, firstHop |-> firstHop, proton |-> proton]

Execute(t) ==
  \/ t.command = "validate" /\ Configured(catalog) /\ Poll
  \/ t.command = "connect" /\ Connect
  \/ t.command = "disconnect" /\ Disconnect
  \/ /\ t.command = "import"
     /\ \E r \in Request : r.command = "import" /\ r.role = t.role /\ Change(r)
  \/ t.command \in {"delete", "select"} /\ Change(t)

----------------------------------------------------------------------------
(* Operations *)

Operation ==
  [name : {"none", "selection", "import", "delete", "connect", "disconnect", "mode"},
   tasks : Seq(Task), next : {<<>>, <<"mode">>, <<"import", "mode">>},
   optimistic : BOOLEAN, previous : ViewType]

Idle == op.name = "none"

\* perform without an optimistic status.  next are the operations that
\* applyModeChange starts when this one has succeeded.
Plain(name, tasks, next) ==
  [name |-> name, tasks |-> tasks, next |-> next, optimistic |-> FALSE,
   previous |-> InitialStatus]

NoOperation == Plain("none", <<>>, <<>>)

\* perform with an optimistic status, over the status it would restore.
Optimistic(name, tasks, previous) ==
  [name |-> name, tasks |-> tasks, next |-> <<>>, optimistic |-> TRUE,
   previous |-> previous]

\* perform starts: the first command is sent at once.
Perform(o, s) ==
  /\ op' = o
  /\ call' = Sent
  /\ status' = s

\* switchMode, from status s.
ModeOperation(mode, s) ==
  LET select == SelectTask(mode, s.settings.firstHop, s.settings.proton)
  IN  IF s.runtime = "connected"
      THEN Plain("mode", <<DisconnectTask, select>>, <<>>)
      ELSE Optimistic("mode", <<select>>, s)

ModeStatus(mode, s) ==
  IF s.runtime = "connected" THEN s ELSE [s EXCEPT !.settings.mode = mode]

\* The selectors and menus, the mode switch, and the round button.
ControlsEnabled == ~ loading /\ Idle /\ ~ test.shown
NodesEnabled(role) ==
  /\ ControlsEnabled
  /\ status.runtime # "connected"
  /\ role = "proton" => status.settings.mode = "double"

UpdateSelection ==
  /\ \E s \in {[status EXCEPT !.settings.firstHop = i] :
                 i \in IF NodesEnabled("first-hop") THEN status.settings.firstHops ELSE {}}
              \cup {[status EXCEPT !.settings.proton = i] :
                 i \in IF NodesEnabled("proton") THEN status.settings.protons ELSE {}} :
       Perform(Optimistic("selection",
                          <<SelectTask(s.settings.mode, s.settings.firstHop, s.settings.proton)>>,
                          status), s)
  /\ UNCHANGED <<service, loading, load, poll, test>>

ImportConfigs ==
  /\ \E role \in Role :
       /\ NodesEnabled(role)
       /\ Perform(Plain("import", <<ImportTask(role)>>, <<>>), status)
  /\ UNCHANGED <<service, loading, load, poll, test>>

DeleteProfile ==
  /\ ControlsEnabled
  /\ \E r \in Request :
       r.command = "delete" /\ Perform(Plain("delete", <<r>>, <<>>), status)
  /\ UNCHANGED <<service, loading, load, poll, test>>

ConnectClicked ==
  /\ Idle /\ ~ test.shown
  /\ status.runtime # "connected"
  /\ Configured(status.settings)
  /\ Perform(Plain("connect", <<Validate, ConnectTask>>, <<>>), status)
  /\ UNCHANGED <<service, loading, load, poll, test>>

DisconnectClicked ==
  /\ ControlsEnabled
  /\ status.runtime = "connected"
  /\ Perform(Plain("disconnect", <<DisconnectTask>>, <<>>), status)
  /\ UNCHANGED <<service, loading, load, poll, test>>

\* applyModeChange: without an exit node, disconnect and import one first.
SwitchMode(mode) ==
  /\ ControlsEnabled
  /\ mode = "double" => status.settings.firstHops # {}
  /\ IF mode = "double" /\ status.settings.protons = {}
     THEN IF status.runtime = "connected"
          THEN Perform(Plain("disconnect", <<DisconnectTask>>, <<"import", "mode">>), status)
          ELSE Perform(Plain("import", <<ImportTask("proton")>>, <<"mode">>), status)
     ELSE Perform(ModeOperation(mode, status), ModeStatus(mode, status))
  /\ UNCHANGED <<service, loading, load, poll, test>>

ServeOperation ==
  /\ ~ Idle
  /\ Serve(call, Execute(Head(op.tasks)))
  /\ UNCHANGED <<window, load, poll, test>>

\* The task goes on to its next command.
NextCommand ==
  /\ call.phase = "answered"
  /\ Len(op.tasks) > 1
  /\ op' = [op EXCEPT !.tasks = Tail(@)]
  /\ call' = Sent
  /\ UNCHANGED <<service, status, loading, load, poll, test>>

\* Mutant of RestoreStatus: the optimistic status stays.
KeepOptimisticStatus == status' = status

\* perform's catch
RestoreStatus ==
  status' = IF op.optimistic THEN op.previous ELSE status

\* perform's result is committed, and applyModeChange goes on.
OperationSucceeds ==
  /\ call.phase = "answered"
  /\ Len(op.tasks) = 1
  /\ LET v == call.view
         next == op.next
     IN  CASE next = <<>> -> op' = NoOperation /\ call' = NoCall /\ status' = v
           [] next = <<"import", "mode">> ->
                Perform(Plain("import", <<ImportTask("proton")>>, <<"mode">>), v)
           [] next = <<"mode">> ->
                Perform(ModeOperation("double", v), ModeStatus("double", v))
  /\ UNCHANGED <<service, loading, load, poll, test>>

\* Mutant of OperationFails: no finally, pendingAction stays.
FailureKeepsOperation ==
  /\ call.phase = "failed"
  /\ RestoreStatus
  /\ UNCHANGED <<service, loading, op, calls>>

OperationFails ==
  /\ call.phase = "failed"
  /\ RestoreStatus
  /\ op' = NoOperation
  /\ call' = NoCall
  /\ UNCHANGED <<service, loading, load, poll, test>>

\* Mutant of ImportCancelled: the import is forgotten, not called off.
CancelledImportIsServed ==
  /\ call.phase = "sent"
  /\ op.tasks[1].command = "import"
  /\ op' = NoOperation
  /\ UNCHANGED <<service, status, loading, calls>>

\* The user closes the file dialog: importConfigFiles returns cancelled.
ImportCancelled ==
  /\ call.phase = "sent"
  /\ op.tasks[1].command = "import"
  /\ op' = NoOperation
  /\ call' = NoCall
  /\ UNCHANGED <<service, status, loading, load, poll, test>>

----------------------------------------------------------------------------
(* The first load, the timer and the speed test *)

ServeLoad ==
  /\ Serve(load, Poll)
  /\ UNCHANGED <<window, poll, test, call>>

Loaded ==
  /\ load.phase \in {"answered", "failed"}
  /\ status' = IF load.phase = "answered" THEN load.view ELSE status
  /\ loading' = FALSE
  /\ load' = NoCall
  /\ UNCHANGED <<service, op, poll, test, call>>

PollDue ==
  /\ Idle
  /\ test.phase = "idle"
  /\ poll.phase = "idle"
  /\ poll' = Sent
  /\ UNCHANGED <<service, window, load, test, call>>

ServePoll ==
  /\ Serve(poll, Poll)
  /\ UNCHANGED <<window, load, test, call>>

\* Mutant of Polled: no finally, pollActiveRef stays set when a poll fails.
FailedPollStaysActive ==
  /\ poll.phase = "answered"
  /\ status' = poll.view
  /\ poll' = NoCall
  /\ UNCHANGED <<service, loading, op, load, test, call>>

Polled ==
  /\ poll.phase \in {"answered", "failed"}
  /\ status' = IF poll.phase = "answered" THEN poll.view ELSE status
  /\ poll' = NoCall
  /\ UNCHANGED <<service, loading, op, load, test, call>>

NoTest == [phase |-> "idle", shown |-> FALSE]

\* testDelays.  The buttons are greyed out by the list of profiles it tests.
TestDelays ==
  /\ Idle
  /\ test.phase = "idle"
  /\ test' = [phase |-> "sent", shown |-> status.settings.firstHops # {}]
  /\ UNCHANGED <<service, window, load, poll, call>>

ServeTest ==
  /\ test.phase = "sent"
  /\ (Measure \/ UNCHANGED service)
  /\ test' = [test EXCEPT !.phase = "answered"]
  /\ UNCHANGED <<window, load, poll, call>>

Tested ==
  /\ test.phase = "answered"
  /\ test' = NoTest
  /\ UNCHANGED <<service, window, load, poll, call>>

----------------------------------------------------------------------------
(* The specification *)

ControllerInit ==
  /\ Init
  /\ status = InitialStatus
  /\ loading = TRUE
  /\ load = Sent
  /\ poll = NoCall
  /\ test = NoTest
  /\ op = NoOperation
  /\ call = NoCall

Click ==
  \/ UpdateSelection \/ ImportConfigs \/ DeleteProfile
  \/ ConnectClicked \/ DisconnectClicked
  \/ \E mode \in Mode : SwitchMode(mode)
  \/ TestDelays

Answer ==
  \/ NextCommand \/ OperationSucceeds \/ OperationFails
  \/ Loaded \/ Polled \/ Tested

ControllerNext ==
  \/ Click
  \/ ServeOperation \/ ServeLoad \/ ServePoll \/ ServeTest
  \/ Answer
  \/ ImportCancelled
  \/ PollDue
  \/ CoreExits /\ UNCHANGED <<window, calls>>

ControllerSpec == ControllerInit /\ [][ControllerNext]_vars

\* Calls are executed and answered, file dialogs are closed and the timer runs;
\* the service does not fail every poll.
FairControllerSpec ==
  /\ ControllerSpec
  /\ WF_vars(ServeOperation) /\ WF_vars(ServeLoad) /\ WF_vars(ServePoll) /\ WF_vars(ServeTest)
  /\ WF_vars(NextCommand \/ OperationSucceeds \/ OperationFails)
  /\ WF_vars(Loaded) /\ WF_vars(Polled) /\ WF_vars(Tested)
  /\ WF_vars(PollDue)
  /\ SF_vars(ServePoll /\ poll'.phase = "answered")
----------------------------------------------------------------------------
(* Properties *)

ControllerTypeOK ==
  /\ CatalogTypeOK
  /\ status \in ViewType
  /\ loading \in BOOLEAN
  /\ load \in Call /\ poll \in Call /\ call \in Call
  /\ test \in [phase : {"idle", "sent", "answered"}, shown : BOOLEAN]
  /\ op \in Operation
  /\ Idle <=> call.phase = "idle"
  /\ Idle <=> op.tasks = <<>>

\* What is on the screen was saved: whatever happened to optimistic choices,
\* failed commands and late answers, a status that carries the current revision
\* shows the settings of that revision once the operation is over.
RevisionIdentifiesStatus ==
  Idle /\ status.settings.revision = catalog.revision => status.settings = catalog

\* Once the user stops clicking, the screen shows what the service has and goes
\* on doing so.
ScreenCatchesUp ==
  <>[](Idle /\ test.phase = "idle") => <>[](status = View)

\* Every operation comes to an end, and with it the buttons come back.
ControlsComeBack == ~ Idle ~> Idle
============================================================================
