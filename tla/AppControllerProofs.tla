------------------------ MODULE AppControllerProofs ------------------------
(***************************************************************************)
(* Proofs about AppController: the window only ever drives the service     *)
(* through AppCatalog's commands, and what it shows was saved.             *)
(***************************************************************************)
EXTENDS AppController, AppCatalogProofs

\* The tasks of an operation are commands of the service.
LEMMA ExecuteIsNext ==
  ASSUME NEW t \in Task, Execute(t)
  PROVE  Next
<1>1. CASE t.command \in {"delete", "select"} /\ Change(t)
  <2>1. t \in Request
    BY <1>1 DEF Task
  <2> QED
    BY <1>1, <2>1 DEF Next
<1> QED
  BY <1>1 DEF Execute, Next

\* Serving a call is a step of the service, or leaves it alone.
LEMMA ServeIsStep ==
  ASSUME NEW t \in Task, Serve(call, Execute(t))
  PROVE  [Next]_service
  BY ExecuteIsNext DEF Serve

\* The view is a status the screen could have shown at the current revision.
FreshIn(c, v) ==
  /\ v.settings.revision <= c.revision
  /\ v.settings.revision = c.revision => v.settings = c

\* Nothing is configured before the first commit.
Blank == ~ Configured(catalog) => catalog = Unconfigured

\* A step of the service leaves the settings alone or gives them the next
\* revision.
LEMMA RevisionGrows ==
  ASSUME CatalogInvariant, [Next]_service
  PROVE  catalog' = catalog \/ catalog'.revision = catalog.revision + 1
<1>1. ASSUME NEW r \in Request, Change(r), catalog' # catalog
      PROVE  catalog'.revision = catalog.revision + 1
  <2>1. catalog' = [Result(catalog, r) EXCEPT !.revision = catalog.revision + 1]
    BY <1>1 DEF Change, service
  <2>2. Result(catalog, r) \in Settings
    BY <1>1, ResultIsSound DEF Change, CatalogInvariant, CatalogTypeOK
  <2> QED
    BY <2>1, <2>2 DEF Settings
<1>2. CASE Connect \/ Disconnect \/ Poll \/ Measure \/ CoreExits \/ UNCHANGED service
  BY <1>2 DEF Connect, Disconnect, Poll, Measure, CoreExits, service
<1>3. CASE Open
  <2>1. catalog.revision \in Nat
    BY DEF CatalogInvariant, CatalogTypeOK, Settings
  <2> QED
    BY <1>3, <2>1 DEF Open, CatalogInvariant, CatalogTypeOK, Settings
<1> QED
  BY <1>1, <1>2, <1>3 DEF Next

\* What was fresh stays fresh when the service takes a step.
LEMMA ServiceStep ==
  ASSUME CatalogInvariant, Blank, [Next]_service
  PROVE  /\ CatalogInvariant' /\ Blank'
         /\ \A v \in ViewType : FreshIn(catalog, v) => FreshIn(catalog', v)
<1>1. catalog' = catalog \/ catalog'.revision = catalog.revision + 1
  BY RevisionGrows
<1>2. catalog.revision \in Nat
  BY DEF CatalogInvariant, CatalogTypeOK, Settings
<1>3. CatalogInvariant'
  BY CatalogStep
<1>4. Blank'
  BY <1>1, <1>2 DEF Blank, Configured
<1>5. ASSUME NEW v \in ViewType, FreshIn(catalog, v)
      PROVE  FreshIn(catalog', v)
  <2>1. v.settings.revision \in Nat
    BY DEF ViewType, Settings
  <2> QED
    BY <1>1, <1>2, <1>5, <2>1 DEF FreshIn
<1> QED
  BY <1>3, <1>4, <1>5

\* The status the service answers with is fresh, and so is the empty one.
LEMMA ViewsAreFresh ==
  ASSUME NEW c \in Settings, NEW r \in Shown, ~ Configured(c) => c = Unconfigured
  PROVE  /\ [settings |-> c, runtime |-> r] \in ViewType
         /\ FreshIn(c, [settings |-> c, runtime |-> r])
         /\ InitialStatus \in ViewType /\ FreshIn(c, InitialStatus)
<1>1. c.revision \in Nat
  BY DEF Settings
<1>2. Unconfigured \in Settings /\ Unconfigured.revision = 0
  BY CatalogAssumption DEF Unconfigured, Settings, Mode
<1>3. FreshIn(c, [settings |-> c, runtime |-> r])
  BY <1>1 DEF FreshIn
<1>4. FreshIn(c, InitialStatus)
  BY <1>1, <1>2 DEF FreshIn, InitialStatus, Configured
<1> QED
  BY <1>1, <1>2, <1>3, <1>4 DEF ViewType, InitialStatus, Shown

\* A selection made on the screen is a request of the service.
LEMMA SelectionsAreTasks ==
  ASSUME NEW s \in ViewType
  PROVE  /\ \A mode \in Mode :
              /\ SelectTask(mode, s.settings.firstHop, s.settings.proton) \in Task
              /\ [s EXCEPT !.settings.mode = mode] \in ViewType
         /\ \A i \in FirstHop : [s EXCEPT !.settings.firstHop = i] \in ViewType
         /\ \A j \in Proton : [s EXCEPT !.settings.proton = j] \in ViewType
<1>1. /\ s.settings \in Settings
      /\ s.runtime \in Shown
      /\ s = [settings |-> s.settings, runtime |-> s.runtime]
  BY DEF ViewType
<1> DEFINE c == s.settings
<1>2. /\ \A mode \in Mode : [c EXCEPT !.mode = mode] \in Settings
      /\ \A i \in FirstHop : [c EXCEPT !.firstHop = i] \in Settings
      /\ \A j \in Proton : [c EXCEPT !.proton = j] \in Settings
  BY <1>1 DEF Settings
<1>3. \A mode \in Mode : SelectTask(mode, c.firstHop, c.proton) \in Task
  BY <1>1 DEF SelectTask, Task, Request, Settings
<1> QED
  BY <1>1, <1>2, <1>3 DEF ViewType

\* perform's records are operations.
LEMMA PerformsOperations ==
  /\ \A name \in {"none", "selection", "import", "delete", "connect", "disconnect", "mode"},
        tasks \in Seq(Task), next \in {<<>>, <<"mode">>, <<"import", "mode">>} :
       Plain(name, tasks, next) \in Operation
  /\ \A name \in {"selection", "mode"}, tasks \in Seq(Task), previous \in ViewType :
       Optimistic(name, tasks, previous) \in Operation
  /\ Validate \in Task /\ ConnectTask \in Task /\ DisconnectTask \in Task
  /\ \A role \in Role : ImportTask(role) \in Task
<1>1. InitialStatus \in ViewType
  BY CatalogAssumption DEF InitialStatus, Unconfigured, ViewType, Settings, Mode, Shown
<1>2. /\ Validate \in Task /\ ConnectTask \in Task /\ DisconnectTask \in Task
      /\ \A role \in Role : ImportTask(role) \in Task
  BY DEF Validate, ConnectTask, DisconnectTask, ImportTask, Task
<1> QED
  BY <1>1, <1>2 DEF Plain, Optimistic, Operation

\* An optimistic operation sends one command, a selection.
OneSelection(o) ==
  o.optimistic => Len(o.tasks) = 1 /\ o.tasks[1].command = "select"

\* No operation in progress is an operation with no commands.
LEMMA NoOperationIsOne ==
  /\ NoOperation \in Operation /\ NoOperation.name = "none"
  /\ NoOperation.tasks = <<>> /\ ~ NoOperation.optimistic
  /\ OneSelection(NoOperation)
<1>1. <<>> \in Seq(Task)
  OBVIOUS
<1>2. NoOperation \in Operation
  BY <1>1, PerformsOperations DEF NoOperation
<1> QED
  BY <1>2 DEF NoOperation, Plain, OneSelection

\* The inductive invariant: the views under way are fresh, and so is the status,
\* except while it is optimistic; then the one to be restored is.
WindowInvariant ==
  /\ CatalogInvariant
  /\ Blank
  /\ ControllerTypeOK
  /\ FreshIn(catalog, load.view)
  /\ FreshIn(catalog, poll.view)
  /\ FreshIn(catalog, call.view)
  /\ op.optimistic => FreshIn(catalog, op.previous)
  /\ ~ op.optimistic => FreshIn(catalog, status)
  /\ Idle => ~ op.optimistic
  /\ OneSelection(op)

\* An operation that starts keeps the invariant.
LEMMA PerformStep ==
  ASSUME WindowInvariant,
         NEW o \in Operation, o.name # "none", o.tasks # <<>>,
         NEW s \in ViewType, Perform(o, s),
         OneSelection(o),
         o.optimistic => FreshIn(catalog, o.previous),
         ~ o.optimistic => FreshIn(catalog, s),
         UNCHANGED <<service, loading, load, poll, test>>
  PROVE  WindowInvariant'
<1>1. /\ catalog' = catalog /\ core' = core /\ shown' = shown
      /\ loading' = loading /\ load' = load /\ poll' = poll /\ test' = test
      /\ op' = o /\ call' = Sent /\ status' = s
  BY DEF Perform, service
<1>2. InitialStatus \in ViewType /\ FreshIn(catalog, InitialStatus)
  BY ViewsAreFresh DEF WindowInvariant, CatalogInvariant, CatalogTypeOK, Blank
<1>3. Sent \in Call /\ Sent.phase = "sent" /\ Sent.view = InitialStatus
  BY <1>2 DEF Sent, Call
<1>4. CatalogInvariant' /\ Blank'
  BY <1>1 DEF WindowInvariant, CatalogInvariant, CatalogTypeOK, Blank, Sound, Linked,
              Configured, Validates
<1>5. ControllerTypeOK'
  BY <1>1, <1>3, <1>4 DEF WindowInvariant, ControllerTypeOK, CatalogInvariant, Idle
<1>6. /\ FreshIn(catalog, load.view)' /\ FreshIn(catalog, poll.view)'
      /\ FreshIn(catalog, call.view)'
  BY <1>1, <1>2, <1>3 DEF WindowInvariant, FreshIn
<1>7. /\ (op.optimistic => FreshIn(catalog, op.previous))'
      /\ (~ op.optimistic => FreshIn(catalog, status))'
      /\ (Idle => ~ op.optimistic)'
      /\ OneSelection(op)'
  BY <1>1 DEF FreshIn, Idle, OneSelection
<1> QED
  BY <1>4, <1>5, <1>6, <1>7 DEF WindowInvariant

\* So does one that switches the mode, from a fresh status s.
LEMMA ModeStep ==
  ASSUME WindowInvariant,
         NEW mode \in Mode, NEW s \in ViewType, FreshIn(catalog, s),
         Perform(ModeOperation(mode, s), ModeStatus(mode, s)),
         UNCHANGED <<service, loading, load, poll, test>>
  PROVE  WindowInvariant'
<1> DEFINE t == SelectTask(mode, s.settings.firstHop, s.settings.proton)
           o == ModeOperation(mode, s)
<1>1. t \in Task /\ DisconnectTask \in Task
  BY SelectionsAreTasks, PerformsOperations
<1>2. <<t>> \in Seq(Task) /\ <<DisconnectTask, t>> \in Seq(Task)
  <2> HIDE DEF t
  <2> QED
    BY <1>1
<1>3. CASE s.runtime = "connected"
  <2>1. o = Plain("mode", <<DisconnectTask, t>>, <<>>) /\ ModeStatus(mode, s) = s
    BY <1>3 DEF ModeOperation, ModeStatus
  <2>2. o \in Operation
    BY <1>2, <2>1, PerformsOperations
  <2>3. o.name # "none" /\ o.tasks # <<>> /\ ~ o.optimistic /\ OneSelection(o)
    BY <2>1 DEF Plain, OneSelection
  <2> HIDE DEF o, t
  <2> QED
    BY <2>1, <2>2, <2>3, PerformStep DEF o
<1>4. CASE s.runtime # "connected"
  <2>1. /\ o = Optimistic("mode", <<t>>, s)
        /\ ModeStatus(mode, s) = [s EXCEPT !.settings.mode = mode]
    BY <1>4 DEF ModeOperation, ModeStatus
  <2>2. o \in Operation
    BY <1>2, <2>1, PerformsOperations
  <2>3. /\ o.name # "none" /\ o.tasks # <<>> /\ o.optimistic /\ o.previous = s
        /\ OneSelection(o)
    BY <2>1 DEF Optimistic, OneSelection, SelectTask
  <2>4. ModeStatus(mode, s) \in ViewType
    BY <2>1, SelectionsAreTasks
  <2> HIDE DEF o, t
  <2> QED
    BY <2>2, <2>3, <2>4, PerformStep DEF o
<1> QED
  BY <1>3, <1>4

\* Only the status, the operation and its call, or the speed test, change while
\* the service stands still.
LEMMA WindowStep ==
  ASSUME WindowInvariant, UNCHANGED service,
         status' \in ViewType, loading' \in BOOLEAN,
         load' \in Call, poll' \in Call, call' \in Call, op' \in Operation,
         test' \in [phase : {"idle", "sent", "answered"}, shown : BOOLEAN],
         (op'.name = "none") <=> (call'.phase = "idle"),
         (op'.name = "none") <=> (op'.tasks = <<>>),
         FreshIn(catalog, load'.view), FreshIn(catalog, poll'.view),
         FreshIn(catalog, call'.view),
         op'.optimistic => FreshIn(catalog, op'.previous),
         ~ op'.optimistic => FreshIn(catalog, status'),
         (op'.name = "none") => ~ op'.optimistic,
         OneSelection(op')
  PROVE  WindowInvariant'
<1>1. catalog' = catalog /\ core' = core /\ shown' = shown
  BY DEF service
<1>2. CatalogInvariant' /\ Blank'
  BY <1>1 DEF WindowInvariant, CatalogInvariant, CatalogTypeOK, Blank, Sound, Linked,
              Configured, Validates
<1>3. ControllerTypeOK'
  BY <1>2 DEF ControllerTypeOK, CatalogInvariant, Idle
<1>4. /\ FreshIn(catalog, load.view)' /\ FreshIn(catalog, poll.view)'
      /\ FreshIn(catalog, call.view)'
      /\ (op.optimistic => FreshIn(catalog, op.previous))'
      /\ (~ op.optimistic => FreshIn(catalog, status))'
      /\ (Idle => ~ op.optimistic)'
      /\ OneSelection(op)'
  BY <1>1 DEF FreshIn, Idle, OneSelection
<1> QED
  BY <1>2, <1>3, <1>4 DEF WindowInvariant

\* A click keeps the invariant.
LEMMA ClickStep ==
  ASSUME WindowInvariant, Click
  PROVE  WindowInvariant'
<1>1. /\ status \in ViewType
      /\ status.settings.firstHops \subseteq FirstHop
      /\ status.settings.protons \subseteq Proton
      /\ status.settings.mode \in Mode
  BY DEF WindowInvariant, ControllerTypeOK, ViewType, Settings
<1>2. Idle => ~ op.optimistic /\ FreshIn(catalog, status)
  BY DEF WindowInvariant
<1>3. CASE UpdateSelection
  <2>1. PICK s : /\ \/ \E i \in FirstHop : s = [status EXCEPT !.settings.firstHop = i]
                    \/ \E i \in Proton : s = [status EXCEPT !.settings.proton = i]
                 /\ Perform(Optimistic("selection",
                      <<SelectTask(s.settings.mode, s.settings.firstHop, s.settings.proton)>>,
                      status), s)
                 /\ Idle
    BY <1>1, <1>3 DEF UpdateSelection, NodesEnabled, ControlsEnabled
  <2>2. s \in ViewType
    BY <1>1, <2>1, SelectionsAreTasks
  <2>3. s.settings.mode \in Mode
    BY <2>2 DEF ViewType, Settings
  <2> DEFINE t == SelectTask(s.settings.mode, s.settings.firstHop, s.settings.proton)
             o == Optimistic("selection", <<t>>, status)
  <2>4. t \in Task
    BY <2>2, <2>3, SelectionsAreTasks
  <2>5. o \in Operation /\ o.name # "none" /\ o.tasks # <<>> /\ o.optimistic /\ o.previous = status
    <3> HIDE DEF t
    <3> QED
      BY <1>1, <2>4, PerformsOperations DEF Optimistic
  <2>6. OneSelection(o)
    BY DEF OneSelection, Optimistic, SelectTask
  <2> HIDE DEF o
  <2> QED
    BY <1>2, <1>3, <2>1, <2>2, <2>5, <2>6, PerformStep DEF UpdateSelection, o
<1>4. ASSUME NEW name \in {"import", "delete", "connect", "disconnect"},
             NEW tasks \in Seq(Task), tasks # <<>>,
             NEW next \in {<<>>, <<"mode">>, <<"import", "mode">>},
             Perform(Plain(name, tasks, next), status), Idle,
             UNCHANGED <<service, loading, load, poll, test>>
      PROVE  WindowInvariant'
  <2> DEFINE o == Plain(name, tasks, next)
  <2>1. o \in Operation
    BY PerformsOperations
  <2>2. o.name # "none" /\ o.tasks # <<>> /\ ~ o.optimistic /\ OneSelection(o)
    BY <1>4 DEF Plain, OneSelection
  <2> HIDE DEF o
  <2> QED
    BY <1>1, <1>2, <1>4, <2>1, <2>2, PerformStep DEF o
<1>5. CASE ImportConfigs
  <2>1. PICK role \in Role : Perform(Plain("import", <<ImportTask(role)>>, <<>>), status)
    BY <1>5 DEF ImportConfigs
  <2>2. ImportTask(role) \in Task
    BY PerformsOperations
  <2>3. <<ImportTask(role)>> \in Seq(Task) /\ <<ImportTask(role)>> # <<>>
    BY <2>2
  <2>4. Idle
    BY <1>5 DEF ImportConfigs, NodesEnabled, ControlsEnabled
  <2> QED
    BY <1>4, <1>5, <2>1, <2>3, <2>4 DEF ImportConfigs
<1>6. CASE DeleteProfile
  <2>1. PICK r \in Request :
          r.command = "delete" /\ Perform(Plain("delete", <<r>>, <<>>), status)
    BY <1>6 DEF DeleteProfile
  <2>2. r \in Task
    BY <2>1 DEF Task
  <2>3. <<r>> \in Seq(Task) /\ <<r>> # <<>>
    BY <2>2
  <2>4. Idle
    BY <1>6 DEF DeleteProfile, ControlsEnabled
  <2> QED
    BY <1>4, <1>6, <2>1, <2>3, <2>4 DEF DeleteProfile
<1>7. CASE ConnectClicked
  <2>1. Validate \in Task /\ ConnectTask \in Task
    BY PerformsOperations
  <2>2. <<Validate, ConnectTask>> \in Seq(Task) /\ <<Validate, ConnectTask>> # <<>>
    BY <2>1
  <2> QED
    BY <1>4, <1>7, <2>2 DEF ConnectClicked
<1>8. <<DisconnectTask>> \in Seq(Task) /\ <<DisconnectTask>> # <<>>
  <2>1. DisconnectTask \in Task
    BY PerformsOperations
  <2> QED
    BY <2>1
<1>9. CASE DisconnectClicked
  BY <1>4, <1>8, <1>9 DEF DisconnectClicked, ControlsEnabled
<1>10. ASSUME NEW mode \in Mode, SwitchMode(mode)
       PROVE  WindowInvariant'
  <2>1. Idle /\ UNCHANGED <<service, loading, load, poll, test>>
    BY <1>10 DEF SwitchMode, ControlsEnabled
  <2>2. CASE Perform(Plain("disconnect", <<DisconnectTask>>, <<"import", "mode">>), status)
    BY <1>4, <1>8, <2>1, <2>2
  <2>3. CASE Perform(Plain("import", <<ImportTask("proton")>>, <<"mode">>), status)
    <3>1. ImportTask("proton") \in Task
      BY PerformsOperations DEF Role
    <3>2. <<ImportTask("proton")>> \in Seq(Task) /\ <<ImportTask("proton")>> # <<>>
      BY <3>1
    <3> QED
      BY <1>4, <2>1, <2>3, <3>2
  <2>4. CASE Perform(ModeOperation(mode, status), ModeStatus(mode, status))
    BY <1>1, <1>2, <2>1, <2>4, ModeStep
  <2> QED
    BY <1>10, <2>2, <2>3, <2>4 DEF SwitchMode
<1>11. CASE TestDelays
  <2>1. /\ UNCHANGED <<service, window, load, poll, call>>
        /\ test' \in [phase : {"idle", "sent", "answered"}, shown : BOOLEAN]
    BY <1>11 DEF TestDelays
  <2> QED
    BY <2>1, WindowStep DEF WindowInvariant, ControllerTypeOK, window, Idle
<1> QED
  BY <1>3, <1>5, <1>6, <1>7, <1>9, <1>10, <1>11 DEF Click

\* A call the service has executed brings back a fresh view.
LEMMA ServedStep ==
  ASSUME WindowInvariant, [Next]_service, UNCHANGED window,
         load' = load \/ load' \in {Answered(View'), Failed},
         poll' = poll \/ poll' \in {Answered(View'), Failed},
         call' = call \/ (call.phase # "idle" /\ call' \in {Answered(View'), Failed}),
         test' \in [phase : {"idle", "sent", "answered"}, shown : BOOLEAN]
  PROVE  WindowInvariant'
<1>1. /\ CatalogInvariant' /\ Blank'
      /\ \A v \in ViewType : FreshIn(catalog, v) => FreshIn(catalog', v)
  BY ServiceStep DEF WindowInvariant
<1>2. status' = status /\ loading' = loading /\ op' = op
  BY DEF window
<1>3. /\ View' \in ViewType /\ FreshIn(catalog', View')
      /\ InitialStatus \in ViewType /\ FreshIn(catalog', InitialStatus)
  <2>1. catalog' \in Settings /\ shown' \in Shown
    BY <1>1 DEF CatalogInvariant, CatalogTypeOK
  <2>2. ~ Configured(catalog') => catalog' = Unconfigured
    BY <1>1 DEF Blank, Configured
  <2>3. View' = [settings |-> catalog', runtime |-> shown']
    BY DEF View
  <2> QED
    BY <2>1, <2>2, <2>3, ViewsAreFresh
<1>4. /\ Answered(View') \in Call /\ Answered(View').view = View'
      /\ Answered(View').phase = "answered"
      /\ Failed \in Call /\ Failed.view = InitialStatus /\ Failed.phase = "failed"
  BY <1>3 DEF Answered, Failed, Call
<1>5. /\ load \in Call /\ poll \in Call /\ call \in Call
      /\ load.view \in ViewType /\ poll.view \in ViewType /\ call.view \in ViewType
      /\ status \in ViewType /\ op \in Operation /\ op.previous \in ViewType
  BY DEF WindowInvariant, ControllerTypeOK, Call, Operation
<1>6. load' \in Call /\ FreshIn(catalog', load'.view)
  BY <1>1, <1>3, <1>4, <1>5 DEF WindowInvariant
<1>7. poll' \in Call /\ FreshIn(catalog', poll'.view)
  BY <1>1, <1>3, <1>4, <1>5 DEF WindowInvariant
<1>8. /\ call' \in Call /\ FreshIn(catalog', call'.view)
      /\ (call'.phase = "idle") <=> (call.phase = "idle")
  BY <1>1, <1>3, <1>4, <1>5 DEF WindowInvariant
<1>9. ControllerTypeOK'
  BY <1>1, <1>2, <1>5, <1>6, <1>7, <1>8
     DEF WindowInvariant, ControllerTypeOK, CatalogInvariant, Idle
<1>10. /\ (op.optimistic => FreshIn(catalog, op.previous))'
       /\ (~ op.optimistic => FreshIn(catalog, status))'
       /\ (Idle => ~ op.optimistic)'
       /\ OneSelection(op)'
  <2>1. /\ op.optimistic => FreshIn(catalog', op.previous)
        /\ ~ op.optimistic => FreshIn(catalog', status)
        /\ Idle => ~ op.optimistic
        /\ OneSelection(op)
    BY <1>1, <1>5 DEF WindowInvariant
  <2> QED
    BY <1>2, <2>1 DEF FreshIn, Idle, OneSelection
<1>11. /\ FreshIn(catalog, load.view)' /\ FreshIn(catalog, poll.view)'
       /\ FreshIn(catalog, call.view)'
  BY <1>6, <1>7, <1>8 DEF FreshIn
<1> QED
  BY <1>1, <1>9, <1>10, <1>11 DEF WindowInvariant

\* The steps of the service keep the invariant.
LEMMA ServeSteps ==
  ASSUME WindowInvariant,
         \/ ServeOperation \/ ServeLoad \/ ServePoll \/ ServeTest
         \/ CoreExits /\ UNCHANGED <<window, calls>>
  PROVE  WindowInvariant' /\ [Next]_service
<1> USE DEF calls
<1>1. /\ op \in Operation
      /\ test \in [phase : {"idle", "sent", "answered"}, shown : BOOLEAN]
      /\ Idle <=> op.tasks = <<>>
  BY DEF WindowInvariant, ControllerTypeOK
<1>2. CASE ServeOperation
  <2>1. Head(op.tasks) \in Task
    BY <1>1, <1>2 DEF ServeOperation, Operation
  <2>2. [Next]_service
    BY <1>2, <2>1, ServeIsStep DEF ServeOperation
  <2>3. call.phase # "idle" /\ call' \in {Answered(View'), Failed}
    BY <1>2 DEF ServeOperation, Serve
  <2> QED
    BY <1>1, <1>2, <2>2, <2>3, ServedStep DEF ServeOperation
<1>3. CASE ServeLoad
  <2>1. [Next]_service /\ load' \in {Answered(View'), Failed}
    BY <1>3 DEF ServeLoad, Serve, Next
  <2> QED
    BY <1>1, <1>3, <2>1, ServedStep DEF ServeLoad
<1>4. CASE ServePoll
  <2>1. [Next]_service /\ poll' \in {Answered(View'), Failed}
    BY <1>4 DEF ServePoll, Serve, Next
  <2> QED
    BY <1>1, <1>4, <2>1, ServedStep DEF ServePoll
<1>5. CASE ServeTest
  <2>1. [Next]_service
    BY <1>5 DEF ServeTest, Next
  <2>2. test' \in [phase : {"idle", "sent", "answered"}, shown : BOOLEAN]
    BY <1>1, <1>5 DEF ServeTest
  <2> QED
    BY <1>5, <2>1, <2>2, ServedStep DEF ServeTest
<1>6. CASE CoreExits /\ UNCHANGED <<window, calls>>
  <2>1. [Next]_service
    BY <1>6 DEF Next
  <2> QED
    BY <1>1, <1>6, <2>1, ServedStep
<1> QED
  BY <1>2, <1>3, <1>4, <1>5, <1>6

\* Answers, the timer and a cancelled file dialog keep the invariant.
LEMMA AnswerStep ==
  ASSUME WindowInvariant, Answer \/ ImportCancelled \/ PollDue
  PROVE  WindowInvariant'
<1>1. /\ status \in ViewType /\ loading \in BOOLEAN /\ op \in Operation
      /\ load \in Call /\ poll \in Call /\ call \in Call
      /\ load.view \in ViewType /\ poll.view \in ViewType /\ call.view \in ViewType
      /\ op.previous \in ViewType
      /\ test \in [phase : {"idle", "sent", "answered"}, shown : BOOLEAN]
      /\ (op.name = "none") <=> (call.phase = "idle")
      /\ (op.name = "none") <=> (op.tasks = <<>>)
      /\ (op.name = "none") => ~ op.optimistic
      /\ op.tasks \in Seq(Task)
      /\ op.next \in {<<>>, <<"mode">>, <<"import", "mode">>}
  BY DEF WindowInvariant, ControllerTypeOK, Call, Operation, Idle
<1>2. /\ FreshIn(catalog, load.view) /\ FreshIn(catalog, poll.view)
      /\ FreshIn(catalog, call.view)
      /\ op.optimistic => FreshIn(catalog, op.previous)
      /\ ~ op.optimistic => FreshIn(catalog, status)
      /\ OneSelection(op)
  BY DEF WindowInvariant
<1>3. InitialStatus \in ViewType /\ FreshIn(catalog, InitialStatus)
  BY ViewsAreFresh DEF WindowInvariant, CatalogInvariant, CatalogTypeOK, Blank
<1>4. /\ NoCall \in Call /\ NoCall.phase = "idle" /\ FreshIn(catalog, NoCall.view)
      /\ Sent \in Call /\ Sent.phase = "sent" /\ FreshIn(catalog, Sent.view)
  BY <1>3 DEF NoCall, Sent, Call
<1>5. /\ NoOperation \in Operation /\ NoOperation.name = "none"
      /\ NoOperation.tasks = <<>> /\ ~ NoOperation.optimistic
      /\ OneSelection(NoOperation)
  BY NoOperationIsOne
<1>6. CASE NextCommand
  <2>1. op' = [op EXCEPT !.tasks = Tail(op.tasks)] /\ call' = Sent
    BY <1>6 DEF NextCommand
  <2>2. op.name # "none" /\ Tail(op.tasks) \in Seq(Task) /\ Tail(op.tasks) # <<>>
    <3> DEFINE s == op.tasks
    <3>1. s \in Seq(Task) /\ Len(s) > 1 /\ op.name # "none"
      BY <1>1, <1>6 DEF NextCommand
    <3> HIDE DEF s
    <3>2. Tail(s) \in Seq(Task) /\ Len(Tail(s)) > 0
      BY <3>1
    <3>3. ASSUME NEW q, Len(q) > 0
          PROVE  q # <<>>
      BY <3>3
    <3>4. Tail(s) # <<>>
      BY <3>2, <3>3, Zenon
    <3> QED
      BY <3>1, <3>2, <3>4 DEF s
  <2>3. /\ op' \in Operation /\ op'.name = op.name /\ op'.tasks = Tail(op.tasks)
        /\ op'.optimistic = op.optimistic /\ op'.previous = op.previous
    BY <1>1, <2>1, <2>2 DEF Operation
  <2>4. OneSelection(op')
    BY <1>1, <1>2, <1>6, <2>3 DEF OneSelection, NextCommand
  <2> QED
    BY <1>1, <1>2, <1>4, <1>6, <2>1, <2>2, <2>3, <2>4, WindowStep DEF NextCommand
<1>7. CASE OperationSucceeds
  <2>1. /\ UNCHANGED <<service, loading, load, poll, test>>
        /\ call.view \in ViewType /\ FreshIn(catalog, call.view)
    BY <1>1, <1>2, <1>7 DEF OperationSucceeds
  <2>2. CASE op.next = <<>>
    <3>1. op' = NoOperation /\ call' = NoCall /\ status' = call.view
      BY <1>7, <2>2 DEF OperationSucceeds
    <3> QED
      BY <1>1, <1>2, <1>4, <1>5, <2>1, <3>1, WindowStep
  <2>3. CASE op.next = <<"import", "mode">>
    <3> DEFINE o == Plain("import", <<ImportTask("proton")>>, <<"mode">>)
    <3>1. Perform(o, call.view)
      BY <1>7, <2>3 DEF OperationSucceeds
    <3>2. ImportTask("proton") \in Task
      BY PerformsOperations DEF Role
    <3>3. o \in Operation
      <4>1. <<ImportTask("proton")>> \in Seq(Task)
        BY <3>2
      <4> QED
        BY <4>1, PerformsOperations
    <3>4. o.name # "none" /\ o.tasks # <<>> /\ ~ o.optimistic /\ OneSelection(o)
      BY DEF Plain, OneSelection
    <3> HIDE DEF o
    <3> QED
      BY <2>1, <3>1, <3>3, <3>4, PerformStep
  <2>4. CASE op.next = <<"mode">>
    <3>1. Perform(ModeOperation("double", call.view), ModeStatus("double", call.view))
      BY <1>7, <2>4 DEF OperationSucceeds
    <3> QED
      BY <2>1, <3>1, ModeStep DEF Mode
  <2> QED
    BY <1>1, <2>2, <2>3, <2>4
<1>8. CASE OperationFails
  <2>1. status' \in ViewType /\ FreshIn(catalog, status')
    BY <1>1, <1>2, <1>8 DEF OperationFails, RestoreStatus
  <2> QED
    BY <1>1, <1>2, <1>4, <1>5, <1>8, <2>1, WindowStep DEF OperationFails
<1>9. CASE ImportCancelled
  <2>1. ~ op.optimistic
    BY <1>2, <1>9 DEF ImportCancelled, OneSelection
  <2> QED
    BY <1>1, <1>2, <1>4, <1>5, <1>9, <2>1, WindowStep DEF ImportCancelled
<1>10. CASE Loaded
  <2>1. status' \in ViewType /\ (~ op.optimistic => FreshIn(catalog, status'))
    BY <1>1, <1>2, <1>10 DEF Loaded
  <2> QED
    BY <1>1, <1>2, <1>4, <1>10, <2>1, WindowStep DEF Loaded
<1>11. CASE Polled
  <2>1. status' \in ViewType /\ (~ op.optimistic => FreshIn(catalog, status'))
    BY <1>1, <1>2, <1>11 DEF Polled
  <2> QED
    BY <1>1, <1>2, <1>4, <1>11, <2>1, WindowStep DEF Polled
<1>12. CASE Tested
  BY <1>1, <1>2, <1>12, WindowStep DEF Tested, NoTest, window
<1>13. CASE PollDue
  BY <1>1, <1>2, <1>4, <1>13, WindowStep DEF PollDue, window
<1> QED
  BY <1>6, <1>7, <1>8, <1>9, <1>10, <1>11, <1>12, <1>13 DEF Answer

\* No click, no answer in whatever order and no step of the service breaks the
\* invariant, and the service only ever takes its own steps.
LEMMA ControllerStep ==
  WindowInvariant /\ [ControllerNext]_vars => WindowInvariant' /\ [Next]_service
<1> SUFFICES ASSUME WindowInvariant, [ControllerNext]_vars
             PROVE  WindowInvariant' /\ [Next]_service
  OBVIOUS
<1>1. CASE Click
  <2>1. UNCHANGED service
    BY <1>1 DEF Click, UpdateSelection, ImportConfigs, DeleteProfile, ConnectClicked,
                DisconnectClicked, SwitchMode, TestDelays
  <2> QED
    BY <1>1, <2>1, ClickStep
<1>2. CASE Answer \/ ImportCancelled \/ PollDue
  <2>1. UNCHANGED service
    BY <1>2 DEF Answer, ImportCancelled, PollDue, NextCommand, OperationSucceeds,
                OperationFails, Loaded, Polled, Tested
  <2> QED
    BY <1>2, <2>1, AnswerStep
<1>3. CASE \/ ServeOperation \/ ServeLoad \/ ServePoll \/ ServeTest
           \/ CoreExits /\ UNCHANGED <<window, calls>>
  BY <1>3, ServeSteps
<1>4. CASE UNCHANGED vars
  <2>1. /\ UNCHANGED service /\ status' = status /\ loading' = loading /\ op' = op
        /\ load' = load /\ poll' = poll /\ test' = test /\ call' = call
    BY <1>4 DEF vars, window, calls
  <2>2. WindowInvariant'
    BY <2>1, WindowStep DEF WindowInvariant, ControllerTypeOK, Idle
  <2> QED
    BY <2>1, <2>2
<1> QED
  BY <1>1, <1>2, <1>3, <1>4 DEF ControllerNext

\* The window opens on an unconfigured status with its first load sent.
LEMMA ControllerStart == ControllerInit => WindowInvariant
<1> SUFFICES ASSUME ControllerInit
             PROVE  WindowInvariant
  OBVIOUS
<1>1. CatalogInvariant /\ Blank /\ catalog = Unconfigured
  BY CatalogInit DEF ControllerInit, Init, Blank
<1>2. InitialStatus \in ViewType /\ FreshIn(catalog, InitialStatus)
  BY <1>1, ViewsAreFresh DEF CatalogInvariant, CatalogTypeOK
<1>3. /\ NoOperation \in Operation /\ NoOperation.name = "none"
      /\ NoOperation.tasks = <<>> /\ ~ NoOperation.optimistic
      /\ OneSelection(NoOperation)
  BY NoOperationIsOne
<1>4. /\ NoCall \in Call /\ NoCall.phase = "idle" /\ NoCall.view = InitialStatus
      /\ Sent \in Call /\ Sent.view = InitialStatus
  BY <1>2 DEF NoCall, Sent, Call
<1>5. ControllerTypeOK
  BY <1>1, <1>2, <1>3, <1>4
     DEF ControllerInit, ControllerTypeOK, CatalogInvariant, Idle, NoTest
<1> QED
  BY <1>1, <1>2, <1>3, <1>4, <1>5 DEF ControllerInit, WindowInvariant, Idle

\* In every reachable state the invariant holds.
LEMMA WindowInvariantHolds == ControllerSpec => []WindowInvariant
<1>1. ControllerInit => WindowInvariant
  BY ControllerStart
<1>2. WindowInvariant /\ [ControllerNext]_vars => WindowInvariant'
  BY ControllerStep
<1> QED
  BY <1>1, <1>2, PTL DEF ControllerSpec

\* Screen, operation and calls are well formed: an operation is in progress
\* exactly while it has a call and commands to run.
THEOREM WindowIsWellFormed == ControllerSpec => []ControllerTypeOK
<1>1. WindowInvariant => ControllerTypeOK
  BY DEF WindowInvariant
<1> QED
  BY <1>1, WindowInvariantHolds, PTL

\* Whatever fails and however late answers come, a screen with the current
\* revision shows its settings once the operation is over.
THEOREM ScreenShowsWhatWasSaved == ControllerSpec => []RevisionIdentifiesStatus
<1>1. WindowInvariant => RevisionIdentifiesStatus
  BY DEF WindowInvariant, FreshIn, RevisionIdentifiesStatus
<1> QED
  BY <1>1, WindowInvariantHolds, PTL

\* The window with its service implements the service: whatever holds of
\* AppCatalog holds behind the window.
THEOREM WindowImplementsCatalog == ControllerSpec => Spec
<1>1. ControllerInit => Init
  BY DEF ControllerInit
<1>2. WindowInvariant /\ [ControllerNext]_vars => [Next]_service
  BY ControllerStep
<1> QED
  BY <1>1, <1>2, WindowInvariantHolds, PTL DEF ControllerSpec, Spec
============================================================================
