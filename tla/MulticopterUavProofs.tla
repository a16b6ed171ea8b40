------------------------ MODULE MulticopterUavProofs ------------------------
(***************************************************************************)
(* Theorems about MulticopterUav, for every MaxErrors, Channels and Burst. *)
(*                                                                         *)
(* The invariants of MulticopterUav are not inductive one by one: that the *)
(* right command is awaited in the next state depends on the data carried, *)
(* that a procedure ends on an open interface on the wait being armed.     *)
(* Their conjunction is, with one addition, DataMatchesAction.  CoreInv    *)
(* groups it by what it is about: the object, its waits, its listener.     *)
(*                                                                         *)
(* The second half is about what MulticopterUav tells: its monitor, of the *)
(* session and of the data that arrived, and the board of that data too;   *)
(* what it keeps of its waits while it tells nothing; and the types of all *)
(* of it.  Everything there follows from CoreInv, step by step.            *)
(***************************************************************************)
EXTENDS MulticopterUav, TLAPS

(* The constructors of the two payload actions threw for any other data.   *)
DataMatchesAction ==
    /\ act = "UPLOAD_SIGNAL_PAYLOAD" => UploadCommand(data) # "DUMMY"
    /\ act = "DOWNLOAD_SIGNAL_PAYLOAD" => DownloadCommand(data) # "DUMMY"

ObjectInv   == ObjectOK /\ DataMatchesAction /\ EveryChannelIsCalibrated
WaitInv     == /\ ProcedureOK /\ SignalWaitsAreArmed
               /\ PayloadWaitsAreArmed /\ TimeoutIsAwaited
ListenerInv == ListenerOK /\ TasksMatchAction /\ LinkMatchesAction
CoreInv     == ObjectInv /\ WaitInv /\ ListenerInv

(* The channels calibrated so far allow the object to be in state s.       *)
ChannelsAllow(s) ==
    act = "RADIO_CALIB" =>
      /\ s \in {"INITIAL_COMMAND", "CALIBRATION_COMMAND",
               "CALIBRATION_RESPONSE", "BREAKING"}
           => current < Channels
      /\ s \in {"CHECK", "FINAL_COMMAND", "CALIBRATION_RECEPTION"}
           => current = Channels
-----------------------------------------------------------------------------
(***************************************************************************)
(* Facts about one state.                                                  *)
(***************************************************************************)

(* Whatever an action begins with is a command of the protocol.            *)
LEMMA CommandsAreCommands ==
  ASSUME NEW t, NEW d
  PROVE  ActionCommand(t, d) \in Commands
BY DEF ActionCommand, UploadCommand, DownloadCommand, Commands

(* So is whatever a state waits for.                                       *)
LEMMA AwaitedIsCommand ==
  ASSUME ObjectInv, NEW s \in StatesOf(act)
  PROVE  AwaitedSignal(act, s, data) \in Commands
<1>1. CASE s = "UPLOAD"
  <2>1. act = "UPLOAD_SIGNAL_PAYLOAD"
    BY <1>1 DEF ObjectInv, ObjectOK, StatesOf, ActionTypes
  <2>2. data \in PayloadCommands
    BY <2>1 DEF ObjectInv, ObjectOK, DataMatchesAction, UploadCommand
  <2> QED BY <1>1, <2>1, <2>2 DEF AwaitedSignal, PayloadCommands, Commands
<1>2. CASE s # "UPLOAD"
  BY <1>2, CommandsAreCommands DEF AwaitedSignal, Commands
<1> QED BY <1>1, <1>2

(* An action that waits for the board, or flies, has the interface open.   *)
LEMMA LinkIsOpen ==
  ASSUME CoreInv, act # "IDLE_ACTION", state # "IDLE"
  PROVE  link = "open"
BY DEF CoreInv, ListenerInv, LinkMatchesAction, LinkOf

(* The state an action starts in is one of its own.                        *)
LEMMA StartStateIsState ==
  ASSUME NEW t \in ActionTypes
  PROVE  StartState(t) \in StatesOf(t)
BY DEF StartState, StatesOf, ActionTypes
-----------------------------------------------------------------------------
(***************************************************************************)
(* A new object.                                                           *)
(***************************************************************************)
LEMMA BeginObject ==
  ASSUME NEW t \in ActionTypes, NEW d \in PayloadCommands \cup {"none"},
         t = "UPLOAD_SIGNAL_PAYLOAD" => UploadCommand(d) # "DUMMY",
         t = "DOWNLOAD_SIGNAL_PAYLOAD" => DownloadCommand(d) # "DUMMY",
         Begin(t, d)
  PROVE  ObjectInv'
<1>1. act' = t /\ state' = StartState(t) /\ data' = d
  BY DEF Begin, Construct
<1>2. current' \in 0..Channels /\ retrans' \in 0..(MaxErrors - 1)
  BY LimitsAssumption DEF LimitsAssumption, Begin, Construct
<1>3. nonStatic' \in BOOLEAN /\ breaking' \in BOOLEAN
  BY DEF Begin, Construct
<1>4. ObjectOK'
  BY <1>1, <1>2, <1>3, StartStateIsState DEF ObjectOK
<1>5. DataMatchesAction'
  BY <1>1 DEF DataMatchesAction
<1>6. EveryChannelIsCalibrated'
  BY <1>1, LimitsAssumption
  DEF LimitsAssumption, Begin, Construct, EveryChannelIsCalibrated, StartState
<1> QED BY <1>4, <1>5, <1>6 DEF ObjectInv

LEMMA BeginWaits ==
  ASSUME NEW t \in ActionTypes, NEW d \in PayloadCommands \cup {"none"},
         Begin(t, d)
  PROVE  WaitInv'
<1>1. ProcedureOK'
  BY LimitsAssumption, CommandsAreCommands
  DEF LimitsAssumption, Begin, Construct, ProcedureOK, StartParameter, Parameters
<1>2. SignalWaitsAreArmed'
  BY DEF Begin, Construct, SignalWaitsAreArmed, SignalState, AwaitedSignal,
         StartState, Loops, ActionTypes
<1>3. PayloadWaitsAreArmed'
  BY DEF Begin, Construct, PayloadWaitsAreArmed, DataState, StartState, Undef
<1>4. TimeoutIsAwaited'
  BY DEF Begin, Construct, TimeoutIsAwaited
<1> QED BY <1>1, <1>2, <1>3, <1>4 DEF WaitInv

(* The next object starts on the interface the last one leaves open, with  *)
(* its own tasks and no other.                                             *)
LEMMA StartListens ==
  ASSUME CoreInv, act # "IDLE_ACTION", state # "IDLE",
         NEW t \in ActionTypes \ {"IDLE_ACTION"}, NEW d, NEW before,
         act \in {"APP", "FLIGHT_INITIALIZATION"} \/ t = "APP",
         StartAction(t, d, before), UNCHANGED link
  PROVE  ListenerInv'
<1>1. act' = t /\ state' = StartState(t) /\ link' = "open"
  BY LinkIsOpen DEF StartAction, Begin, Construct
<1>2. LinkMatchesAction' /\ ListenerOK'
  BY <1>1 DEF CoreInv, ListenerInv, ListenerOK, LinkMatchesAction, LinkOf, StartAction,
              StartTasks, StartState
<1>3. tasks' = StartTasks(t)
  BY DEF CoreInv, ListenerInv, TasksMatchAction, TasksOf, StartAction, StartTasks
<1>4. StartTasks(t) = TasksOf(t, StartState(t))
  BY DEF TasksOf, StartTasks, StartState, ActionTypes
<1> QED BY <1>1, <1>2, <1>3, <1>4 DEF ListenerInv, TasksMatchAction

LEMMA StartKeeps ==
  ASSUME CoreInv, act # "IDLE_ACTION", state # "IDLE",
         NEW t \in ActionTypes \ {"IDLE_ACTION"},
         NEW d \in PayloadCommands \cup {"none"}, NEW before,
         t = "UPLOAD_SIGNAL_PAYLOAD" => UploadCommand(d) # "DUMMY",
         t = "DOWNLOAD_SIGNAL_PAYLOAD" => DownloadCommand(d) # "DUMMY",
         act \in {"APP", "FLIGHT_INITIALIZATION"} \/ t = "APP",
         StartAction(t, d, before), UNCHANGED link
  PROVE  CoreInv'
<1>1. Begin(t, d)
  BY DEF StartAction
<1>2. ObjectInv' /\ WaitInv'
  BY <1>1, BeginObject, BeginWaits
<1>3. ListenerInv'
  BY StartListens
<1> QED BY <1>2, <1>3 DEF CoreInv

LEMMA ToAppKeeps ==
  ASSUME CoreInv, act # "IDLE_ACTION", state # "IDLE", ToApp
  PROVE  CoreInv'
BY StartKeeps DEF ToApp, ActionTypes

LEMMA DeliverToAppKeeps ==
  ASSUME CoreInv, act # "IDLE_ACTION", state # "IDLE", NEW c, DeliverToApp(c)
  PROVE  CoreInv'
BY StartKeeps DEF DeliverToApp, ActionTypes

LEMMA ToIdleKeeps ==
  ASSUME CoreInv, ToIdle
  PROVE  CoreInv'
<1>1. Begin("IDLE_ACTION", "none")
  BY DEF ToIdle
<1>2. ObjectInv' /\ WaitInv'
  BY <1>1, BeginObject, BeginWaits DEF ActionTypes
<1>3. ListenerInv'
  BY <1>1 DEF ToIdle, Begin, Construct, CoreInv, ListenerInv, ListenerOK,
              TasksMatchAction, TasksOf, LinkMatchesAction, LinkOf
<1> QED BY <1>2, <1>3 DEF CoreInv
-----------------------------------------------------------------------------
(***************************************************************************)
(* A move of the same object to another state s, by the wait s begins.     *)
(***************************************************************************)

(* What any move keeps, whichever wait follows.                            *)
LEMMA MoveKeeps ==
  ASSUME CoreInv, act # "IDLE_ACTION", state # "IDLE",
         NEW s \in StatesOf(act) \ {"IDLE"}, Goto(s), ChannelsAllow(s),
         tasks' = TasksOf(act, s), UNCHANGED link
  PROVE  ObjectInv' /\ ListenerInv'
<1>1. ObjectOK' /\ DataMatchesAction'
  BY DEF CoreInv, ObjectInv, ObjectOK, DataMatchesAction, Goto, extras
<1>2. EveryChannelIsCalibrated'
  BY DEF ChannelsAllow, EveryChannelIsCalibrated, Goto, extras
<1>3. act' = act /\ state' = s /\ link' = "open"
  BY LinkIsOpen DEF Goto
<1>4. ListenerOK' /\ LinkMatchesAction'
  BY <1>3 DEF CoreInv, ListenerInv, ListenerOK, TasksOf, LinkMatchesAction, LinkOf
<1>5. TasksMatchAction'
  BY <1>3 DEF TasksMatchAction
<1> QED BY <1>1, <1>2, <1>4, <1>5 DEF ObjectInv, ListenerInv

LEMMA SignalWaitBegins ==
  ASSUME CoreInv, NEW s \in StatesOf(act), SignalState(act, s),
         act' = act, state' = s, data' = data,
         AwaitSignal(AwaitedSignal(act, s, data))
  PROVE  WaitInv'
<1>1. ProcedureOK'
  BY AwaitedIsCommand
  DEF CoreInv, ObjectInv, WaitInv, ProcedureOK, AwaitSignal, Parameters
<1>2. SignalWaitsAreArmed'
  BY DEF SignalWaitsAreArmed, AwaitSignal
<1>3. ~DataState(s)
  <2>1. SUFFICES ASSUME DataState(s) PROVE FALSE
    OBVIOUS
  <2> QED BY <2>1 DEF SignalState, DataState
<1>4. PayloadWaitsAreArmed' /\ TimeoutIsAwaited'
  BY <1>3 DEF PayloadWaitsAreArmed, TimeoutIsAwaited, AwaitSignal, DataState
<1> QED BY <1>1, <1>2, <1>4 DEF WaitInv

LEMMA PayloadWaitBegins ==
  ASSUME CoreInv, NEW s \in StatesOf(act), DataState(s),
         act' = act, state' = s, data' = data,
         AwaitedPayload(act, s, data) \in PayloadCommands,
         AwaitPayload(AwaitedPayload(act, s, data))
  PROVE  WaitInv'
<1>1. ProcedureOK'
  <2>1. errors' \in 0..(MaxErrors - 1)
    BY LimitsAssumption DEF LimitsAssumption, AwaitPayload
  <2>2. payCmd' \in PayloadCommands
    BY DEF AwaitPayload
  <2> QED BY <2>1, <2>2 DEF ProcedureOK, AwaitPayload, Parameters, Commands
<1>2. SignalWaitsAreArmed'
  BY DEF SignalWaitsAreArmed, SignalState, AwaitPayload, DataState
<1>3. PayloadWaitsAreArmed' /\ TimeoutIsAwaited'
  BY LimitsAssumption
  DEF LimitsAssumption, PayloadWaitsAreArmed, TimeoutIsAwaited, AwaitPayload, DataState
<1> QED BY <1>1, <1>2, <1>3 DEF WaitInv

LEMMA UserWaitBegins ==
  ASSUME CoreInv, NEW s \in StatesOf(act),
         SignalState(act, s) => act = "DISCONNECT", ~DataState(s),
         act' = act, state' = s, data' = data, EndSignalTimeout
  PROVE  WaitInv'
<1>1. ProcedureOK'
  BY DEF CoreInv, WaitInv, ProcedureOK, EndSignalTimeout, Parameters, Commands
<1>2. SignalWaitsAreArmed' /\ PayloadWaitsAreArmed' /\ TimeoutIsAwaited'
  BY DEF SignalWaitsAreArmed, PayloadWaitsAreArmed, TimeoutIsAwaited, EndSignalTimeout,
         DataState
<1> QED BY <1>1, <1>2 DEF WaitInv

LEMMA SendBeginsWait ==
  ASSUME CoreInv, NEW s \in StatesOf(act), SignalState(act, s), ~DataState(state),
         AwaitedSignal(act, s, data) = ActionCommand(act, data),
         act' = act, state' = s, data' = data,
         NEW p \in Parameters, SendSignal(p)
  PROVE  WaitInv'
<1>1. ProcedureOK'
  BY CommandsAreCommands DEF CoreInv, WaitInv, ProcedureOK, SendSignal
<1>2. SignalWaitsAreArmed'
  BY DEF SignalWaitsAreArmed, SendSignal
<1>3. PayloadWaitsAreArmed' /\ TimeoutIsAwaited'
  BY DEF CoreInv, WaitInv, PayloadWaitsAreArmed, TimeoutIsAwaited, SendSignal, DataState,
         SignalState
<1> QED BY <1>1, <1>2, <1>3 DEF WaitInv

(* The four moves, as the handlers make them.                              *)
MovesTo(s) ==
    /\ act # "IDLE_ACTION" /\ state # "IDLE"
    /\ s \in StatesOf(act) \ {"IDLE"} /\ ChannelsAllow(s)
    /\ Goto(s) /\ tasks' = TasksOf(act, s) /\ UNCHANGED link

LEMMA MoveToSignal ==
  ASSUME CoreInv, NEW s, MovesTo(s), SignalState(act, s), NEW c,
         AwaitSignal(c), c = AwaitedSignal(act, s, data)
  PROVE  CoreInv'
BY MoveKeeps, SignalWaitBegins DEF MovesTo, Goto, CoreInv

LEMMA MoveToPayload ==
  ASSUME CoreInv, NEW s, MovesTo(s), DataState(s), NEW c \in PayloadCommands,
         AwaitPayload(c), c = AwaitedPayload(act, s, data)
  PROVE  CoreInv'
BY MoveKeeps, PayloadWaitBegins DEF MovesTo, Goto, CoreInv

LEMMA MoveToUser ==
  ASSUME CoreInv, NEW s, MovesTo(s), EndSignalTimeout, ~DataState(s),
         SignalState(act, s) => act = "DISCONNECT"
  PROVE  CoreInv'
BY MoveKeeps, UserWaitBegins DEF MovesTo, Goto, CoreInv

LEMMA MoveBySending ==
  ASSUME CoreInv, NEW s, MovesTo(s), SignalState(act, s), ~DataState(state),
         AwaitedSignal(act, s, data) = ActionCommand(act, data),
         NEW p \in Parameters, SendSignal(p)
  PROVE  CoreInv'
BY MoveKeeps, SendBeginsWait DEF MovesTo, Goto, CoreInv

LEMMA TasksAre ==
  ASSUME CoreInv
  PROVE  tasks = TasksOf(act, state)
BY DEF CoreInv, ListenerInv, TasksMatchAction
-----------------------------------------------------------------------------
(***************************************************************************)
(* The handlers of SessionActions.                                         *)
(***************************************************************************)
LEMMA ConnectKeeps ==
  ASSUME CoreInv, NEW p \in Parameters,
         ConnectAnswer(p) \/ ConnectNonStatic(p) \/ ConnectReady(p)
           \/ ConnectData(payCmd)
  PROVE  CoreInv'
<1>1. CASE ConnectAnswer(p)
  <2>1. CASE state = "INITIAL_COMMAND"
    <3>1. MovesTo("CALIBRATION") /\ AwaitSignal("CALIBRATION_SETTINGS")
      BY <1>1, <2>1, TasksAre
      DEF ConnectAnswer, Proceed, MovesTo, StatesOf, ChannelsAllow, TasksOf
    <3> QED BY <1>1, <3>1, MoveToSignal DEF ConnectAnswer, SignalState, AwaitedSignal
  <2>2. CASE state = "CALIBRATION"
    <3>1. MovesTo("CALIBRATION_RECEPTION") /\ AwaitPayload("CALIBRATION_SETTINGS")
      BY <1>1, <2>2, TasksAre
      DEF ConnectAnswer, Proceed, MovesTo, StatesOf, ChannelsAllow, TasksOf
    <3> QED BY <3>1, MoveToPayload DEF DataState, AwaitedPayload, PayloadCommands
  <2> QED BY <1>1, <2>1, <2>2 DEF ConnectAnswer
<1>2. CASE ConnectNonStatic(p)
  <2>1. WaitInv'
    BY <1>2, SignalWaitBegins
    DEF ConnectNonStatic, SignalState, AwaitedSignal, StatesOf
  <2>2. ObjectInv'
    BY <1>2 DEF ConnectNonStatic, CoreInv, ObjectInv, ObjectOK, DataMatchesAction,
                EveryChannelIsCalibrated
  <2>3. ListenerInv'
    BY <1>2 DEF ConnectNonStatic, CoreInv, ListenerInv, ListenerOK, TasksMatchAction,
                LinkMatchesAction
  <2> QED BY <2>1, <2>2, <2>3 DEF CoreInv
<1>3. CASE ConnectReady(p)
  BY <1>3, ToAppKeeps DEF ConnectReady
<1>4. CASE ConnectData(payCmd)
  <2>1. MovesTo("FINAL_COMMAND") /\ AwaitSignal("APP_LOOP")
    BY <1>4, TasksAre
    DEF ConnectData, MovesTo, StatesOf, ChannelsAllow, TasksOf
  <2> QED BY <1>4, <2>1, MoveToSignal DEF ConnectData, SignalState, AwaitedSignal
<1> QED BY <1>1, <1>2, <1>3, <1>4

LEMMA IdleUserKeeps ==
  ASSUME CoreInv, NEW e, NEW a, IdleUser(e, a)
  PROVE  CoreInv'
<1>1. PICK t \in {"CONNECT", "UPGRADE"} : PrepareAction(t)
  BY DEF IdleUser
<1>2. link' = "connecting" /\ act = "IDLE_ACTION"
  BY DEF IdleUser
<1>3. ObjectInv'
  <2>1. act' \in ActionTypes /\ state' \in StatesOf(act')
    BY <1>1 DEF PrepareAction, Construct, ActionTypes, StatesOf
  <2>2. current' \in 0..Channels /\ retrans' \in 0..(MaxErrors - 1)
    BY <1>1, LimitsAssumption DEF LimitsAssumption, PrepareAction, Construct
  <2> QED BY <1>1, <2>1, <2>2
          DEF PrepareAction, Construct, ObjectInv, ObjectOK, DataMatchesAction,
              EveryChannelIsCalibrated
<1>4. WaitInv'
  <2>1. errors' \in 0..(MaxErrors - 1)
    BY <1>1, LimitsAssumption DEF LimitsAssumption, PrepareAction, Construct
  <2>2. ProcedureOK'
    BY <1>1, <2>1 DEF PrepareAction, Construct, ProcedureOK, Parameters
  <2>3. SignalWaitsAreArmed' /\ PayloadWaitsAreArmed' /\ TimeoutIsAwaited'
    BY <1>1 DEF PrepareAction, Construct, SignalWaitsAreArmed, SignalState,
                PayloadWaitsAreArmed, DataState, TimeoutIsAwaited, Undef
  <2> QED BY <2>2, <2>3 DEF WaitInv
<1>5. ListenerInv'
  BY <1>1, <1>2, TasksAre
  DEF PrepareAction, Construct, ListenerInv, ListenerOK, TasksMatchAction, TasksOf,
      LinkMatchesAction, LinkOf
<1> QED BY <1>3, <1>4, <1>5 DEF CoreInv

LEMMA AppUserKeeps ==
  ASSUME CoreInv, NEW e, NEW a, AppUser(e, a)
  PROVE  CoreInv'
<1> USE DEF AppUser
<1>0. state # "IDLE"
  BY DEF CoreInv, ObjectInv, ObjectOK, StatesOf
<1>1. CASE a \in AppActions /\ StartAction(a, "none", <<>>)
  BY <1>0, <1>1, StartKeeps DEF AppActions, ActionTypes
<1>2. CASE UploadCommand(a) # "DUMMY" /\ StartAction("UPLOAD_SIGNAL_PAYLOAD", a, <<>>)
  <2>1. a \in PayloadCommands
    BY <1>2 DEF UploadCommand, PayloadCommands
  <2> QED BY <1>0, <1>2, <2>1, StartKeeps DEF ActionTypes
<1>3. CASE DownloadCommand(a) # "DUMMY" /\ StartAction("DOWNLOAD_SIGNAL_PAYLOAD", a, <<>>)
  <2>1. a \in PayloadCommands
    BY <1>3 DEF DownloadCommand, PayloadCommands
  <2> QED BY <1>0, <1>3, <2>1, StartKeeps DEF ActionTypes
<1> QED BY <1>1, <1>2, <1>3

(* Disconnect, Upgrade and Reset leave the session or fall back to it.     *)
LEMMA LeavingKeeps ==
  ASSUME CoreInv, sig, NEW p \in Parameters,
         DisconnectAnswer(p) \/ UpgradeAnswer(p) \/ ResetAnswer(p)
  PROVE  CoreInv'
<1>1. CASE DisconnectAnswer(p) /\ EndSignalTimeout /\ Proceed(state) /\ UNCHANGED tasks
  <2>1. state = "DISCONNECTING"
    BY <1>1 DEF DisconnectAnswer, CoreInv, ObjectInv, ObjectOK, StatesOf
  <2>2. MovesTo(state)
    BY <1>1, <2>1, TasksAre
    DEF DisconnectAnswer, Proceed, MovesTo, StatesOf, ChannelsAllow
  <2> QED BY <1>1, <2>1, <2>2, MoveToUser DEF DisconnectAnswer, DataState
<1>2. CASE ToIdle
  BY <1>2, ToIdleKeeps
<1>3. CASE UpgradeAnswer(p) /\ ToApp
  BY <1>3, ToAppKeeps DEF UpgradeAnswer
<1> QED BY <1>1, <1>2, <1>3 DEF DisconnectAnswer, UpgradeAnswer, ResetAnswer

LEMMA UploadKeeps ==
  ASSUME CoreInv, NEW p \in Parameters, UploadAnswer(p)
  PROVE  CoreInv'
<1>1. CASE state = "INITIAL_COMMAND"
  <2>1. MovesTo("UPLOAD") /\ AwaitSignal(data)
    BY <1>1, TasksAre
    DEF UploadAnswer, Transmit, MovesTo, StatesOf, ChannelsAllow, TasksOf
  <2> QED BY <2>1, MoveToSignal DEF UploadAnswer, SignalState, AwaitedSignal
<1>2. CASE state = "UPLOAD" /\ p = "ACK"
  BY <1>2, ToAppKeeps DEF UploadAnswer
<1>3. CASE state = "UPLOAD" /\ p # "ACK"
  <2>1. /\ retrans + 1 < MaxErrors /\ retrans' = retrans + 1
        /\ AwaitSignal(data) /\ act = "UPLOAD_SIGNAL_PAYLOAD"
        /\ UNCHANGED <<act, state, data, nonStatic, current, breaking, tasks, link>>
    BY <1>3 DEF UploadAnswer, Transmit
  <2>2. retrans' \in 0..(MaxErrors - 1)
    BY <2>1, LimitsAssumption DEF LimitsAssumption, CoreInv, ObjectInv, ObjectOK
  <2>3. ObjectInv'
    BY <2>1, <2>2 DEF CoreInv, ObjectInv, ObjectOK, DataMatchesAction,
                      EveryChannelIsCalibrated
  <2>4. state \in StatesOf(act)
    BY DEF CoreInv, ObjectInv, ObjectOK
  <2>5. WaitInv'
    BY <1>3, <2>1, <2>4, SignalWaitBegins DEF SignalState, AwaitedSignal
  <2>6. ListenerInv'
    BY <2>1 DEF CoreInv, ListenerInv, ListenerOK, TasksMatchAction, LinkMatchesAction
  <2> QED BY <2>3, <2>5, <2>6 DEF CoreInv
<1> QED BY <1>1, <1>2, <1>3 DEF UploadAnswer

LEMMA DownloadKeeps ==
  ASSUME CoreInv, NEW p \in Parameters, DownloadAnswer(p) \/ DownloadData(payCmd)
  PROVE  CoreInv'
<1>1. CASE DownloadAnswer(p) /\ p = "ACK"
  <2>1. MovesTo("DATA_RECEPTION") /\ AwaitPayload(data)
    BY <1>1, TasksAre
    DEF DownloadAnswer, Proceed, MovesTo, StatesOf, ChannelsAllow, TasksOf
  <2>2. data \in PayloadCommands
    BY <1>1 DEF DownloadAnswer, CoreInv, ObjectInv, ObjectOK, DataMatchesAction,
                DownloadCommand
  <2> QED BY <2>1, <2>2, MoveToPayload DEF DataState, AwaitedPayload
<1>2. CASE DownloadAnswer(p) /\ p # "ACK"
  BY <1>2, ToAppKeeps DEF DownloadAnswer
<1>3. CASE DownloadData(payCmd)
  BY <1>3, DeliverToAppKeeps DEF DownloadData
<1> QED BY <1>1, <1>2, <1>3
-----------------------------------------------------------------------------
(***************************************************************************)
(* The handlers of FlightActions.                                          *)
(***************************************************************************)
LEMMA FlightReadyKeeps ==
  ASSUME CoreInv, act = "FLIGHT_INITIALIZATION", NEW before, NEW events,
         FlightReady(before, events)
  PROVE  CoreInv'
<1>1. state # "IDLE"
  BY DEF CoreInv, ObjectInv, ObjectOK, StatesOf
<1> QED BY <1>1, StartKeeps DEF FlightReady, ActionTypes

LEMMA FlightInitKeeps ==
  ASSUME CoreInv, NEW p \in Parameters,
         FlightInitAccepted(p) \/ FlightInitAnswer(p) \/ FlightInitData(payCmd)
  PROVE  CoreInv'
<1>1. CASE FlightInitAccepted(p)
  <2>1. MovesTo("CONTROLS_RECEPTION") /\ AwaitPayload("CONTROL_SETTINGS")
    BY <1>1, TasksAre
    DEF FlightInitAccepted, Proceed, MovesTo, StatesOf, ChannelsAllow, TasksOf
  <2> QED BY <2>1, MoveToPayload DEF DataState, AwaitedPayload, PayloadCommands
<1>2. CASE FlightInitAnswer(p)
  <2>1. CASE p = "NOT_ALLOWED"
    BY <1>2, <2>1, ToAppKeeps DEF FlightInitAnswer
  <2>2. CASE p = "VIA_ROUTE_ALLOWED"
    <3>1. MovesTo("ROUTE_RECEPTION") /\ AwaitPayload("ROUTE_CONTAINER")
      BY <1>2, <2>2, TasksAre
      DEF FlightInitAnswer, Proceed, MovesTo, StatesOf, ChannelsAllow, TasksOf
    <3> QED BY <3>1, MoveToPayload DEF DataState, AwaitedPayload, PayloadCommands
  <2>3. CASE p = "VIA_ROUTE_NOT_ALLOWED"
    BY <1>2, <2>3, FlightReadyKeeps DEF FlightInitAnswer
  <2> QED BY <1>2, <2>1, <2>2, <2>3 DEF FlightInitAnswer
<1>3. CASE FlightInitData(payCmd) /\ state = "CONTROLS_RECEPTION"
  <2>1. MovesTo("ROUTE_COMMAND") /\ AwaitSignal("FLIGHT_LOOP")
    BY <1>3, TasksAre
    DEF FlightInitData, MovesTo, StatesOf, ChannelsAllow, TasksOf
  <2> QED BY <1>3, <2>1, MoveToSignal
          DEF FlightInitData, SignalState, AwaitedSignal, ActionCommand
<1>4. CASE FlightInitData(payCmd) /\ state = "ROUTE_RECEPTION"
  BY <1>4, FlightReadyKeeps DEF FlightInitData
<1> QED BY <1>1, <1>2, <1>3, <1>4 DEF FlightInitData

LEMMA FlightKeeps ==
  ASSUME CoreInv, NEW e, NEW a, NEW m, FlightUser(e, a) \/ FlightHears(m)
  PROVE  CoreInv'
<1>1. CASE FlightUser(e, a)
  <2>1. MovesTo("BREAKING") /\ UNCHANGED procedure
    BY <1>1, TasksAre
    DEF FlightUser, Proceed, MovesTo, StatesOf, ChannelsAllow, TasksOf
  <2>2. ObjectInv' /\ ListenerInv'
    BY <2>1, MoveKeeps DEF MovesTo
  <2>3. WaitInv'
    BY <1>1, <2>1
    DEF FlightUser, Proceed, Goto, CoreInv, WaitInv, ProcedureOK, SignalWaitsAreArmed,
        SignalState, PayloadWaitsAreArmed, DataState, TimeoutIsAwaited, procedure
  <2> QED BY <2>2, <2>3 DEF CoreInv
<1>2. CASE FlightHears(m)
  <2>1. act = "FLIGHT" /\ state # "IDLE"
    BY <1>2 DEF FlightHears, CoreInv, ObjectInv, ObjectOK, StatesOf
  <2> QED BY <1>2, <2>1, StartKeeps DEF FlightHears, ActionTypes
<1> QED BY <1>1, <1>2
-----------------------------------------------------------------------------
(***************************************************************************)
(* The handlers of CalibrationActions.                                     *)
(***************************************************************************)

(* What the channel counter of a radio calibration says of its state.      *)
LEMMA ChannelsCount ==
  ASSUME CoreInv
  PROVE  ChannelsAllow(state) /\ current \in Nat /\ Channels \in Nat \ {0}
BY LimitsAssumption
DEF LimitsAssumption, CoreInv, ObjectInv, ObjectOK, EveryChannelIsCalibrated, ChannelsAllow

LEMMA AccelKeeps ==
  ASSUME CoreInv, NEW p \in Parameters, AccelAnswer(p) \/ AccelData(payCmd)
  PROVE  CoreInv'
<1>1. CASE AccelAnswer(p)
  <2>1. CASE p = "ACK"
    <3>1. MovesTo("CALIBRATION") /\ AwaitSignal("CALIBRATE_ACCEL")
      BY <1>1, <2>1, TasksAre DEF AccelAnswer, Proceed,
         MovesTo, StatesOf, ChannelsAllow, TasksOf
    <3> QED BY <1>1, <3>1, MoveToSignal DEF AccelAnswer, SignalState, AwaitedSignal, ActionCommand
  <2>2. CASE p = "DONE"
    <3>1. MovesTo("CALIBRATION_RECEPTION") /\ AwaitPayload("CALIBRATION_SETTINGS")
      BY <1>1, <2>2, TasksAre DEF AccelAnswer, Proceed, DisableTask,
         MovesTo, StatesOf, ChannelsAllow, TasksOf
    <3> QED BY <3>1, MoveToPayload DEF DataState, AwaitedPayload, PayloadCommands
  <2>3. CASE p = "NON_STATIC"
    BY <1>1, <2>3, ToAppKeeps DEF AccelAnswer
  <2> QED BY <1>1, <2>1, <2>2, <2>3 DEF AccelAnswer
<1>2. CASE AccelData(payCmd)
  BY <1>2, DeliverToAppKeeps DEF AccelData
<1> QED BY <1>1, <1>2

LEMMA MagnetKeeps ==
  ASSUME CoreInv, NEW p \in Parameters, NEW e, NEW a,
         MagnetAnswer(p) \/ MagnetUser(e, a) \/ MagnetData(payCmd)
  PROVE  CoreInv'
<1>1. CASE MagnetAnswer(p)
  <2>1. CASE state = "INITIAL_COMMAND"
    <3>1. MovesTo("CALIBRATION") /\ EndSignalTimeout
      BY <1>1, <2>1, TasksAre DEF MagnetAnswer, Proceed, DisableTask,
         MovesTo, StatesOf, ChannelsAllow, TasksOf
    <3> QED BY <1>1, <3>1, MoveToUser DEF MagnetAnswer, DataState, SignalState
  <2>2. CASE p = "DONE"
    <3>1. MovesTo("CALIBRATION_RECEPTION") /\ AwaitPayload("CALIBRATION_SETTINGS")
      BY <1>1, <2>2, TasksAre DEF MagnetAnswer, Proceed, DisableTask,
         MovesTo, StatesOf, ChannelsAllow, TasksOf
    <3> QED BY <3>1, MoveToPayload DEF DataState, AwaitedPayload, PayloadCommands
  <2>3. CASE p = "FAIL" \/ state = "CALIBRATION_SKIP_RESULT"
    BY <1>1, <2>3, ToAppKeeps DEF MagnetAnswer
  <2> QED BY <1>1, <2>1, <2>2, <2>3 DEF MagnetAnswer
<1>2. CASE MagnetUser(e, a)
  <2>1. CASE e = "MAGNET_CALIB_DONE"
    <3>1. MovesTo("CALIBRATION_RESULT") /\ SendSignal("DONE")
      BY <1>2, <2>1, TasksAre, ChannelsCount
      DEF MagnetUser, EnableTask, DisableTask, MovesTo, StatesOf, ChannelsAllow, TasksOf
    <3>2. AwaitedSignal(act, "CALIBRATION_RESULT", data) = ActionCommand(act, data)
      BY <1>2, <2>1 DEF MagnetUser, AwaitedSignal
    <3> QED BY <1>2, <2>1, <3>1, <3>2, MoveBySending
            DEF MagnetUser, SignalState, DataState, Parameters
  <2>2. CASE e = "MAGNET_CALIB_ABORT"
    <3>1. MovesTo("CALIBRATION_SKIP_RESULT") /\ SendSignal("SKIP")
      BY <1>2, <2>2, TasksAre, ChannelsCount
      DEF MagnetUser, EnableTask, DisableTask, MovesTo, StatesOf, ChannelsAllow, TasksOf
    <3>2. AwaitedSignal(act, "CALIBRATION_SKIP_RESULT", data) = ActionCommand(act, data)
      BY <1>2, <2>2 DEF MagnetUser, AwaitedSignal
    <3> QED BY <1>2, <2>2, <3>1, <3>2, MoveBySending
            DEF MagnetUser, SignalState, DataState, Parameters
  <2> QED BY <1>2, <2>1, <2>2 DEF MagnetUser
<1>3. CASE MagnetData(payCmd)
  BY <1>3, DeliverToAppKeeps DEF MagnetData
<1> QED BY <1>1, <1>2, <1>3

LEMMA RadioCheckKeeps ==
  ASSUME CoreInv, NEW p \in Parameters, NEW e, NEW a,
         RadioCheckAnswer(p) \/ RadioCheckUser(e, a) \/ RadioCheckData(payCmd)
  PROVE  CoreInv'
<1>1. CASE RadioCheckAnswer(p)
  <2>1. CASE p = "ACK"
    <3>1. MovesTo("CONTROLS_RECEPTION") /\ AwaitPayload("CONTROL_SETTINGS")
      BY <1>1, <2>1, TasksAre DEF RadioCheckAnswer, Proceed, DisableTask,
         MovesTo, StatesOf, ChannelsAllow, TasksOf
    <3> QED BY <3>1, MoveToPayload DEF DataState, AwaitedPayload, PayloadCommands
  <2>2. CASE p # "ACK"
    BY <1>1, <2>2, ToAppKeeps DEF RadioCheckAnswer
  <2> QED BY <2>1, <2>2
<1>2. CASE RadioCheckUser(e, a)
  <2>1. MovesTo("BREAKING") /\ SendSignal("BREAK")
    BY <1>2, TasksAre, ChannelsCount
    DEF RadioCheckUser, EnableTask, DisableTask, MovesTo, StatesOf, ChannelsAllow, TasksOf
  <2>2. AwaitedSignal(act, "BREAKING", data) = ActionCommand(act, data)
    BY <1>2 DEF RadioCheckUser, AwaitedSignal
  <2> QED BY <1>2, <2>1, <2>2, MoveBySending
          DEF RadioCheckUser, SignalState, DataState, Parameters
<1>3. CASE RadioCheckData(payCmd)
  <2>1. MovesTo("RUNNING") /\ EndSignalTimeout
    BY <1>3, TasksAre DEF RadioCheckData, MovesTo, StatesOf, ChannelsAllow, TasksOf
  <2> QED BY <1>3, <2>1, MoveToUser DEF RadioCheckData, DataState, SignalState
<1> QED BY <1>1, <1>2, <1>3

LEMMA RadioCalibChannelKeeps ==
  ASSUME CoreInv, NEW p \in Parameters, RadioCalibChannel(p)
  PROVE  CoreInv'
<1>1. /\ act = "RADIO_CALIB" /\ act' = act /\ state = "CALIBRATION_RESPONSE"
      /\ UNCHANGED <<data, nonStatic, breaking, retrans, tasks, link>>
      /\ current' = current + 1 /\ EndSignalTimeout
      /\ \/ current + 1 >= Channels /\ state' = "CHECK"
         \/ current + 1 < Channels /\ state' = "CALIBRATION_COMMAND"
  BY ChannelsCount DEF RadioCalibChannel, LastChannel
<1>2. current < Channels /\ current \in Nat /\ Channels \in Nat
  BY <1>1, ChannelsCount DEF ChannelsAllow
<1>3. current' \in 0..Channels /\ EveryChannelIsCalibrated'
  BY <1>1, <1>2 DEF EveryChannelIsCalibrated
<1>4. state' \in StatesOf(act)
  BY <1>1 DEF StatesOf
<1>5. ObjectInv'
  BY <1>1, <1>3, <1>4 DEF CoreInv, ObjectInv, ObjectOK, DataMatchesAction
<1>6. WaitInv'
  BY <1>1, <1>4, UserWaitBegins DEF SignalState, DataState
<1>7. ListenerInv'
  BY <1>1 DEF CoreInv, ListenerInv, ListenerOK, TasksMatchAction, TasksOf,
              LinkMatchesAction, LinkOf
<1> QED BY <1>5, <1>6, <1>7 DEF CoreInv

LEMMA RadioCalibAnswerKeeps ==
  ASSUME CoreInv, NEW p \in Parameters, RadioCalibAnswer(p)
  PROVE  CoreInv'
<1>1. CASE state = "INITIAL_COMMAND" /\ p = "ACK"
  <2>1. MovesTo("CALIBRATION_COMMAND") /\ EndSignalTimeout
    BY <1>1, TasksAre, ChannelsCount
    DEF RadioCalibAnswer, Proceed, MovesTo, StatesOf, ChannelsAllow, TasksOf
  <2> QED BY <2>1, MoveToUser DEF RadioCalibAnswer, DataState, SignalState
<1>2. CASE p = "FAIL"
  <2>1. MovesTo("CALIBRATION_COMMAND") /\ EndSignalTimeout
    BY <1>2, TasksAre, ChannelsCount
    DEF RadioCalibAnswer, Proceed, MovesTo, StatesOf, ChannelsAllow, TasksOf
  <2> QED BY <2>1, MoveToUser DEF RadioCalibAnswer, DataState, SignalState
<1>3. CASE state = "FINAL_COMMAND" /\ p = "ACK"
  <2>1. MovesTo("CALIBRATION_RECEPTION") /\ AwaitPayload("CALIBRATION_SETTINGS")
    BY <1>3, TasksAre, ChannelsCount
    DEF RadioCalibAnswer, Proceed, MovesTo, StatesOf, ChannelsAllow, TasksOf
  <2> QED BY <2>1, MoveToPayload DEF DataState, AwaitedPayload, PayloadCommands
<1>4. CASE ToApp
  BY <1>4, ToAppKeeps DEF RadioCalibAnswer
<1> QED BY <1>1, <1>2, <1>3, <1>4 DEF RadioCalibAnswer

LEMMA RadioCalibKeeps ==
  ASSUME CoreInv, NEW e, NEW a, NEW m, RadioCalibUser(e, a) \/ RadioCalibHears(m)
  PROVE  CoreInv'
<1>1. CASE RadioCalibUser(e, a)
  <2>1. CASE state = "CALIBRATION_COMMAND" /\ e = "RADIO_CALIBRATION_DONE"
    <3>1. MovesTo("CALIBRATION_RESPONSE") /\ SendSignal("DONE")
      BY <1>1, <2>1, TasksAre, ChannelsCount
      DEF RadioCalibUser, MovesTo, StatesOf, ChannelsAllow, TasksOf
    <3>2. AwaitedSignal(act, "CALIBRATION_RESPONSE", data) = ActionCommand(act, data)
      BY <1>1, <2>1 DEF RadioCalibUser, AwaitedSignal
    <3> QED BY <1>1, <2>1, <3>1, <3>2, MoveBySending
            DEF RadioCalibUser, SignalState, DataState, Parameters
  <2>2. CASE state = "CALIBRATION_COMMAND" /\ e = "RADIO_CALIBRATION_SKIP"
    <3>1. MovesTo("CALIBRATION_RESPONSE") /\ SendSignal("SKIP")
      BY <1>1, <2>2, TasksAre, ChannelsCount
      DEF RadioCalibUser, MovesTo, StatesOf, ChannelsAllow, TasksOf
    <3>2. AwaitedSignal(act, "CALIBRATION_RESPONSE", data) = ActionCommand(act, data)
      BY <1>1, <2>2 DEF RadioCalibUser, AwaitedSignal
    <3> QED BY <1>1, <2>2, <3>1, <3>2, MoveBySending
            DEF RadioCalibUser, SignalState, DataState, Parameters
  <2>3. CASE e = "RADIO_CALIBRATION_BREAK"
    <3>1. MovesTo("BREAKING") /\ SendSignal("BREAK")
      BY <1>1, <2>3, TasksAre, ChannelsCount
      DEF RadioCalibUser, MovesTo, StatesOf, ChannelsAllow, TasksOf
    <3>2. AwaitedSignal(act, "BREAKING", data) = ActionCommand(act, data)
      BY <1>1, <2>3 DEF RadioCalibUser, AwaitedSignal
    <3> QED BY <1>1, <2>3, <3>1, <3>2, MoveBySending
            DEF RadioCalibUser, SignalState, DataState, Parameters
  <2>4. CASE state = "CHECK" /\ e = "RADIO_CALIBRATION_DONE"
    <3>1. MovesTo("FINAL_COMMAND") /\ SendSignal("BREAK")
      BY <1>1, <2>4, TasksAre, ChannelsCount
      DEF RadioCalibUser, MovesTo, StatesOf, ChannelsAllow, TasksOf
    <3>2. AwaitedSignal(act, "FINAL_COMMAND", data) = ActionCommand(act, data)
      BY <1>1, <2>4 DEF RadioCalibUser, AwaitedSignal
    <3> QED BY <1>1, <2>4, <3>1, <3>2, MoveBySending
            DEF RadioCalibUser, SignalState, DataState, Parameters
  <2>5. CASE state = "CHECK" /\ e = "RADIO_CALIBRATION_SKIP"
    <3>1. MovesTo("FINAL_COMMAND") /\ SendSignal("BREAK_FAIL")
      BY <1>1, <2>5, TasksAre, ChannelsCount
      DEF RadioCalibUser, MovesTo, StatesOf, ChannelsAllow, TasksOf
    <3>2. AwaitedSignal(act, "FINAL_COMMAND", data) = ActionCommand(act, data)
      BY <1>1, <2>5 DEF RadioCalibUser, AwaitedSignal
    <3> QED BY <1>1, <2>5, <3>1, <3>2, MoveBySending
            DEF RadioCalibUser, SignalState, DataState, Parameters
  <2> QED BY <1>1, <2>1, <2>2, <2>3, <2>4, <2>5 DEF RadioCalibUser
<1>2. CASE RadioCalibHears(m)
  BY <1>2, ToAppKeeps DEF RadioCalibHears
<1> QED BY <1>1, <1>2

LEMMA EscAnswerKeeps ==
  ASSUME CoreInv, NEW p \in Parameters, EscAnswer(p) \/ EscBroken(p)
  PROVE  CoreInv'
<1>1. CASE EscAnswer(p)
  <2>1. CASE state = "INITIAL_COMMAND" /\ p = "ACK"
    <3>1. MovesTo("ESC_DISCONNECT") /\ EndSignalTimeout
      BY <1>1, <2>1, TasksAre, ChannelsCount
      DEF EscAnswer, Proceed, DisableTask, MovesTo, StatesOf, ChannelsAllow, TasksOf
    <3> QED BY <1>1, <3>1, MoveToUser DEF EscAnswer, DataState, SignalState
  <2>2. CASE state = "ESC_DISCONNECT_ACK"
    <3>1. MovesTo("ESC_CONNECT") /\ EndSignalTimeout
      BY <1>1, <2>2, TasksAre, ChannelsCount
      DEF EscAnswer, Proceed, MovesTo, StatesOf, ChannelsAllow, TasksOf
    <3> QED BY <1>1, <3>1, MoveToUser DEF EscAnswer, DataState, SignalState
  <2>3. CASE state = "ESC_CONNECT_ACK"
    <3>1. MovesTo("CALIBRATING") /\ AwaitSignal("CALIBRATE_ESC")
      BY <1>1, <2>3, TasksAre DEF EscAnswer, Proceed, MovesTo, StatesOf, ChannelsAllow, TasksOf
    <3> QED BY <1>1, <3>1, MoveToSignal
            DEF EscAnswer, SignalState, AwaitedSignal, ActionCommand
  <2>4. CASE ToApp
    BY <1>1, <2>4, ToAppKeeps DEF EscAnswer
  <2> QED BY <1>1, <2>1, <2>2, <2>3, <2>4 DEF EscAnswer
<1>2. CASE EscBroken(p)
  BY <1>2, ToAppKeeps DEF EscBroken
<1> QED BY <1>1, <1>2

LEMMA EscUserKeeps ==
  ASSUME CoreInv, NEW e, NEW a, EscUser(e, a)
  PROVE  CoreInv'
<1>1. PICK p \in {"DONE", "BREAK_FAIL"} : SendSignal(p)
  BY DEF EscUser
<1>2. PICK s \in {"ESC_DISCONNECT_ACK", "ESC_CONNECT_ACK"} : state' = s
  BY DEF EscUser
<1>3. /\ act = "ESC_CALIB" /\ state \in {"ESC_DISCONNECT", "ESC_CONNECT"}
      /\ breaking' = (breaking \/ e = "ESC_CALIB_ABORT")
      /\ UNCHANGED <<act, data, nonStatic, current, retrans, tasks, link>>
  BY DEF EscUser, EscMarks
<1>4. breaking' \in BOOLEAN /\ s \in StatesOf(act)
  BY <1>2, <1>3, Zenon DEF CoreInv, ObjectInv, ObjectOK, StatesOf
<1>5. ObjectInv'
  BY <1>2, <1>3, <1>4
  DEF CoreInv, ObjectInv, ObjectOK, DataMatchesAction, EveryChannelIsCalibrated
<1>6. WaitInv'
  BY <1>1, <1>2, <1>3, <1>4, SendBeginsWait
  DEF SignalState, DataState, AwaitedSignal, Parameters
<1>7. ListenerInv'
  BY <1>2, <1>3 DEF CoreInv, ListenerInv, ListenerOK, TasksMatchAction, TasksOf,
                    LinkMatchesAction, LinkOf
<1> QED BY <1>5, <1>6, <1>7 DEF CoreInv

(* A refused event marks the calibration and moves nothing.                *)
LEMMA EscRefusesKeeps ==
  ASSUME CoreInv, NEW e, NEW a, EscRefuses(e, a), UNCHANGED <<procedure, tasks, link>>
  PROVE  CoreInv'
<1>1. /\ breaking' = (breaking \/ e = "ESC_CALIB_ABORT")
      /\ UNCHANGED <<act, state, data, nonStatic, current, retrans>>
  BY DEF EscRefuses, EscMarks
<1>2. breaking' \in BOOLEAN
  BY <1>1, Zenon DEF CoreInv, ObjectInv, ObjectOK
<1>3. ObjectInv'
  BY <1>1, <1>2
  DEF CoreInv, ObjectInv, ObjectOK, DataMatchesAction, EveryChannelIsCalibrated
<1>4. WaitInv'
  BY <1>1 DEF CoreInv, WaitInv, ProcedureOK, SignalWaitsAreArmed, PayloadWaitsAreArmed,
              TimeoutIsAwaited, procedure
<1>5. ListenerInv'
  BY <1>1 DEF CoreInv, ListenerInv, ListenerOK, TasksMatchAction, LinkMatchesAction
<1> QED BY <1>3, <1>4, <1>5 DEF CoreInv

LEMMA LoggerKeeps ==
  ASSUME CoreInv, NEW p \in Parameters, NEW e, NEW a,
         LoggerAnswer(p) \/ LoggerUser(e, a)
  PROVE  CoreInv'
<1>1. CASE LoggerAnswer(p)
  <2>1. CASE state = "INITIAL_COMMAND"
    <3>1. MovesTo("LOGGING") /\ EndSignalTimeout
      BY <1>1, <2>1, TasksAre, ChannelsCount
      DEF LoggerAnswer, Proceed, MovesTo, StatesOf, ChannelsAllow, TasksOf
    <3> QED BY <1>1, <3>1, MoveToUser DEF LoggerAnswer, DataState, SignalState
  <2>2. CASE state = "BREAKING"
    BY <1>1, <2>2, ToAppKeeps DEF LoggerAnswer
  <2> QED BY <1>1, <2>1, <2>2 DEF LoggerAnswer
<1>2. CASE LoggerUser(e, a)
  <2>1. MovesTo("BREAKING") /\ SendSignal("BREAK")
    BY <1>2, TasksAre, ChannelsCount
    DEF LoggerUser, DisableTask, MovesTo, StatesOf, ChannelsAllow, TasksOf
  <2>2. AwaitedSignal(act, "BREAKING", data) = ActionCommand(act, data)
    BY <1>2 DEF LoggerUser, AwaitedSignal
  <2> QED BY <1>2, <2>1, <2>2, MoveBySending
          DEF LoggerUser, SignalState, DataState, Parameters
<1> QED BY <1>1, <1>2
-----------------------------------------------------------------------------
(***************************************************************************)
(* The steps of MulticopterUav.                                            *)
(***************************************************************************)
LEMMA CoreStutters ==
  ASSUME CoreInv, UNCHANGED core
  PROVE  CoreInv'
<1> USE DEF core, object, extras, procedure
<1>1. ObjectInv'
  BY DEF CoreInv, ObjectInv, ObjectOK, DataMatchesAction, EveryChannelIsCalibrated
<1>2. WaitInv'
  BY DEF CoreInv, WaitInv, ProcedureOK, SignalWaitsAreArmed, PayloadWaitsAreArmed,
         TimeoutIsAwaited
<1>3. ListenerInv'
  BY DEF CoreInv, ListenerInv, ListenerOK, TasksMatchAction, LinkMatchesAction
<1> QED BY <1>1, <1>2, <1>3 DEF CoreInv

LEMMA HandleErrorKeeps ==
  ASSUME CoreInv, HandleError
  PROVE  CoreInv'
BY ToIdleKeeps DEF HandleError

LEMMA AnswerKeeps ==
  ASSUME CoreInv, NEW p \in Parameters, Answer(p) \/ UnexpectedAnswer(p)
  PROVE  CoreInv'
<1>1. CASE Answer(p)
  BY <1>1, ConnectKeeps, LeavingKeeps, UploadKeeps, DownloadKeeps, FlightInitKeeps,
     AccelKeeps, MagnetKeeps, RadioCheckKeeps, RadioCalibAnswerKeeps,
     RadioCalibChannelKeeps, EscAnswerKeeps, LoggerKeeps, Zenon
  DEF Answer
<1>2. CASE UnexpectedAnswer(p)
  BY <1>2, HandleErrorKeeps DEF UnexpectedAnswer
<1> QED BY <1>1, <1>2

(* Where handleSignalPayloadReception may be called, a payload is awaited. *)
LEMMA PayloadStateAwaits ==
  ASSUME CoreInv, PayloadState
  PROVE  /\ DataState(state) /\ pay = "on" /\ ~sig
         /\ payCmd = AwaitedPayload(act, state, data)
BY DEF CoreInv, WaitInv, PayloadState, DataState, PayloadWaitsAreArmed

(* While a payload is awaited the attempts are counted and timed.          *)
LEMMA AskAgainKeeps ==
  ASSUME CoreInv, pay = "on", ~LastAttempt, NEW reason, AskAgain(reason)
  PROVE  CoreInv'
<1>1. errors + 1 < MaxErrors /\ errors' = errors + 1 /\ timer' = TRUE
      /\ UNCHANGED <<object, sig, expected, sent, pay, payCmd, tasks, link>>
  <2>1. errors \in Nat /\ MaxErrors \in Nat
    BY LimitsAssumption DEF LimitsAssumption, CoreInv, WaitInv, ProcedureOK
  <2> QED BY <2>1 DEF LastAttempt, AskAgain
<1>2. errors' \in 0..(MaxErrors - 1)
  BY <1>1, LimitsAssumption DEF LimitsAssumption, CoreInv, WaitInv, ProcedureOK
<1>3. ObjectInv'
  BY <1>1 DEF CoreInv, ObjectInv, ObjectOK, DataMatchesAction, EveryChannelIsCalibrated,
              object, extras
<1>4. WaitInv'
  BY <1>1, <1>2, LimitsAssumption
  DEF LimitsAssumption, CoreInv, WaitInv, ProcedureOK, SignalWaitsAreArmed,
      PayloadWaitsAreArmed, TimeoutIsAwaited, object
<1>5. ListenerInv'
  BY <1>1 DEF CoreInv, ListenerInv, ListenerOK, TasksMatchAction, LinkMatchesAction, object
<1> QED BY <1>3, <1>4, <1>5 DEF CoreInv

LEMMA ForeignPayloadKeeps ==
  ASSUME CoreInv, NEW m, ForeignPayload(m)
  PROVE  CoreInv'
<1>1. ~sig
  BY PayloadStateAwaits DEF ForeignPayload
<1>2. timer' = FALSE
      /\ UNCHANGED <<object, sig, expected, sent, pay, payCmd, errors, tasks, link>>
  BY DEF ForeignPayload
<1>3. ObjectInv'
  BY <1>2 DEF CoreInv, ObjectInv, ObjectOK, DataMatchesAction, EveryChannelIsCalibrated,
              object, extras
<1>4. WaitInv'
  BY <1>1, <1>2
  DEF CoreInv, WaitInv, ProcedureOK, SignalWaitsAreArmed, PayloadWaitsAreArmed,
      TimeoutIsAwaited, object
<1>5. ListenerInv'
  BY <1>2 DEF CoreInv, ListenerInv, ListenerOK, TasksMatchAction, LinkMatchesAction, object
<1> QED BY <1>3, <1>4, <1>5 DEF CoreInv

LEMMA HearKeeps ==
  ASSUME CoreInv, NEW m \in Inbound, Hear(m)
  PROVE  CoreInv'
<1>1. CASE HearFrame(m) \/ HearPong(m) \/ HearIdly(m)
  BY <1>1, CoreStutters DEF HearFrame, HearPong, HearIdly
<1>2. CASE FlightHears(m)
  BY <1>2, FlightKeeps
<1>3. CASE RadioCalibHears(m)
  BY <1>3, RadioCalibKeeps
<1>4. CASE ForeignPayload(m)
  BY <1>4, ForeignPayloadKeeps
<1>5. CASE InvalidPayload(m)
  BY <1>5, AskAgainKeeps, HandleErrorKeeps, PayloadStateAwaits DEF InvalidPayload
<1>6. CASE ValidPayload(m)
  <2>1. PICK p \in Parameters : TRUE
    BY DEF Parameters
  <2> QED BY <1>6, <2>1, ConnectKeeps, DownloadKeeps, FlightInitKeeps, AccelKeeps,
             MagnetKeeps, RadioCheckKeeps, Zenon
          DEF ValidPayload
<1>7. CASE UnexpectedMessage(m)
  BY <1>7, HandleErrorKeeps DEF UnexpectedMessage
<1> QED BY <1>1, <1>2, <1>3, <1>4, <1>5, <1>6, <1>7 DEF Hear

LEMMA UserKeeps ==
  ASSUME CoreInv, NEW e, NEW a, UserEvent(e, a) \/ RejectUserEvent(e, a)
  PROVE  CoreInv'
<1>1. CASE UserEvent(e, a)
  <2>1. PICK p \in Parameters : TRUE
    BY DEF Parameters
  <2> QED BY <1>1, <2>1, IdleUserKeeps, AppUserKeeps, FlightKeeps, MagnetKeeps,
             RadioCheckKeeps, RadioCalibKeeps, EscUserKeeps, LoggerKeeps, Zenon
          DEF UserEvent
<1>2. CASE RejectUserEvent(e, a)
  <2>1. UNCHANGED <<procedure, tasks, link>>
    BY <1>2 DEF RejectUserEvent
  <2>2. CASE EscRefuses(e, a)
    BY <2>1, <2>2, EscRefusesKeeps
  <2>3. CASE UNCHANGED object
    BY <2>1, <2>3, CoreStutters DEF core
  <2> QED BY <1>2, <2>2, <2>3 DEF RejectUserEvent
<1> QED BY <1>1, <1>2

LEMMA TimeoutKeeps ==
  ASSUME CoreInv, SignalTimeout \/ PayloadTimeout
  PROVE  CoreInv'
BY AskAgainKeeps, HandleErrorKeeps DEF SignalTimeout, PayloadTimeout

(* The interface is open: the prepared action starts.                      *)
LEMMA OnConnectedKeeps ==
  ASSUME CoreInv, OnConnected
  PROVE  CoreInv'
<1>1. act \in {"CONNECT", "UPGRADE"} /\ state = "IDLE"
  BY DEF OnConnected, CoreInv, ListenerInv, LinkMatchesAction, LinkOf
<1>2. /\ Goto("INITIAL_COMMAND") /\ SendSignal("START")
      /\ link' = "open" /\ UNCHANGED tasks
  BY DEF OnConnected
<1>3. ObjectInv'
  BY <1>1, <1>2
  DEF Goto, extras, StatesOf, CoreInv, ObjectInv, ObjectOK, DataMatchesAction,
      EveryChannelIsCalibrated
<1>4. WaitInv'
  <2>1. "INITIAL_COMMAND" \in StatesOf(act) /\ ~DataState(state)
    BY <1>1 DEF StatesOf, DataState
  <2>2. AwaitedSignal(act, "INITIAL_COMMAND", data) = ActionCommand(act, data)
    BY DEF AwaitedSignal
  <2> QED BY <1>2, <2>1, <2>2, SendBeginsWait DEF Goto, SignalState, Parameters
<1>5. ListenerInv'
  BY <1>1, <1>2, TasksAre
  DEF Goto, CoreInv, ListenerInv, ListenerOK, TasksMatchAction, TasksOf,
      LinkMatchesAction, LinkOf
<1> QED BY <1>3, <1>4, <1>5 DEF CoreInv

LEMMA InitCore == Init => CoreInv
<1> SUFFICES ASSUME Init PROVE CoreInv
  OBVIOUS
<1>1. /\ current \in 0..Channels /\ retrans \in 0..(MaxErrors - 1)
      /\ errors \in 0..(MaxErrors - 1)
  BY LimitsAssumption DEF LimitsAssumption, Init
<1>2. ObjectInv
  BY <1>1 DEF Init, ObjectInv, ObjectOK, ActionTypes, StatesOf, DataMatchesAction,
              EveryChannelIsCalibrated
<1>3. WaitInv
  BY <1>1 DEF Init, WaitInv, ProcedureOK, Parameters, SignalWaitsAreArmed, SignalState,
              PayloadWaitsAreArmed, DataState, TimeoutIsAwaited, Undef
<1>4. ListenerInv
  BY DEF Init, ListenerInv, ListenerOK, TasksMatchAction, TasksOf, LinkMatchesAction,
         LinkOf
<1> QED BY <1>2, <1>3, <1>4 DEF CoreInv

LEMMA NextCore == CoreInv /\ [Next]_vars => CoreInv'
<1> SUFFICES ASSUME CoreInv, [Next]_vars PROVE CoreInv'
  OBVIOUS
<1>1. CASE Reception
  <2>1. CASE \E p \in Parameters : Answer(p) \/ UnexpectedAnswer(p)
    BY <2>1, AnswerKeeps
  <2>2. CASE ForeignSignal
    BY <2>2, CoreStutters DEF ForeignSignal
  <2>3. CASE \E m \in Inbound : Hear(m)
    BY <2>3, HearKeeps
  <2> QED BY <1>1, <2>1, <2>2, <2>3 DEF Reception
<1>2. CASE User
  BY <1>2, UserKeeps DEF User
<1>3. CASE Timeout
  BY <1>3, TimeoutKeeps DEF Timeout
<1>4. CASE LossTick
  BY <1>4, CoreStutters DEF LossTick, ConnectionTick
<1>5. CASE Tick
  BY <1>5, CoreStutters DEF Tick, PingTick, FlightControlTick, core
<1>6. CASE Interface
  BY <1>6, OnConnectedKeeps, HandleErrorKeeps DEF Interface, LinkError
<1>7. CASE FallSilent
  BY <1>7, CoreStutters DEF FallSilent
<1>8. CASE UNCHANGED vars
  BY <1>8, CoreStutters DEF vars
<1> QED BY <1>1, <1>2, <1>3, <1>4, <1>5, <1>6, <1>7, <1>8 DEF Next

(* The object, its waits and its listener stay consistent.                 *)
THEOREM CoreIsInvariant == Spec => []CoreInv
<1>1. Init => CoreInv
  BY InitCore
<1>2. CoreInv /\ [Next]_vars => CoreInv'
  BY NextCore
<1> QED BY <1>1, <1>2, PTL DEF Spec

(* Every state that waits for the board, and no other, has its wait armed  *)
(* for the right command or record.                                        *)
THEOREM Waits == Spec => []WaitsAreArmed
<1>1. CoreInv => WaitsAreArmed
  BY DEF CoreInv, WaitInv, WaitsAreArmed
<1> QED BY <1>1, CoreIsInvariant, PTL

(* No timer ever finds the object waiting for nothing.                     *)
THEOREM Timeouts == Spec => []TimeoutIsAwaited
<1>1. CoreInv => TimeoutIsAwaited
  BY DEF CoreInv, WaitInv
<1> QED BY <1>1, CoreIsInvariant, PTL

(* The periodic tasks are those of the action in charge.                   *)
THEOREM Tasks == Spec => []TasksMatchAction
<1>1. CoreInv => TasksMatchAction
  BY DEF CoreInv, ListenerInv
<1> QED BY <1>1, CoreIsInvariant, PTL

(* The interface is open when, and only when, an action needs it.          *)
THEOREM Link == Spec => []LinkMatchesAction
<1>1. CoreInv => LinkMatchesAction
  BY DEF CoreInv, ListenerInv
<1> QED BY <1>1, CoreIsInvariant, PTL

(* A radio calibration covers its channels, each once, however many.       *)
THEOREM EveryChannel == Spec => []EveryChannelIsCalibrated
<1>1. CoreInv => EveryChannelIsCalibrated
  BY DEF CoreInv, ObjectInv
<1> QED BY <1>1, CoreIsInvariant, PTL
-----------------------------------------------------------------------------
(***************************************************************************)
(* The user's waits.                                                       *)
(***************************************************************************)
UserStep == \E i \in UserInputs : UserEvent(i[1], i[2])

(* In a wait for the user nothing is awaited from the board.               *)
LEMMA UserWaitIsQuiet ==
  ASSUME CoreInv, UserWait
  PROVE  ~sig /\ pay # "on" /\ ~PayloadState /\ ~timer
<1>1. ~SignalState(act, state) /\ ~DataState(state)
  BY DEF CoreInv, ObjectInv, ObjectOK, StatesOf, UserWait, SignalState, DataState
<1>2. ~PayloadState
  BY <1>1 DEF PayloadState, DataState
<1> QED BY <1>1, <1>2
        DEF CoreInv, WaitInv, ProcedureOK, SignalWaitsAreArmed, PayloadWaitsAreArmed,
            TimeoutIsAwaited, ObjectInv, ObjectOK, StatesOf, UserWait

LEMMA NextUserWait ==
  ASSUME CoreInv, UserWait, [Next]_vars
  PROVE  (act' = act /\ state' = state) \/ act' = "IDLE_ACTION" \/ UserStep
<1>0. ~sig /\ pay # "on" /\ ~PayloadState /\ ~timer
  BY UserWaitIsQuiet
<1> DEFINE Goal == (act' = act /\ state' = state) \/ act' = "IDLE_ACTION" \/ UserStep
<1>1. ASSUME HandleError PROVE Goal
  BY <1>1 DEF HandleError, ToIdle, Begin, Construct
<1>2. ASSUME UNCHANGED core PROVE Goal
  BY <1>2 DEF core, object
<1>3. CASE Reception
  <2>1. CASE \E p \in Parameters : Answer(p) \/ UnexpectedAnswer(p)
    BY <1>0, <2>1 DEF Answer, UnexpectedAnswer
  <2>2. CASE ForeignSignal
    BY <1>0, <2>2 DEF ForeignSignal
  <2>3. ASSUME NEW m \in Inbound, Hear(m) PROVE Goal
    <3>1. CASE HearFrame(m) \/ HearPong(m) \/ HearIdly(m)
      BY <1>2, <3>1 DEF HearFrame, HearPong, HearIdly
    <3>2. ~FlightHears(m) /\ ~RadioCalibHears(m)
      BY <1>0 DEF FlightHears, RadioCalibHears, UserWait
    <3>3. ~ForeignPayload(m) /\ ~InvalidPayload(m) /\ ~ValidPayload(m)
      BY <1>0 DEF ForeignPayload, InvalidPayload, ValidPayload
    <3>4. CASE UnexpectedMessage(m)
      BY <1>1, <3>4 DEF UnexpectedMessage
    <3> QED BY <2>3, <3>1, <3>2, <3>3, <3>4 DEF Hear
  <2> QED BY <1>3, <2>1, <2>2, <2>3 DEF Reception
<1>4. CASE User
  <2>1. ASSUME NEW i \in UserInputs, RejectUserEvent(i[1], i[2]) PROVE Goal
    BY <2>1 DEF RejectUserEvent, EscRefuses, EscMarks, object
  <2> QED BY <1>4, <2>1 DEF User, UserStep
<1>5. CASE Timeout
  BY <1>0, <1>5 DEF Timeout, SignalTimeout, PayloadTimeout
<1>6. CASE LossTick
  BY <1>2, <1>6 DEF LossTick, ConnectionTick
<1>7. CASE Tick
  BY <1>7 DEF Tick, PingTick, FlightControlTick, core, object
<1>8. CASE Interface
  <2>1. ~OnConnected
    BY DEF OnConnected, CoreInv, ListenerInv, LinkMatchesAction, LinkOf, UserWait
  <2> QED BY <1>1, <1>8, <2>1 DEF Interface, LinkError
<1>9. CASE FallSilent
  BY <1>2, <1>9 DEF FallSilent
<1>10. CASE UNCHANGED vars
  BY <1>2, <1>10 DEF vars
<1> QED BY <1>3, <1>4, <1>5, <1>6, <1>7, <1>8, <1>9, <1>10 DEF Next

(* Only the user ends a wait for the user, but for errors.                 *)
THEOREM UserWaits == Spec => UserWaitsEndByUser
<1>1. CoreInv /\ [Next]_vars =>
        [UserWait /\ <<act, state>>' # <<act, state>> =>
           act' = "IDLE_ACTION" \/ \E i \in UserInputs : UserEvent(i[1], i[2])]_vars
  BY NextUserWait DEF UserStep
<1> QED BY <1>1, CoreIsInvariant, PTL DEF Spec, UserWaitsEndByUser
-----------------------------------------------------------------------------
(***************************************************************************)
(* The settings.                                                           *)
(***************************************************************************)

(* A step settles what the next state relies on: it relies on no more than *)
(* this one did and what the step acknowledges.                            *)
Settled ==
    SettingsNeeded(act', state') \subseteq SettingsNeeded(act, state) \cup Acknowledged

LEMMA StartSettles ==
  ASSUME NEW t \in ActionTypes \ {"FLIGHT"}, NEW d, Begin(t, d)
  PROVE  Settled
<1>1. SettingsNeeded(t, StartState(t)) = {}
  BY DEF SettingsNeeded, StartState
<1> QED BY <1>1 DEF Settled, Begin, Construct

LEMMA ToAppSettles ==
  ASSUME ToApp \/ HandleError \/ \E c : DeliverToApp(c)
  PROVE  Settled
BY StartSettles DEF ToApp, DeliverToApp, HandleError, ToIdle, StartAction, ActionTypes

(* A payload handed over is acknowledged with its own name.                *)
LEMMA FirstIsAcknowledged ==
  ASSUME NEW c, NEW rest2, out' = <<Signal(c, "ACK")>> \/ out' = <<Signal(c, "ACK"), rest2>>
  PROVE  c \in Acknowledged
<1>1. 1 \in DOMAIN out' /\ out'[1].par = "ACK" /\ out'[1].cmd = c
  BY DEF Signal
<1> QED BY <1>1 DEF Acknowledged

LEMMA AnswerSettles ==
  ASSUME CoreInv, NEW p \in Parameters, Answer(p)
  PROVE  Settled
<1> USE DEF Settled, SettingsNeeded
<1>1. CASE ToApp \/ HandleError
  BY <1>1, ToAppSettles
<1>2. CASE ConnectAnswer(p) \/ ConnectNonStatic(p)
  BY <1>2 DEF ConnectAnswer, ConnectNonStatic, Proceed, Goto
<1>3. CASE FlightInitAccepted(p)
  BY <1>3 DEF FlightInitAccepted, Proceed, Goto
<1>4. CASE FlightInitAnswer(p) /\ ~ToApp
  BY <1>4 DEF FlightInitAnswer, FlightReady, StartAction, Begin, Construct, Proceed, Goto
<1>5. CASE UploadAnswer(p) /\ ~ToApp
  BY <1>5 DEF UploadAnswer, Goto
<1>6. CASE DownloadAnswer(p) /\ ~ToApp
  BY <1>6 DEF DownloadAnswer, Proceed, Goto
<1>7. CASE (AccelAnswer(p) \/ MagnetAnswer(p)) /\ ~ToApp
  BY <1>7 DEF AccelAnswer, MagnetAnswer, Proceed, Goto
<1>8. CASE RadioCheckAnswer(p) /\ ~ToApp
  BY <1>8 DEF RadioCheckAnswer, Proceed, Goto
<1>9. CASE (RadioCalibAnswer(p) \/ RadioCalibChannel(p)) /\ ~ToApp
  BY <1>9 DEF RadioCalibAnswer, RadioCalibChannel, Proceed, Goto
<1>10. CASE (EscAnswer(p) \/ EscBroken(p)) /\ ~ToApp
  BY <1>10 DEF EscAnswer, EscBroken, Proceed, Goto
<1>11. CASE LoggerAnswer(p) /\ ~ToApp
  BY <1>11 DEF LoggerAnswer, Proceed, Goto
<1>12. CASE (DisconnectAnswer(p) \/ UpgradeAnswer(p) \/ ResetAnswer(p)) /\ ~ToApp /\ ~HandleError
  BY <1>12 DEF DisconnectAnswer, UpgradeAnswer, ResetAnswer, HandleError, Proceed, Goto
<1>13. CASE ConnectReady(p)
  BY <1>13, ToAppSettles DEF ConnectReady
<1> QED BY <1>1, <1>2, <1>3, <1>4, <1>5, <1>6, <1>7, <1>8, <1>9, <1>10, <1>11, <1>12,
           <1>13
        DEF Answer

LEMMA ValidPayloadSettles ==
  ASSUME CoreInv, NEW m \in Inbound, ValidPayload(m)
  PROVE  Settled
<1> USE DEF Settled, SettingsNeeded
<1>1. payCmd = AwaitedPayload(act, state, data)
  BY PayloadStateAwaits DEF ValidPayload
<1>2. CASE ConnectData(payCmd)
  <2>1. payCmd = "CALIBRATION_SETTINGS" /\ payCmd \in Acknowledged
    BY <1>1, <1>2, FirstIsAcknowledged DEF ConnectData, AwaitedPayload
  <2> QED BY <1>2, <2>1 DEF ConnectData, Goto
<1>3. CASE FlightInitData(payCmd) /\ state = "CONTROLS_RECEPTION"
  <2>1. payCmd = "CONTROL_SETTINGS" /\ payCmd \in Acknowledged
    BY <1>1, <1>3, FirstIsAcknowledged DEF FlightInitData, AwaitedPayload
  <2> QED BY <1>3, <2>1 DEF FlightInitData, Goto
<1>4. CASE FlightInitData(payCmd) /\ state = "ROUTE_RECEPTION"
  BY <1>4 DEF FlightInitData, FlightReady, StartAction, Begin, Construct, StartState
<1>5. CASE RadioCheckData(payCmd)
  <2>1. payCmd = "CONTROL_SETTINGS" /\ payCmd \in Acknowledged
    BY <1>1, <1>5, FirstIsAcknowledged DEF RadioCheckData, AwaitedPayload
  <2> QED BY <1>5, <2>1 DEF RadioCheckData, Goto
<1>6. CASE DownloadData(payCmd) \/ AccelData(payCmd) \/ MagnetData(payCmd)
  BY <1>6, ToAppSettles DEF DownloadData, AccelData, MagnetData
<1> QED BY <1>2, <1>3, <1>4, <1>5, <1>6 DEF ValidPayload, FlightInitData

LEMMA UserSettles ==
  ASSUME CoreInv, NEW e, NEW a, UserEvent(e, a)
  PROVE  Settled
<1> USE DEF Settled, SettingsNeeded
<1>1. CASE IdleUser(e, a) \/ FlightUser(e, a) \/ MagnetUser(e, a)
  BY <1>1 DEF IdleUser, PrepareAction, Construct, FlightUser, MagnetUser, Proceed, Goto
<1>2. CASE AppUser(e, a)
  BY <1>2, StartSettles DEF AppUser, AppActions, StartAction, ActionTypes
<1>3. CASE RadioCheckUser(e, a) \/ RadioCalibUser(e, a) \/ LoggerUser(e, a)
  BY <1>3 DEF RadioCheckUser, RadioCalibUser, LoggerUser, Goto
<1>4. CASE EscUser(e, a)
  BY <1>4 DEF EscUser, EscMarks
<1> QED BY <1>1, <1>2, <1>3, <1>4 DEF UserEvent

LEMMA HearSettles ==
  ASSUME CoreInv, NEW m \in Inbound, Hear(m)
  PROVE  Settled
<1> USE DEF Settled
<1>1. CASE HearFrame(m) \/ HearPong(m) \/ HearIdly(m)
  BY <1>1 DEF HearFrame, HearPong, HearIdly, core, object
<1>2. CASE FlightHears(m)
  BY <1>2, StartSettles DEF FlightHears, StartAction, ActionTypes
<1>3. CASE RadioCalibHears(m)
  BY <1>3, ToAppSettles DEF RadioCalibHears
<1>4. CASE ForeignPayload(m)
  BY <1>4 DEF ForeignPayload, object
<1>5. CASE InvalidPayload(m)
  BY <1>5, ToAppSettles DEF InvalidPayload, AskAgain, object
<1>6. CASE ValidPayload(m)
  BY <1>6, ValidPayloadSettles
<1>7. CASE UnexpectedMessage(m)
  BY <1>7, ToAppSettles DEF UnexpectedMessage
<1> QED BY <1>1, <1>2, <1>3, <1>4, <1>5, <1>6, <1>7 DEF Hear

LEMMA NextSettles ==
  ASSUME CoreInv, Next, ~FallSilent
  PROVE  Settled /\ KeepHistory
<1> USE DEF Settled
<1>1. CASE Reception
  <2>1. ASSUME NEW p \in Parameters, Answer(p) PROVE Settled
    BY <2>1, AnswerSettles
  <2>2. ASSUME NEW p \in Parameters, UnexpectedAnswer(p) PROVE Settled
    BY <2>2, ToAppSettles DEF UnexpectedAnswer
  <2>3. CASE ForeignSignal
    BY <1>1, <2>3 DEF Reception, ForeignSignal, core, object
  <2>4. ASSUME NEW m \in Inbound, Hear(m) PROVE Settled
    BY <2>4, HearSettles
  <2> QED BY <1>1, <2>1, <2>2, <2>3, <2>4 DEF Reception
<1>2. CASE User
  <2>1. ASSUME NEW i \in UserInputs, RejectUserEvent(i[1], i[2]) PROVE Settled
    BY <2>1 DEF RejectUserEvent, EscRefuses, EscMarks, object
  <2>2. ASSUME NEW i \in UserInputs, UserEvent(i[1], i[2]) PROVE Settled
    BY <2>2, UserSettles
  <2> QED BY <1>2, <2>1, <2>2 DEF User
<1>3. CASE Timeout
  BY <1>3, ToAppSettles DEF Timeout, SignalTimeout, PayloadTimeout, AskAgain, object
<1>4. CASE LossTick
  BY <1>4 DEF LossTick, ConnectionTick, core, object
<1>5. CASE Tick
  BY <1>5 DEF Tick, PingTick, FlightControlTick, core, object
<1>6. CASE Interface
  <2>1. CASE OnConnected
    <3>1. act \in {"CONNECT", "UPGRADE"} /\ act' = act /\ state' = "INITIAL_COMMAND"
      BY <2>1 DEF OnConnected, Goto, CoreInv, ListenerInv, LinkMatchesAction, LinkOf
    <3> QED BY <1>6, <3>1 DEF SettingsNeeded, Interface
  <2>2. CASE LinkError
    <3>1. HandleError
      BY <2>2 DEF LinkError
    <3> QED BY <1>6, <3>1, ToAppSettles DEF Interface
  <2> QED BY <1>6, <2>1, <2>2 DEF Interface
<1> QED BY <1>1, <1>2, <1>3, <1>4, <1>5, <1>6 DEF Next

LEMMA NextSettings ==
  ASSUME CoreInv, CoreInv', SettingsComeFirst, [Next]_vars
  PROVE  SettingsComeFirst'
<1>1. CASE FallSilent \/ UNCHANGED vars
  BY <1>1 DEF FallSilent, vars, core, object, SettingsComeFirst
<1>2. CASE Next /\ ~FallSilent
  <2>1. Settled /\ KeepHistory
    BY <1>2, NextSettles
  <2>2. CASE act' \in {"APP", "IDLE_ACTION"}
    <3>1. SettingsNeeded(act', state') = {}
      BY <2>2 DEF SettingsNeeded, CoreInv, ObjectInv, ObjectOK, StatesOf
    <3> QED BY <3>1 DEF SettingsComeFirst
  <2>3. CASE act' \notin {"APP", "IDLE_ACTION"}
    BY <2>1, <2>3 DEF Settled, KeepHistory, SettingsComeFirst
  <2> QED BY <2>2, <2>3
<1> QED BY <1>1, <1>2

(* No flight, radio check or connection gets by without the settings it    *)
(* runs on.                                                                *)
THEOREM SettingsFirst == Spec => []SettingsComeFirst
<1>1. Init => SettingsComeFirst
  BY DEF Init, SettingsComeFirst, SettingsNeeded
<1>2. CoreInv /\ CoreInv' /\ SettingsComeFirst /\ [Next]_vars => SettingsComeFirst'
  BY NextSettings
<1> QED BY <1>1, <1>2, CoreIsInvariant, PTL DEF Spec
-----------------------------------------------------------------------------
(***************************************************************************)
(* What MulticopterUav tells.                                              *)
(***************************************************************************)

(* The session's events among those the last step reported.                *)
Heard == {e \in SessionEvents : Reports(e)}
-----------------------------------------------------------------------------
(***************************************************************************)
(* What a report tells, with or without a recovered connection before it.  *)
(***************************************************************************)
LEMMA PairOfSingles ==
  ASSUME NEW S, NEW x \in S, NEW y \in S
  PROVE  <<x>> \o <<y>> = <<x, y>>
<1> DEFINE s == <<x>> \o <<y>>
           t == <<x, y>>
<1>1. s \in Seq(S) /\ t \in Seq(S) /\ Len(s) = 2 /\ Len(t) = 2
  OBVIOUS
<1>2. \A i \in 1..2 : s[i] = t[i]
  <2>1. s[1] = x /\ s[2] = y /\ t[1] = x /\ t[2] = y
    OBVIOUS
  <2> QED BY <2>1
<1> HIDE DEF s, t
<1>3. s = t
  BY <1>1, <1>2
<1> QED BY <1>3 DEF s, t

LEMMA ReportTells ==
  ASSUME NEW events \in Seq(Events), Report(events) \/ Notify(events),
         NEW e, e # "CONNECTION_RECOVERED"
  PROVE  Reports(e)' <=> \E i \in DOMAIN events : events[i] = e
<1>1. CASE ev' = events
  BY <1>1 DEF Reports
<1>2. CASE ev' = <<"CONNECTION_RECOVERED">> \o events
  <2>1. "CONNECTION_RECOVERED" \in Events
    BY DEF Events
  <2>2. Len(ev') = Len(events) + 1 /\ Len(events) \in Nat
    BY <1>2, <2>1
  <2>3. ev'[1] = "CONNECTION_RECOVERED"
    BY <1>2, <2>1
  <2>4. \A i \in 1..Len(events) : ev'[i + 1] = events[i]
    BY <1>2, <2>1
  <2>5. DOMAIN ev' = 1..(Len(events) + 1) /\ DOMAIN events = 1..Len(events)
    BY <1>2, <2>1, <2>2
  <2>6. ASSUME Reports(e)' PROVE \E i \in DOMAIN events : events[i] = e
    <3>1. PICK i \in 1..(Len(events) + 1) : ev'[i] = e
      BY <2>5, <2>6 DEF Reports
    <3>2. i # 1
      BY <2>3, <3>1
    <3>3. i - 1 \in 1..Len(events) /\ (i - 1) + 1 = i
      BY <2>2, <3>1, <3>2
    <3> QED BY <2>4, <2>5, <3>1, <3>3
  <2>7. ASSUME NEW i \in DOMAIN events, events[i] = e PROVE Reports(e)'
    <3>1. i \in 1..Len(events) /\ i + 1 \in 1..(Len(events) + 1)
      BY <2>2, <2>5, <2>7
    <3> QED BY <2>4, <2>5, <2>7, <3>1 DEF Reports
  <2> QED BY <2>6, <2>7
<1>3. <<>> \o events = events
  OBVIOUS
<1> QED BY <1>1, <1>2, <1>3 DEF Report, Notify

LEMMA TellsNothing ==
  ASSUME Report(<<>>) \/ Notify(<<>>)
  PROVE  Heard' = {} /\ ~Reports("DATA_RECEIVED")'
<1>1. <<>> \in Seq(Events) /\ DOMAIN <<>> = {}
  OBVIOUS
<1> QED BY <1>1, ReportTells DEF Heard, SessionEvents

LEMMA TellsOne ==
  ASSUME NEW x \in Events, Report(<<x>>) \/ Notify(<<x>>)
  PROVE  /\ Heard' = {x} \cap SessionEvents
         /\ Reports("DATA_RECEIVED")' <=> x = "DATA_RECEIVED"
<1>1. <<x>> \in Seq(Events) /\ DOMAIN <<x>> = {1}
  OBVIOUS
<1>2. ASSUME NEW e, e # "CONNECTION_RECOVERED" PROVE Reports(e)' <=> e = x
  <2>1. Reports(e)' <=> \E i \in DOMAIN <<x>> : <<x>>[i] = e
    BY <1>1, <1>2, ReportTells
  <2> QED BY <1>1, <2>1
<1>3. Heard' = {x} \cap SessionEvents
  <2>1. \A e \in SessionEvents : Reports(e)' <=> e = x
    BY <1>2 DEF SessionEvents
  <2>2. Heard' = {e \in SessionEvents : Reports(e)'}
    BY DEF Heard, SessionEvents
  <2> QED BY <2>1, <2>2, Zenon
<1>4. Reports("DATA_RECEIVED")' <=> x = "DATA_RECEIVED"
  BY <1>2
<1> QED BY <1>3, <1>4

LEMMA TellsTwo ==
  ASSUME NEW x \in Events, NEW y \in Events, Report(<<x, y>>)
  PROVE  /\ Heard' = {x, y} \cap SessionEvents
         /\ Reports("DATA_RECEIVED")' <=> "DATA_RECEIVED" \in {x, y}
<1>1. <<x, y>> \in Seq(Events) /\ DOMAIN <<x, y>> = {1, 2}
  OBVIOUS
<1>2. ASSUME NEW e, e # "CONNECTION_RECOVERED" PROVE Reports(e)' <=> e \in {x, y}
  <2>1. Reports(e)' <=> \E i \in DOMAIN <<x, y>> : <<x, y>>[i] = e
    BY <1>1, <1>2, ReportTells
  <2> QED BY <1>1, <2>1
<1>3. Heard' = {x, y} \cap SessionEvents
  BY <1>2 DEF Heard, SessionEvents
<1>4. Reports("DATA_RECEIVED")' <=> "DATA_RECEIVED" \in {x, y}
  BY <1>2
<1> QED BY <1>3, <1>4

LEMMA TellsThree ==
  ASSUME NEW x \in Events, NEW y \in Events, NEW z \in Events, Report(<<x, y, z>>)
  PROVE  Heard' = {x, y, z} \cap SessionEvents
<1>1. <<x, y, z>> \in Seq(Events) /\ DOMAIN <<x, y, z>> = {1, 2, 3}
  OBVIOUS
<1>2. ASSUME NEW e, e # "CONNECTION_RECOVERED" PROVE Reports(e)' <=> e \in {x, y, z}
  <2>1. Reports(e)' <=> \E i \in DOMAIN <<x, y, z>> : <<x, y, z>>[i] = e
    BY <1>1, <1>2, ReportTells
  <2> QED BY <1>1, <2>1
<1>3. Heard' = {x, y, z} \cap SessionEvents
  BY <1>2 DEF Heard, SessionEvents
<1> QED BY <1>3
-----------------------------------------------------------------------------
(***************************************************************************)
(* The moves of a session, as steps of the application make them.          *)
(***************************************************************************)
Phases == {"idle", "opening", "loop", "busy", "flight"}

PhaseGoes(from, to) == Phase \in from /\ Phase' = to

SessionMove ==
    \/ Phase' = Phase /\ Heard' = {}
    \/ PhaseGoes({"idle"}, "opening") /\ Heard' = {}
    \/ PhaseGoes({"loop", "opening"}, "busy") /\ Heard' = {}
    \/ PhaseGoes({"opening"}, "loop") /\ Heard' = {"APPLICATION_LOOP_STARTED"}
    \/ PhaseGoes({"busy"}, "loop") /\ Heard' = {}
    \/ PhaseGoes({"busy"}, "flight") /\ Heard' = {"FLIGHT_LOOP_STARTED"}
    \/ PhaseGoes({"flight"}, "loop")
         /\ Heard' \in {{"FLIGHT_LOOP_ENDED"}, {"FLIGHT_LOOP_TERMINATED"}}
    \/ PhaseGoes({"busy"}, "idle")
         /\ Heard' \in {{"APPLICATION_LOOP_ENDED"}, {"APPLICATION_LOOP_TERMINATED"}}
    \/ PhaseGoes(Phases, "idle") /\ Heard' = {"ERROR"}

LEMMA MovesAreSessionSteps ==
  ASSUME SessionMove
  PROVE  [Session!Next]_(Session!vars)
BY Zenon
DEF SessionMove, PhaseGoes, Phases, Heard, Session!Next, Session!Open, Session!Begin,
    Session!Enter, Session!Return, Session!TakeOff, Session!Land, Session!Close,
    Session!Break, Session!Stay, Session!Move

LEMMA PhaseIsPhase == Phase \in Phases
BY DEF Phase, Phases

(* What most steps do: stay in the action, or in its phase.                *)
LEMMA StaysInPhase ==
  ASSUME act' = act, act # "UPGRADE" \/ state' = state \/ (state # "IDLE" /\ state' # "IDLE")
  PROVE  Phase' = Phase
BY DEF Phase

LEMMA ReturnsToLoop ==
  ASSUME CoreInv, ToApp \/ \E c : DeliverToApp(c), NEW E, Heard' = E,
         \/ Phase = "busy" /\ E = {}
         \/ act = "CONNECT" /\ E = {"APPLICATION_LOOP_STARTED"}
  PROVE  SessionMove
<1>1. Phase' = "loop"
  BY DEF ToApp, DeliverToApp, StartAction, Begin, Construct, Phase
<1> QED BY <1>1 DEF SessionMove, PhaseGoes, Phase

LEMMA ErrorBreaks ==
  ASSUME HandleError, Report(<<"ERROR">>) \/ Notify(<<"ERROR">>)
  PROVE  SessionMove
<1>1. Phase' = "idle"
  BY DEF HandleError, ToIdle, Begin, Construct, Phase
<1>2. Heard' = {"ERROR"}
  BY TellsOne DEF Events, SessionEvents
<1> QED BY <1>1, <1>2, PhaseIsPhase DEF SessionMove, PhaseGoes
-----------------------------------------------------------------------------
(***************************************************************************)
(* The handlers.                                                           *)
(***************************************************************************)
(* A step that tells nothing of the session.                               *)
Quiet ==
    \/ Report(<<>>) \/ Notify(<<>>)
    \/ \E x \in Events \ SessionEvents : Report(<<x>>) \/ Notify(<<x>>)
    \/ \E x, y \in Events \ SessionEvents : Report(<<x, y>>)
    \/ \E x, y, z \in Events \ SessionEvents : Report(<<x, y, z>>)

LEMMA QuietTells ==
  ASSUME Quiet
  PROVE  Heard' = {}
<1>1. CASE Report(<<>>) \/ Notify(<<>>)
  BY <1>1, TellsNothing
<1>2. ASSUME NEW x \in Events \ SessionEvents, Report(<<x>>) \/ Notify(<<x>>)
      PROVE  Heard' = {}
  BY <1>2, TellsOne
<1>3. ASSUME NEW x \in Events \ SessionEvents, NEW y \in Events \ SessionEvents,
             Report(<<x, y>>)
      PROVE  Heard' = {}
  BY <1>3, TellsTwo
<1>4. ASSUME NEW x \in Events \ SessionEvents, NEW y \in Events \ SessionEvents,
             NEW z \in Events \ SessionEvents, Report(<<x, y, z>>)
      PROVE  Heard' = {}
  BY <1>4, TellsThree
<1> QED BY <1>1, <1>2, <1>3, <1>4 DEF Quiet

LEMMA QuietStep ==
  ASSUME Phase' = Phase, Quiet
  PROVE  SessionMove
BY QuietTells DEF SessionMove

(* The procedures that begin and end in the loop.                          *)
Procedures == ActionTypes \ {"IDLE_ACTION", "CONNECT", "UPGRADE", "APP", "FLIGHT"}

LEMMA ProcedureStep ==
  ASSUME Quiet, \/ act \in Procedures /\ act' = act
                \/ Phase = "busy" /\ act' = "APP"
  PROVE  SessionMove
<1>1. CASE act' = act
  BY <1>1, QuietStep DEF Phase, Procedures
<1>2. CASE act' = "APP"
  <2>1. Phase' = "loop"
    BY <1>2 DEF Phase
  <2> QED BY <1>2, <2>1, QuietTells DEF SessionMove, PhaseGoes, Phase, Procedures
<1> QED BY <1>1, <1>2

LEMMA ToAppIsApp ==
  ASSUME ToApp \/ \E c : DeliverToApp(c)
  PROVE  act' = "APP"
BY DEF ToApp, DeliverToApp, StartAction, Begin, Construct

LEMMA ConnectTells ==
  ASSUME CoreInv, NEW p \in Parameters,
         ConnectAnswer(p) \/ ConnectNonStatic(p) \/ ConnectReady(p) \/ ConnectData(payCmd)
  PROVE  SessionMove
<1>1. CASE ConnectAnswer(p)
  BY <1>1, StaysInPhase, QuietStep DEF ConnectAnswer, Proceed, Goto, Quiet
<1>2. CASE ConnectNonStatic(p)
  BY <1>2, StaysInPhase, QuietStep DEF ConnectNonStatic, Quiet, Events, SessionEvents
<1>3. CASE ConnectReady(p)
  <2>1. Heard' = {"APPLICATION_LOOP_STARTED"}
    BY <1>3, TellsOne DEF ConnectReady, Events, SessionEvents
  <2> QED BY <1>3, <2>1, ReturnsToLoop DEF ConnectReady
<1>4. CASE ConnectData(payCmd)
  BY <1>4, StaysInPhase, QuietStep DEF ConnectData, Goto, Quiet, Events, SessionEvents
<1> QED BY <1>1, <1>2, <1>3, <1>4

(* The three ways out.                                                     *)
LEMMA LeavingTells ==
  ASSUME CoreInv, sig, NEW p \in Parameters,
         DisconnectAnswer(p) \/ UpgradeAnswer(p) \/ ResetAnswer(p)
  PROVE  SessionMove
<1>1. Phase = "busy"
  BY DEF DisconnectAnswer, UpgradeAnswer, ResetAnswer, Phase
<1>2. ASSUME ToIdle, NEW e \in {"APPLICATION_LOOP_ENDED", "APPLICATION_LOOP_TERMINATED"},
             Heard' = {e}
      PROVE  SessionMove
  <2>1. Phase' = "idle"
    BY <1>2 DEF ToIdle, Begin, Construct, Phase
  <2> QED BY <1>1, <1>2, <2>1 DEF SessionMove, PhaseGoes
<1>3. CASE DisconnectAnswer(p)
  <2>1. CASE p = "BREAK_ACK"
    <3>1. Heard' = {"APPLICATION_LOOP_ENDED"}
      BY <1>3, <2>1, TellsOne DEF DisconnectAnswer, Events, SessionEvents
    <3> QED BY <1>2, <1>3, <2>1, <3>1 DEF DisconnectAnswer
  <2>2. CASE p # "BREAK_ACK"
    BY <1>3, <2>2, StaysInPhase, QuietStep DEF DisconnectAnswer, Proceed, Goto, Quiet
  <2> QED BY <2>1, <2>2
<1>4. CASE UpgradeAnswer(p)
  <2>1. CASE p = "ACK"
    <3>1. Report(<<"UPGRADE_STARTED", "APPLICATION_LOOP_TERMINATED">>)
      BY <1>4, <2>1 DEF UpgradeAnswer
    <3>2. Heard' = {"UPGRADE_STARTED", "APPLICATION_LOOP_TERMINATED"} \cap SessionEvents
      <4>1. {"UPGRADE_STARTED", "APPLICATION_LOOP_TERMINATED"} \subseteq Events
        BY DEF Events
      <4> QED BY <3>1, <4>1, TellsTwo
    <3>3. Heard' = {"APPLICATION_LOOP_TERMINATED"}
      BY <3>2 DEF SessionEvents
    <3> QED BY <1>2, <1>4, <2>1, <3>3 DEF UpgradeAnswer
  <2>2. CASE p = "NOT_ALLOWED"
    BY <1>1, <1>4, <2>2, ProcedureStep, ToAppIsApp
    DEF UpgradeAnswer, Quiet, Events, SessionEvents
  <2> QED BY <1>4, <2>1, <2>2 DEF UpgradeAnswer
<1>5. CASE ResetAnswer(p)
  <2>1. Heard' = {"APPLICATION_LOOP_TERMINATED"}
    BY <1>5, TellsOne DEF ResetAnswer, Events, SessionEvents
  <2> QED BY <1>2, <1>5, <2>1 DEF ResetAnswer
<1> QED BY <1>3, <1>4, <1>5

(* Every other answer, and every other payload, leaves the procedure where *)
(* it is or ends it, in the loop.                                          *)
GoesOnOrEnds == act \in Procedures /\ act' \in {act, "APP"} /\ Quiet

LEMMA ProceduresTell ==
  ASSUME GoesOnOrEnds
  PROVE  SessionMove
<1>1. Phase = "busy"
  BY DEF GoesOnOrEnds, Procedures, Phase
<1> QED BY <1>1, ProcedureStep DEF GoesOnOrEnds

LEMMA UploadTells ==
  ASSUME NEW p, UploadAnswer(p) \/ DownloadAnswer(p) \/ DownloadData(payCmd)
  PROVE  GoesOnOrEnds
<1> USE DEF GoesOnOrEnds, Procedures, ActionTypes
<1>1. CASE UploadAnswer(p)
  BY <1>1, ToAppIsApp DEF UploadAnswer, Goto, Quiet, Events, SessionEvents
<1>2. CASE DownloadAnswer(p)
  BY <1>2, ToAppIsApp
  DEF DownloadAnswer, DownloadFailEvent, Proceed, Goto, Quiet, Events, SessionEvents
<1>3. CASE DownloadData(payCmd)
  BY <1>3, ToAppIsApp DEF DownloadData, DeliverToApp, Quiet, Events, SessionEvents
<1> QED BY <1>1, <1>2, <1>3

LEMMA MotionTells ==
  ASSUME NEW p, \/ AccelAnswer(p) \/ AccelData(payCmd)
                \/ MagnetAnswer(p) \/ MagnetData(payCmd)
  PROVE  GoesOnOrEnds
<1> USE DEF GoesOnOrEnds, Procedures, ActionTypes
<1>1. CASE AccelAnswer(p)
  BY <1>1, ToAppIsApp DEF AccelAnswer, Proceed, Goto, Quiet, Events, SessionEvents
<1>2. CASE AccelData(payCmd)
  BY <1>2, ToAppIsApp DEF AccelData, DeliverToApp, Quiet, Events, SessionEvents
<1>3. CASE MagnetAnswer(p)
  BY <1>3, ToAppIsApp DEF MagnetAnswer, Proceed, Goto, Quiet, Events, SessionEvents
<1>4. CASE MagnetData(payCmd)
  BY <1>4, ToAppIsApp DEF MagnetData, DeliverToApp, Quiet, Events, SessionEvents
<1> QED BY <1>1, <1>2, <1>3, <1>4

LEMMA RadioTells ==
  ASSUME NEW p, NEW m,
         \/ RadioCheckAnswer(p) \/ RadioCheckData(payCmd)
         \/ RadioCalibAnswer(p) \/ RadioCalibChannel(p) \/ RadioCalibHears(m)
  PROVE  GoesOnOrEnds
<1> USE DEF GoesOnOrEnds, Procedures, ActionTypes
<1>1. CASE RadioCheckAnswer(p)
  BY <1>1, ToAppIsApp DEF RadioCheckAnswer, Proceed, Goto, Quiet, Events, SessionEvents
<1>2. CASE RadioCheckData(payCmd)
  BY <1>2 DEF RadioCheckData, Goto, Quiet, Events, SessionEvents
<1>3. CASE RadioCalibAnswer(p)
  <2>1. {"CALIBRATE_RADIO_STARTED", "CALIBRATE_RADIO_NOT_ALLOWED", "CALIBRATE_RADIO_FAIL",
         "CALIBRATE_RADIO_ENDED", "WARNING", "INFO"} \subseteq Events \ SessionEvents
    BY DEF Events, SessionEvents
  <2>2. Quiet
    BY <1>3, <2>1 DEF RadioCalibAnswer, Quiet
  <2> QED BY <1>3, <2>2, ToAppIsApp DEF RadioCalibAnswer, Proceed, Goto
<1>4. CASE RadioCalibChannel(p)
  BY <1>4 DEF RadioCalibChannel, Quiet, Events, SessionEvents
<1>5. CASE RadioCalibHears(m)
  BY <1>5, ToAppIsApp DEF RadioCalibHears, Quiet, Events, SessionEvents
<1> QED BY <1>1, <1>2, <1>3, <1>4, <1>5

LEMMA EscTells ==
  ASSUME NEW p, EscAnswer(p) \/ EscBroken(p) \/ LoggerAnswer(p)
  PROVE  GoesOnOrEnds
<1> USE DEF GoesOnOrEnds, Procedures, ActionTypes
<1>1. CASE EscAnswer(p)
  BY <1>1, ToAppIsApp DEF EscAnswer, Proceed, Goto, Quiet, Events, SessionEvents
<1>2. CASE EscBroken(p)
  BY <1>2, ToAppIsApp DEF EscBroken, Quiet, Events, SessionEvents
<1>3. CASE LoggerAnswer(p)
  BY <1>3, ToAppIsApp DEF LoggerAnswer, Proceed, Goto, Quiet, Events, SessionEvents
<1> QED BY <1>1, <1>2, <1>3

(* A flight begins, and ends.                                              *)
LEMMA FlightInitTells ==
  ASSUME NEW p, FlightInitAccepted(p) \/ FlightInitAnswer(p) \/ FlightInitData(payCmd)
  PROVE  SessionMove
<1>1. ASSUME act = "FLIGHT_INITIALIZATION", NEW before,
             NEW x \in Events \ SessionEvents, FlightReady(before, <<x>>)
      PROVE  SessionMove
  <2>1. Phase = "busy" /\ Phase' = "flight"
    BY <1>1 DEF FlightReady, StartAction, Begin, Construct, Phase
  <2>2. Report(<<x, "FLIGHT_LOOP_STARTED">>)
    <3>1. Report(<<x>> \o <<"FLIGHT_LOOP_STARTED">>)
      BY <1>1 DEF FlightReady
    <3>2. x \in Events /\ "FLIGHT_LOOP_STARTED" \in Events
      BY <1>1 DEF Events
    <3>3. <<x>> \o <<"FLIGHT_LOOP_STARTED">> = <<x, "FLIGHT_LOOP_STARTED">>
      BY <3>2, PairOfSingles
    <3> QED BY <3>1, <3>3
  <2>3. Heard' = {x, "FLIGHT_LOOP_STARTED"} \cap SessionEvents
    <3>1. x \in Events /\ "FLIGHT_LOOP_STARTED" \in Events
      BY <1>1 DEF Events
    <3> QED BY <2>2, <3>1, TellsTwo
  <2>4. Heard' = {"FLIGHT_LOOP_STARTED"}
    BY <2>3 DEF SessionEvents
  <2> QED BY <2>1, <2>4 DEF SessionMove, PhaseGoes
<1>2. CASE FlightInitAccepted(p)
  <2>1. GoesOnOrEnds
    BY <1>2 DEF FlightInitAccepted, Proceed, Goto, Quiet, GoesOnOrEnds, Procedures, ActionTypes
  <2> QED BY <2>1, ProceduresTell
<1>3. CASE FlightInitAnswer(p)
  <2>1. CASE p = "VIA_ROUTE_NOT_ALLOWED"
    BY <1>1, <1>3, <2>1 DEF FlightInitAnswer, Events, SessionEvents
  <2>2. CASE p # "VIA_ROUTE_NOT_ALLOWED"
    <3>1. GoesOnOrEnds
      BY <1>3, <2>2, ToAppIsApp
      DEF FlightInitAnswer, Proceed, Goto, Quiet, Events, SessionEvents, GoesOnOrEnds,
          Procedures, ActionTypes
    <3> QED BY <3>1, ProceduresTell
  <2> QED BY <2>1, <2>2
<1>4. CASE FlightInitData(payCmd)
  <2>1. CASE state = "ROUTE_RECEPTION"
    BY <1>1, <1>4, <2>1 DEF FlightInitData, Events, SessionEvents
  <2>2. CASE state # "ROUTE_RECEPTION"
    <3>1. GoesOnOrEnds
      BY <1>4, <2>2
      DEF FlightInitData, Goto, Quiet, Events, SessionEvents, GoesOnOrEnds,
          Procedures, ActionTypes
    <3> QED BY <3>1, ProceduresTell
  <2> QED BY <2>1, <2>2
<1> QED BY <1>2, <1>3, <1>4

LEMMA FlightTells ==
  ASSUME NEW m, FlightHears(m)
  PROVE  SessionMove
<1>1. PICK e \in {"FLIGHT_LOOP_ENDED", "FLIGHT_LOOP_TERMINATED"} : Report(<<e>>)
  BY DEF FlightHears
<1>2. Heard' = {e}
  <2>1. e \in Events /\ e \in SessionEvents
    BY DEF Events, SessionEvents
  <2>2. Heard' = {e} \cap SessionEvents
    BY <1>1, <2>1, TellsOne
  <2> QED BY <2>1, <2>2
<1>3. Phase = "flight" /\ Phase' = "loop"
  BY DEF FlightHears, StartAction, Begin, Construct, Phase
<1> QED BY <1>2, <1>3 DEF SessionMove, PhaseGoes
-----------------------------------------------------------------------------
(***************************************************************************)
(* The steps.                                                              *)
(***************************************************************************)
LEMMA AnswerTells ==
  ASSUME CoreInv, NEW p \in Parameters, Answer(p) \/ UnexpectedAnswer(p)
  PROVE  SessionMove
<1>1. CASE Answer(p)
  BY <1>1, ConnectTells, LeavingTells, UploadTells, MotionTells, RadioTells, EscTells,
     FlightInitTells, ProceduresTell, Zenon
  DEF Answer
<1>2. CASE UnexpectedAnswer(p)
  BY <1>2, ErrorBreaks DEF UnexpectedAnswer
<1> QED BY <1>1, <1>2

LEMMA StutterTells ==
  ASSUME UNCHANGED core, Quiet
  PROVE  SessionMove
BY QuietStep DEF core, object, Phase

LEMMA HearTells ==
  ASSUME CoreInv, NEW m \in Inbound, Hear(m)
  PROVE  SessionMove
<1>1. CASE HearFrame(m)
  BY <1>1, StutterTells DEF HearFrame, Quiet, Events, SessionEvents
<1>2. CASE HearPong(m)
  BY <1>2, StutterTells DEF HearPong, Quiet, Events, SessionEvents
<1>3. CASE HearIdly(m)
  BY <1>3, StutterTells DEF HearIdly, Quiet
<1>4. CASE FlightHears(m)
  BY <1>4, FlightTells
<1>5. CASE RadioCalibHears(m)
  BY <1>5, RadioTells, ProceduresTell
<1>6. CASE ForeignPayload(m)
  BY <1>6, QuietStep DEF ForeignPayload, object, Phase, Quiet
<1>7. CASE InvalidPayload(m)
  BY <1>7, QuietStep, ErrorBreaks DEF InvalidPayload, AskAgain, object, Phase, Quiet
<1>8. CASE ValidPayload(m)
  <2>1. PICK p \in Parameters : TRUE
    BY DEF Parameters
  <2> QED BY <1>8, <2>1, ConnectTells, UploadTells, FlightInitTells, MotionTells,
             RadioTells, ProceduresTell, Zenon
          DEF ValidPayload
<1>9. CASE UnexpectedMessage(m)
  BY <1>9, ErrorBreaks DEF UnexpectedMessage
<1> QED BY <1>1, <1>2, <1>3, <1>4, <1>5, <1>6, <1>7, <1>8, <1>9 DEF Hear

(* What the user does is answered by no event, but it opens a session or   *)
(* begins a procedure.                                                     *)
LEMMA UserTells ==
  ASSUME CoreInv, NEW e, NEW a, UserEvent(e, a) \/ RejectUserEvent(e, a)
  PROVE  SessionMove
<1>1. CASE IdleUser(e, a)
  <2>1. Phase = "idle" /\ Phase' = "opening"
    BY <1>1 DEF IdleUser, PrepareAction, Construct, Phase
  <2>2. Heard' = {}
    BY <1>1, TellsNothing DEF IdleUser
  <2> QED BY <2>1, <2>2 DEF SessionMove, PhaseGoes
<1>2. CASE AppUser(e, a)
  <2>1. Phase = "loop" /\ Phase' = "busy"
    BY <1>2 DEF AppUser, AppActions, StartAction, Begin, Construct, StartState, Phase
  <2>2. Heard' = {}
    BY <1>2, TellsNothing DEF AppUser
  <2> QED BY <2>1, <2>2 DEF SessionMove, PhaseGoes
<1>3. CASE FlightUser(e, a) \/ MagnetUser(e, a) \/ RadioCheckUser(e, a)
  BY <1>3, QuietStep DEF FlightUser, MagnetUser, RadioCheckUser, Proceed, Goto, Phase, Quiet
<1>4. CASE RadioCalibUser(e, a) \/ LoggerUser(e, a)
  BY <1>4, QuietStep DEF RadioCalibUser, LoggerUser, Goto, Phase, Quiet
<1>5. CASE EscUser(e, a)
  BY <1>5, QuietStep DEF EscUser, EscMarks, Phase, Quiet
<1>6. CASE RejectUserEvent(e, a)
  BY <1>6, QuietStep DEF RejectUserEvent, EscRefuses, EscMarks, object, Phase, Quiet
<1> QED BY <1>1, <1>2, <1>3, <1>4, <1>5, <1>6 DEF UserEvent

LEMMA ConnectedTells ==
  ASSUME CoreInv, OnConnected
  PROVE  SessionMove
<1>1. act \in {"CONNECT", "UPGRADE"} /\ state = "IDLE" /\ act' = act
      /\ state' = "INITIAL_COMMAND"
  BY DEF OnConnected, Goto, CoreInv, ListenerInv, LinkMatchesAction, LinkOf
<1>2. Heard' = {}
  BY TellsNothing DEF OnConnected
<1> QED BY <1>1, <1>2 DEF SessionMove, PhaseGoes, Phase

LEMMA NextTells ==
  ASSUME CoreInv, [Next]_vars
  PROVE  SessionMove \/ UNCHANGED <<Phase, Heard>>
<1>1. CASE Reception
  <2>1. CASE ForeignSignal
    BY <2>1, StutterTells DEF ForeignSignal, Quiet
  <2> QED BY <1>1, <2>1, AnswerTells, HearTells DEF Reception
<1>2. CASE User
  BY <1>2, UserTells DEF User
<1>3. CASE Timeout
  BY <1>3, ErrorBreaks, QuietStep
  DEF Timeout, SignalTimeout, PayloadTimeout, AskAgain, object, Phase, Quiet
<1>4. CASE LossTick
  BY <1>4, StutterTells DEF LossTick, ConnectionTick, Quiet, Events, SessionEvents
<1>5. CASE Tick
  BY <1>5, QuietStep DEF Tick, PingTick, FlightControlTick, core, object, Phase, Quiet
<1>6. CASE Interface
  BY <1>6, ConnectedTells, ErrorBreaks DEF Interface, LinkError
<1>7. CASE FallSilent \/ UNCHANGED vars
  BY <1>7 DEF FallSilent, vars, core, object, Phase, Heard, Reports
<1> QED BY <1>1, <1>2, <1>3, <1>4, <1>5, <1>6, <1>7 DEF Next

(* The monitor of MulticopterUav is told the session as UavSession has it: *)
(* every change of phase, and none that did not happen.                    *)
THEOREM SessionIsTold == Spec => ImplementsSession
<1>1. Init => Session!Init
  BY DEF Init, Session!Init, Phase, Reports
<1>2. CoreInv /\ [Next]_vars => [Session!Next]_(Session!vars)
  <2>1. ASSUME UNCHANGED <<Phase, Heard>> PROVE UNCHANGED Session!vars
    BY <2>1 DEF Session!vars, Heard
  <2> QED BY <2>1, NextTells, MovesAreSessionSteps
<1> QED BY <1>1, <1>2, CoreIsInvariant, PTL DEF Spec, ImplementsSession, Session!Spec
-----------------------------------------------------------------------------
(***************************************************************************)
(* The timer.                                                              *)
(***************************************************************************)

(* A loop, and an action that waits for the user, has no timer running.    *)
LEMMA LoopsAreUntimed ==
  ASSUME CoreInv, act \in Loops
  PROVE  ~timer
BY DEF CoreInv, ObjectInv, ObjectOK, StatesOf, WaitInv, SignalWaitsAreArmed, SignalState,
       PayloadWaitsAreArmed, DataState, TimeoutIsAwaited, Loops

(* What a step that stops the timer of a state it stays in must be.        *)
StopsInPlace == timer /\ ~timer' /\ act' = act /\ state' = state

Excused == act = "DISCONNECT" \/ \E m \in Inbound : ForeignPayload(m)

(* A new object that starts on a loop is not the old one.                  *)
LEMMA NewLoopIsElsewhere ==
  ASSUME CoreInv, StopsInPlace,
         \/ ToApp \/ HandleError \/ ToIdle \/ \E c : DeliverToApp(c)
         \/ \E t, d, before : StartAction(t, d, before)
  PROVE  FALSE
<1>1. PICK t, d : Begin(t, d)
  BY DEF ToApp, HandleError, ToIdle, DeliverToApp, StartAction
<1>2. act' = t /\ (t \in Loops \/ timer')
  BY <1>1 DEF Begin, Construct
<1> QED BY <1>2, LoopsAreUntimed DEF StopsInPlace

LEMMA AnswerStops ==
  ASSUME CoreInv, NEW p \in Parameters, Answer(p) \/ UnexpectedAnswer(p), StopsInPlace
  PROVE  Excused
<1>1. ~ToApp /\ ~ToIdle /\ ~HandleError /\ (\A b, ev2 : ~FlightReady(b, ev2))
  BY NewLoopIsElsewhere DEF FlightReady
<1> USE <1>1 DEF StopsInPlace, Excused, Proceed, Goto, AwaitSignal, AwaitPayload
<1>2. CASE ConnectAnswer(p) \/ ConnectNonStatic(p) \/ ConnectReady(p)
  BY <1>2 DEF ConnectAnswer, ConnectNonStatic, ConnectReady
<1>3. CASE DisconnectAnswer(p) \/ UpgradeAnswer(p) \/ ResetAnswer(p)
  BY <1>3 DEF DisconnectAnswer, UpgradeAnswer, ResetAnswer
<1>4. CASE UploadAnswer(p) \/ DownloadAnswer(p)
  BY <1>4 DEF UploadAnswer, DownloadAnswer, Transmit
<1>5. CASE FlightInitAccepted(p) \/ FlightInitAnswer(p)
  BY <1>5 DEF FlightInitAccepted, FlightInitAnswer
<1>6. CASE AccelAnswer(p) \/ MagnetAnswer(p) \/ RadioCheckAnswer(p)
  BY <1>6 DEF AccelAnswer, MagnetAnswer, RadioCheckAnswer
<1>7. CASE RadioCalibAnswer(p) \/ RadioCalibChannel(p)
  BY <1>7 DEF RadioCalibAnswer, RadioCalibChannel
<1>8. CASE EscAnswer(p) \/ EscBroken(p) \/ LoggerAnswer(p)
  BY <1>8 DEF EscAnswer, EscBroken, LoggerAnswer
<1>9. CASE UnexpectedAnswer(p)
  BY <1>9 DEF UnexpectedAnswer
<1> QED BY <1>2, <1>3, <1>4, <1>5, <1>6, <1>7, <1>8, <1>9 DEF Answer

LEMMA HearStops ==
  ASSUME CoreInv, NEW m \in Inbound, Hear(m), StopsInPlace
  PROVE  Excused
<1>1. /\ ~ToApp /\ ~ToIdle /\ ~HandleError /\ (\A c : ~DeliverToApp(c))
      /\ (\A b, ev2 : ~FlightReady(b, ev2)) /\ (\A t, d, b : ~StartAction(t, d, b))
  BY NewLoopIsElsewhere DEF FlightReady
<1> USE <1>1 DEF StopsInPlace
<1>2. CASE HearFrame(m) \/ HearPong(m) \/ HearIdly(m)
  BY <1>2 DEF HearFrame, HearPong, HearIdly, core, procedure
<1>3. CASE FlightHears(m) \/ RadioCalibHears(m)
  BY <1>3 DEF FlightHears, RadioCalibHears
<1>4. CASE ForeignPayload(m)
  BY <1>4 DEF Excused
<1>5. CASE InvalidPayload(m) \/ UnexpectedMessage(m)
  BY <1>5 DEF InvalidPayload, UnexpectedMessage, AskAgain
<1>6. CASE ValidPayload(m)
  BY <1>6 DEF ValidPayload, ConnectData, DownloadData, FlightInitData, AccelData, MagnetData,
              RadioCheckData, Goto, AwaitSignal
<1> QED BY <1>2, <1>3, <1>4, <1>5, <1>6 DEF Hear

LEMMA UserStops ==
  ASSUME CoreInv, NEW e, NEW a, UserEvent(e, a) \/ RejectUserEvent(e, a), StopsInPlace
  PROVE  Excused
<1>1. \A t, d, b : ~StartAction(t, d, b)
  BY NewLoopIsElsewhere
<1> USE <1>1 DEF StopsInPlace
<1>2. CASE IdleUser(e, a) \/ AppUser(e, a) \/ FlightUser(e, a)
  BY <1>2 DEF IdleUser, PrepareAction, Construct, AppUser, FlightUser, procedure
<1>3. CASE MagnetUser(e, a) \/ RadioCheckUser(e, a) \/ RadioCalibUser(e, a)
  BY <1>3 DEF MagnetUser, RadioCheckUser, RadioCalibUser, SendSignal
<1>4. CASE EscUser(e, a) \/ LoggerUser(e, a)
  BY <1>4 DEF EscUser, LoggerUser, SendSignal
<1>5. CASE RejectUserEvent(e, a)
  BY <1>5 DEF RejectUserEvent, procedure
<1> QED BY <1>2, <1>3, <1>4, <1>5 DEF UserEvent

LEMMA NextStops ==
  ASSUME CoreInv, [Next]_vars, StopsInPlace
  PROVE  Excused
<1>1. CASE Reception
  <2>1. ~ForeignSignal
    BY DEF ForeignSignal, StopsInPlace, core, procedure
  <2> QED BY <1>1, <2>1, AnswerStops, HearStops DEF Reception
<1>2. CASE User
  BY <1>2, UserStops DEF User
<1>3. ~HandleError
  BY NewLoopIsElsewhere
<1>4. CASE Timeout
  BY <1>3, <1>4 DEF Timeout, SignalTimeout, PayloadTimeout, AskAgain, StopsInPlace
<1>5. CASE LossTick \/ Tick
  BY <1>5 DEF LossTick, ConnectionTick, Tick, PingTick, FlightControlTick, core, procedure,
              StopsInPlace
<1>6. CASE Interface
  BY <1>3, <1>6 DEF Interface, OnConnected, LinkError, SendSignal, StopsInPlace
<1>7. CASE FallSilent \/ UNCHANGED vars
  BY <1>7 DEF FallSilent, vars, core, procedure, StopsInPlace
<1> QED BY <1>1, <1>2, <1>4, <1>5, <1>6, <1>7 DEF Next

(* A state that stays without the timer it had is one of the two hangs.    *)
THEOREM TimerStops == Spec => TimerStopsWithItsWait
<1>1. CoreInv /\ [Next]_vars =>
        [timer /\ ~timer' /\ act' = act /\ state' = state =>
           act = "DISCONNECT" \/ \E m \in Inbound : ForeignPayload(m)]_vars
  BY NextStops DEF StopsInPlace, Excused
<1> QED BY <1>1, CoreIsInvariant, PTL DEF Spec, TimerStopsWithItsWait
-----------------------------------------------------------------------------
(***************************************************************************)
(* Data that arrived.                                                      *)
(***************************************************************************)
NoAck  == \A c \in PayloadCommands : ~Sends(Signal(c, "ACK"))
NoData == ~Reports("DATA_RECEIVED") /\ NoAck

(* The step delivers the payload awaited, and tells the board so.          *)
Delivers ==
    /\ Reports("DATA_RECEIVED")'
    /\ \A c \in PayloadCommands : Sends(Signal(c, "ACK"))' <=> c = payCmd
    /\ pay' # "on"

LEMMA SignalsDiffer ==
  ASSUME NEW c, NEW p, NEW d, NEW q
  PROVE  Signal(c, p) = Signal(d, q) <=> c = d /\ p = q
<1>1. Signal(c, p).cmd = c /\ Signal(c, p).par = p /\ Signal(d, q).cmd = d
      /\ Signal(d, q).par = q
  BY DEF Signal
<1> QED BY <1>1

LEMMA SilentSends ==
  ASSUME SendNothing
  PROVE  NoAck'
BY DEF SendNothing, NoAck, Sends

LEMMA AskSends ==
  ASSUME NEW c, NEW p, p # "ACK", out' = <<Signal(c, p)>>
  PROVE  NoAck'
<1>1. \A d : Signal(d, "ACK") # Signal(c, p)
  BY SignalsDiffer
<1>2. DOMAIN out' = {1} /\ out'[1] = Signal(c, p)
  OBVIOUS
<1> QED BY <1>1, <1>2 DEF NoAck, Sends

LEMMA AckSends ==
  ASSUME NEW p, p # "ACK", NEW k,
         \/ out' = <<Signal(payCmd, "ACK")>>
         \/ out' = <<Signal(payCmd, "ACK"), Signal(k, p)>>
  PROVE  \A c \in PayloadCommands : Sends(Signal(c, "ACK"))' <=> c = payCmd
<1>1. \A c, d : (Signal(c, "ACK") = Signal(d, "ACK") <=> c = d)
                /\ Signal(c, "ACK") # Signal(k, p)
  BY SignalsDiffer
<1>2. CASE out' = <<Signal(payCmd, "ACK")>>
  <2>1. DOMAIN out' = {1} /\ out'[1] = Signal(payCmd, "ACK")
    BY <1>2
  <2> QED BY <1>1, <2>1 DEF Sends
<1>3. CASE out' = <<Signal(payCmd, "ACK"), Signal(k, p)>>
  <2>1. DOMAIN out' = {1, 2} /\ out'[1] = Signal(payCmd, "ACK") /\ out'[2] = Signal(k, p)
    BY <1>3
  <2> QED BY <1>1, <2>1 DEF Sends
<1> QED BY <1>2, <1>3

(* While a payload is awaited no signal is, and the action is in one of    *)
(* the states of a reception.                                              *)
LEMMA AwaitingState ==
  ASSUME CoreInv, pay = "on"
  PROVE  ~sig /\ DataState(state) /\ act \notin Loops
BY DEF CoreInv, WaitInv, PayloadWaitsAreArmed, DataState, ObjectInv, ObjectOK, StatesOf, Loops

LEMMA ErrorTells ==
  ASSUME HandleError, Report(<<"ERROR">>) \/ Notify(<<"ERROR">>)
  PROVE  NoData'
<1>1. NoAck'
  BY SilentSends DEF HandleError, ToIdle, SendNothing
<1> QED BY <1>1, TellsOne DEF NoData, Events

LEMMA DeliveryTells ==
  ASSUME DeliverToApp(payCmd)
  PROVE  Delivers
<1>1. out' = <<Signal(payCmd, "ACK")>>
  BY DEF DeliverToApp, StartAction, StartMessages
<1>2. Reports("DATA_RECEIVED")'
  BY TellsOne DEF DeliverToApp, Events
<1>3. pay' = Undef
  BY DEF DeliverToApp, StartAction, Begin, Construct
<1>4. \A c \in PayloadCommands : Sends(Signal(c, "ACK"))' <=> c = payCmd
  BY <1>1, AckSends
<1> QED BY <1>2, <1>3, <1>4 DEF Delivers, Undef

LEMMA TakeOffDelivers ==
  ASSUME FlightReady(<<Signal(payCmd, "ACK")>>, <<"DATA_RECEIVED">>)
  PROVE  Delivers
<1>1. out' = <<Signal(payCmd, "ACK"), Signal("FLIGHT_LOOP", "READY")>>
  <2>1. out' = <<Signal(payCmd, "ACK")>> \o <<Signal("FLIGHT_LOOP", "READY")>>
    BY DEF FlightReady, StartAction, StartMessages
  <2>2. \A x, y : <<x>> \o <<y>> = <<x, y>>
    <3> TAKE x, y
    <3> x \in {x, y} /\ y \in {x, y}
      OBVIOUS
    <3> QED BY PairOfSingles
  <2> QED BY <2>1, <2>2
<1>2. Reports("DATA_RECEIVED")'
  <2>1. <<"DATA_RECEIVED">> \o <<"FLIGHT_LOOP_STARTED">>
          = <<"DATA_RECEIVED", "FLIGHT_LOOP_STARTED">>
    <3>1. "DATA_RECEIVED" \in Events /\ "FLIGHT_LOOP_STARTED" \in Events
      BY DEF Events
    <3> QED BY <3>1, PairOfSingles
  <2>2. Report(<<"DATA_RECEIVED", "FLIGHT_LOOP_STARTED">>)
    BY <2>1 DEF FlightReady
  <2>3. {"DATA_RECEIVED", "FLIGHT_LOOP_STARTED"} \subseteq Events
    BY DEF Events
  <2> QED BY <2>2, <2>3, TellsTwo
<1>3. pay' = Undef
  BY DEF FlightReady, StartAction, Begin, Construct
<1>4. \A c \in PayloadCommands : Sends(Signal(c, "ACK"))' <=> c = payCmd
  BY <1>1, AckSends
<1> QED BY <1>2, <1>3, <1>4 DEF Delivers, Undef

LEMMA ValidDelivers ==
  ASSUME NEW m, ValidPayload(m)
  PROVE  Delivers
<1>1. CASE ConnectData(payCmd)
  <2>1. out' = <<Signal(payCmd, "ACK"), Signal("APP_LOOP", "START")>> /\ pay' = "off"
        /\ Report(<<"DATA_RECEIVED">>)
    BY <1>1 DEF ConnectData, AwaitSignal
  <2> QED BY <2>1, AckSends, TellsOne DEF Delivers, Events
<1>2. CASE DownloadData(payCmd) \/ AccelData(payCmd) \/ MagnetData(payCmd)
  BY <1>2, DeliveryTells DEF DownloadData, AccelData, MagnetData
<1>3. CASE FlightInitData(payCmd) /\ state = "CONTROLS_RECEPTION"
  <2>1. out' = <<Signal(payCmd, "ACK")>> /\ pay' = "off" /\ Report(<<"DATA_RECEIVED">>)
    BY <1>3 DEF FlightInitData, AwaitSignal
  <2>2. \A c \in PayloadCommands : Sends(Signal(c, "ACK"))' <=> c = payCmd
    BY <2>1, AckSends
  <2> QED BY <2>1, <2>2, TellsOne DEF Delivers, Events
<1>4. CASE FlightInitData(payCmd) /\ state # "CONTROLS_RECEPTION"
  BY <1>4, TakeOffDelivers DEF FlightInitData
<1>5. CASE RadioCheckData(payCmd)
  <2>1. out' = <<Signal(payCmd, "ACK")>> /\ pay' = "off"
        /\ Report(<<"CHECK_RADIO_STARTED", "DATA_RECEIVED">>)
    BY <1>5 DEF RadioCheckData, EndSignalTimeout
  <2>2. \A c \in PayloadCommands : Sends(Signal(c, "ACK"))' <=> c = payCmd
    BY <2>1, AckSends
  <2>3. {"CHECK_RADIO_STARTED", "DATA_RECEIVED"} \subseteq Events
    BY DEF Events
  <2>4. Reports("DATA_RECEIVED")'
    BY <2>1, <2>3, TellsTwo
  <2> QED BY <2>1, <2>2, <2>4 DEF Delivers
<1> QED BY <1>1, <1>2, <1>3, <1>4, <1>5 DEF ValidPayload

(* Once a payload is awaited, a message delivers it or brings no data.     *)
LEMMA HearDelivers ==
  ASSUME CoreInv, pay = "on", act # "RADIO_CALIB", NEW m \in Inbound, Hear(m)
  PROVE  NoData' \/ Delivers
<1>1. /\ ~HearFrame(m) /\ ~HearPong(m) /\ ~FlightHears(m) /\ ~RadioCalibHears(m)
  BY AwaitingState
  DEF HearFrame, HearPong, Streams, FlightHears, RadioCalibHears, DataState, Loops
<1>2. CASE HearIdly(m) \/ ForeignPayload(m)
  BY <1>2, SilentSends, TellsNothing DEF HearIdly, ForeignPayload, NoData
<1>3. CASE InvalidPayload(m)
  <2>1. CASE AskAgain("DATA_INVALID") /\ Report(<<>>)
    BY <2>1, AskSends, TellsNothing DEF AskAgain, NoData
  <2> QED BY <1>3, <2>1, ErrorTells DEF InvalidPayload
<1>4. CASE ValidPayload(m)
  BY <1>4, ValidDelivers
<1>5. CASE UnexpectedMessage(m)
  BY <1>5, ErrorTells DEF UnexpectedMessage
<1> QED BY <1>1, <1>2, <1>3, <1>4, <1>5 DEF Hear

(* The user is refused, and no answer is due.                              *)
LEMMA OthersDeliverNothing ==
  ASSUME CoreInv, pay = "on", Next, ~Reception, ~FallSilent
  PROVE  NoData'
<1>1. CASE User
  <2>1. PICK i \in UserInputs : UserEvent(i[1], i[2]) \/ RejectUserEvent(i[1], i[2])
    BY <1>1 DEF User
  <2>2. ~UserEvent(i[1], i[2])
    BY AwaitingState
    DEF UserEvent, IdleUser, AppUser, FlightUser, MagnetUser, RadioCheckUser,
        RadioCalibUser, EscUser, LoggerUser, DataState, Loops
  <2> QED BY <2>1, <2>2, SilentSends, TellsNothing DEF RejectUserEvent, NoData
<1>2. CASE Timeout
  <2>1. CASE AskAgain("TIMEOUT") /\ Notify(<<>>)
    BY <2>1, AskSends, TellsNothing DEF AskAgain, NoData
  <2> QED BY <1>2, <2>1, ErrorTells DEF Timeout, SignalTimeout, PayloadTimeout
<1>3. CASE LossTick
  BY <1>3, SilentSends, TellsNothing, TellsOne DEF LossTick, ConnectionTick, NoData, Events
<1>4. CASE Tick
  <2>1. CASE PingTick
    BY <2>1, AskSends, TellsNothing DEF PingTick, Ping, NoData
  <2>2. CASE FlightControlTick
    <3>1. out' = <<Control(state = "BREAKING")>> /\ Notify(<<>>)
      BY <2>2 DEF FlightControlTick
    <3>2. \A c : Signal(c, "ACK") # Control(state = "BREAKING")
      <4>1. \A c : Signal(c, "ACK").kind = "signal"
        BY DEF Signal
      <4>2. Control(state = "BREAKING").kind = "control"
        BY DEF Control
      <4> QED BY <4>1, <4>2
    <3>3. NoAck'
      BY <3>1, <3>2 DEF NoAck, Sends
    <3> QED BY <3>1, <3>3, TellsNothing DEF NoData
  <2> QED BY <1>4, <2>1, <2>2 DEF Tick
<1>5. CASE Interface
  <2>1. ~OnConnected
    BY AwaitingState
    DEF OnConnected, CoreInv, ListenerInv, LinkMatchesAction, LinkOf, DataState
  <2> QED BY <1>5, <2>1, ErrorTells DEF Interface, LinkError
<1> QED BY <1>1, <1>2, <1>3, <1>4, <1>5 DEF Next

(* While a payload is awaited the step that delivers it is the only one to *)
(* bring data.                                                             *)
LEMMA NextDelivers ==
  ASSUME CoreInv, pay = "on", Next, ~FallSilent
  PROVE  NoData' \/ (act # "RADIO_CALIB" /\ Delivers) \/ (act = "RADIO_CALIB" /\ pay' # "on")
<1>1. CASE Reception
  <2>1. PICK m \in Inbound : Hear(m)
    BY <1>1, AwaitingState DEF Reception, Answer, UnexpectedAnswer, ForeignSignal
  <2>2. CASE act # "RADIO_CALIB"
    BY <2>1, <2>2, HearDelivers
  <2>3. CASE act = "RADIO_CALIB"
    <3>1. CASE RadioCalibHears(m)
      BY <2>3, <3>1
      DEF RadioCalibHears, ToApp, StartAction, Begin, Construct, Undef
    <3>2. CASE UnexpectedMessage(m)
      BY <3>2, ErrorTells DEF UnexpectedMessage
    <3>3. ~PayloadState /\ ~Streams /\ ~HearsIdly
      BY <2>3, AwaitingState
      DEF PayloadState, Streams, HearsIdly, DataState, CoreInv, ObjectInv, ObjectOK, StatesOf
    <3> QED BY <2>1, <2>3, <3>1, <3>2, <3>3
            DEF Hear, HearFrame, HearPong, HearIdly, FlightHears, ForeignPayload,
                InvalidPayload, ValidPayload
  <2> QED BY <2>2, <2>3
<1>2. CASE ~Reception
  BY <1>2, OthersDeliverNothing
<1> QED BY <1>1, <1>2

(* A step that begins to wait for a payload brings none.                   *)
LEMMA WaitBegins ==
  ASSUME CoreInv, pay # "on", Next, pay' = "on"
  PROVE  NoData'
<1>1. \A t, d : ~Construct(t, d)
  BY DEF Construct, Undef
<1>2. /\ ~HandleError /\ ~ToApp /\ ~ToIdle /\ (\A c : ~DeliverToApp(c))
      /\ (\A t, d, b : ~StartAction(t, d, b)) /\ (\A b, e : ~FlightReady(b, e))
      /\ ~EndSignalTimeout /\ (\A c : ~AwaitSignal(c)) /\ (\A p : ~SendSignal(p))
  BY <1>1 DEF HandleError, ToApp, ToIdle, DeliverToApp, FlightReady, StartAction, Begin,
              EndSignalTimeout, AwaitSignal, SendSignal
<1> USE <1>2
<1>3. CASE Reception
  <2>1. CASE \E p \in Parameters : Answer(p)
    <3>1. SendNothing /\ Report(<<>>)
      <4>1. PICK p \in Parameters : Answer(p)
        BY <2>1
      <4>2. CASE ConnectAnswer(p) \/ ConnectNonStatic(p) \/ ConnectReady(p)
        BY <4>2 DEF ConnectAnswer, ConnectNonStatic, ConnectReady, Proceed
      <4>3. CASE DisconnectAnswer(p) \/ UpgradeAnswer(p) \/ ResetAnswer(p)
        BY <4>3 DEF DisconnectAnswer, UpgradeAnswer, ResetAnswer
      <4>4. CASE UploadAnswer(p) \/ DownloadAnswer(p)
        BY <4>4 DEF UploadAnswer, DownloadAnswer, Transmit, Proceed
      <4>5. CASE FlightInitAccepted(p) \/ FlightInitAnswer(p)
        BY <4>5 DEF FlightInitAccepted, FlightInitAnswer, Proceed
      <4>6. CASE AccelAnswer(p) \/ MagnetAnswer(p) \/ RadioCheckAnswer(p)
        BY <4>6 DEF AccelAnswer, MagnetAnswer, RadioCheckAnswer, Proceed
      <4>7. CASE RadioCalibAnswer(p) \/ RadioCalibChannel(p)
        BY <4>7 DEF RadioCalibAnswer, RadioCalibChannel, Proceed
      <4>8. CASE EscAnswer(p) \/ EscBroken(p) \/ LoggerAnswer(p)
        BY <4>8 DEF EscAnswer, EscBroken, LoggerAnswer
      <4> QED BY <4>1, <4>2, <4>3, <4>4, <4>5, <4>6, <4>7, <4>8 DEF Answer
    <3> QED BY <3>1, SilentSends, TellsNothing DEF NoData
  <2>2. ~ForeignSignal /\ \A p : ~UnexpectedAnswer(p)
    BY DEF ForeignSignal, UnexpectedAnswer, core, procedure
  <2>3. ASSUME NEW m \in Inbound, Hear(m) PROVE FALSE
    <3>1. ~PayloadState
      BY PayloadStateAwaits
    <3> QED BY <2>3, <3>1
            DEF Hear, HearFrame, HearPong, HearIdly, FlightHears, RadioCalibHears,
                ForeignPayload, InvalidPayload, ValidPayload, UnexpectedMessage, core,
                procedure
  <2> QED BY <1>3, <2>1, <2>2, <2>3 DEF Reception
<1>4. ~User
  <2> SUFFICES ASSUME NEW e, NEW a, UserEvent(e, a) \/ RejectUserEvent(e, a) PROVE FALSE
    BY DEF User
  <2> QED BY <1>1 DEF UserEvent, RejectUserEvent, IdleUser, PrepareAction, AppUser,
                      FlightUser, MagnetUser, RadioCheckUser, RadioCalibUser, EscUser,
                      LoggerUser, procedure
<1>5. ~Timeout /\ ~LossTick /\ ~Tick /\ ~Interface /\ ~FallSilent
  BY DEF Timeout, SignalTimeout, PayloadTimeout, LossTick, ConnectionTick, Tick, PingTick,
         FlightControlTick, Interface, OnConnected, LinkError, FallSilent, core, procedure
<1> QED BY <1>3, <1>4, <1>5 DEF Next

(* What was told last, while a payload is awaited, was no data.            *)
DeliveryInv == pay = "on" => NoData

LEMMA NextDelivery ==
  ASSUME CoreInv, DeliveryInv, [Next]_vars
  PROVE  DeliveryInv'
<1>1. CASE FallSilent \/ UNCHANGED vars
  BY <1>1 DEF FallSilent, vars, core, procedure, DeliveryInv, NoData, NoAck, Sends, Reports
<1>2. CASE Next /\ ~FallSilent /\ pay = "on"
  BY <1>2, NextDelivers DEF Delivers, DeliveryInv
<1>3. CASE Next /\ pay # "on"
  BY <1>3, WaitBegins DEF DeliveryInv
<1> QED BY <1>1, <1>2, <1>3

(* The monitor gets the data a payload wait is for in the very step that   *)
(* acknowledges it to the board: neither is told without the other.        *)
THEOREM Delivered == Spec => DeliveredIsAcknowledged
<1>1. Init => DeliveryInv
  BY DEF Init, DeliveryInv, Undef
<1>2. CoreInv /\ DeliveryInv /\ [Next]_vars => DeliveryInv'
  BY NextDelivery
<1>3. CoreInv /\ DeliveryInv /\ [Next]_vars =>
        [\A c \in PayloadCommands :
           pay = "on" /\ payCmd = c /\ act # "RADIO_CALIB" =>
             (Sends(Signal(c, "ACK")) <=> Reports("DATA_RECEIVED"))']_vars
  <2> SUFFICES ASSUME CoreInv, DeliveryInv, [Next]_vars,
                      NEW c \in PayloadCommands, pay = "on", payCmd = c,
                      act # "RADIO_CALIB"
               PROVE  Sends(Signal(c, "ACK"))' <=> Reports("DATA_RECEIVED")'
    OBVIOUS
  <2>1. CASE FallSilent \/ UNCHANGED vars
    BY <2>1 DEF FallSilent, vars, DeliveryInv, NoData, NoAck, Sends, Reports
  <2>2. CASE Next /\ ~FallSilent
    BY <2>2, NextDelivers DEF Delivers, NoData, NoAck
  <2> QED BY <2>1, <2>2
<1> QED BY <1>1, <1>2, <1>3, CoreIsInvariant, PTL DEF Spec, DeliveredIsAcknowledged
-----------------------------------------------------------------------------
(***************************************************************************)
(* The types of what is told; with CoreInv they make TypeOK.               *)
(***************************************************************************)
Speaks == out' \in Seq(Messages)
Tells  == ev' \in Seq(Events)
Says   == Speaks /\ Tells

LEMMA TellsEvents ==
  ASSUME NEW events \in Seq(Events), Report(events) \/ Notify(events)
  PROVE  Tells
<1>1. <<"CONNECTION_RECOVERED">> \in Seq(Events) /\ <<>> \in Seq(Events)
  <2>1. "CONNECTION_RECOVERED" \in Events
    BY DEF Events
  <2> QED BY <2>1
<1>2. <<>> \o events \in Seq(Events)
  BY <1>1
<1>3. <<"CONNECTION_RECOVERED">> \o events \in Seq(Events)
  BY <1>1
<1> QED BY <1>2, <1>3 DEF Report, Notify, Tells

LEMMA TellsNoEvent ==
  ASSUME Report(<<>>) \/ Notify(<<>>)
  PROVE  Tells
<1>1. <<>> \in Seq(Events)
  OBVIOUS
<1> QED BY <1>1, TellsEvents

LEMMA TellsEvent ==
  ASSUME NEW x \in Events, Report(<<x>>) \/ Notify(<<x>>)
  PROVE  Tells
<1>1. <<x>> \in Seq(Events)
  OBVIOUS
<1> QED BY <1>1, TellsEvents

LEMMA TellsPair ==
  ASSUME NEW x \in Events, NEW y \in Events, Report(<<x, y>>)
  PROVE  Tells
<1>1. <<x, y>> \in Seq(Events)
  OBVIOUS
<1> QED BY <1>1, TellsEvents

LEMMA TellsTriple ==
  ASSUME NEW x \in Events, NEW y \in Events, NEW z \in Events, Report(<<x, y, z>>)
  PROVE  Tells
<1>1. <<x, y, z>> \in Seq(Events)
  OBVIOUS
<1> QED BY <1>1, TellsEvents

LEMMA SignalIsMessage ==
  ASSUME NEW c \in Commands, NEW p \in Parameters
  PROVE  Signal(c, p) \in Messages
BY DEF Signal, Messages

LEMMA PayloadIsCommand == PayloadCommands \subseteq Commands
BY DEF PayloadCommands, Commands

LEMMA SpeaksOne ==
  ASSUME NEW m \in Messages, out' = <<m>>
  PROVE  Speaks
<1>1. <<m>> \in Seq(Messages)
  OBVIOUS
<1> QED BY <1>1 DEF Speaks

LEMMA SpeaksTwo ==
  ASSUME NEW m \in Messages, NEW n \in Messages, out' = <<m, n>>
  PROVE  Speaks
<1>1. <<m, n>> \in Seq(Messages)
  OBVIOUS
<1> QED BY <1>1 DEF Speaks

LEMMA SpeaksNothing ==
  ASSUME SendNothing
  PROVE  Speaks
<1>1. <<>> \in Seq(Messages)
  OBVIOUS
<1> QED BY <1>1 DEF Speaks, SendNothing

LEMMA StartSpeaks ==
  ASSUME NEW t, NEW d, NEW before \in Seq(Messages), StartAction(t, d, before)
  PROVE  Speaks
<1>1. StartParameter(t) \in Parameters /\ {"READY", "START"} \subseteq Parameters
      /\ "FLIGHT_LOOP" \in Commands
  BY DEF StartParameter, Parameters, Commands
<1>2. Signal(ActionCommand(t, d), StartParameter(t)) \in Messages
      /\ Signal("FLIGHT_LOOP", "READY") \in Messages
  BY <1>1, CommandsAreCommands, SignalIsMessage
<1>3. StartMessages(t, d) \in Seq(Messages)
  BY <1>2 DEF StartMessages
<1> QED BY <1>3 DEF StartAction, Speaks

LEMMA ToAppSpeaks ==
  ASSUME ToApp \/ ToIdle \/ HandleError
  PROVE  Speaks
<1>1. <<>> \in Seq(Messages)
  OBVIOUS
<1> QED BY <1>1, StartSpeaks DEF ToApp, ToIdle, HandleError, Speaks

LEMMA SendSpeaks ==
  ASSUME NEW p \in Parameters, SendSignal(p)
  PROVE  Speaks
BY CommandsAreCommands, SignalIsMessage, SpeaksOne DEF SendSignal

LEMMA ErrorSays ==
  ASSUME HandleError, Report(<<"ERROR">>) \/ Notify(<<"ERROR">>)
  PROVE  Says
BY ToAppSpeaks, TellsNoEvent, TellsEvent DEF Says, Events

LEMMA AckIsMessage ==
  ASSUME CoreInv, pay = "on"
  PROVE  \A p \in Parameters : Signal(payCmd, p) \in Messages
<1>1. payCmd \in Commands
  BY PayloadIsCommand DEF CoreInv, WaitInv, PayloadWaitsAreArmed, AwaitedPayload, DataState,
     ProcedureOK, ObjectInv, ObjectOK, DataMatchesAction, StatesOf, PayloadCommands,
     DownloadCommand, ActionTypes, Commands
<1> QED BY <1>1, SignalIsMessage

LEMMA AnswerSays ==
  ASSUME CoreInv, NEW p \in Parameters, Answer(p) \/ UnexpectedAnswer(p)
  PROVE  Says
<1>1. CASE ConnectAnswer(p) \/ ConnectNonStatic(p) \/ ConnectReady(p)
  BY <1>1, ToAppSpeaks, SpeaksOne, SpeaksNothing, TellsNoEvent, TellsEvent
  DEF ConnectAnswer, ConnectNonStatic, ConnectReady, Proceed, Says, Events
<1>2. CASE DisconnectAnswer(p) \/ UpgradeAnswer(p) \/ ResetAnswer(p)
  <2>1. {"APPLICATION_LOOP_ENDED", "APPLICATION_LOOP_TERMINATED", "UPGRADE_STARTED",
         "WARNING"} \subseteq Events
    BY DEF Events
  <2>2. Speaks
    BY <1>2, ToAppSpeaks, SpeaksNothing
    DEF DisconnectAnswer, UpgradeAnswer, ResetAnswer, Proceed
  <2>3. Tells
    BY <1>2, <2>1, TellsNoEvent, TellsEvent, TellsPair
    DEF DisconnectAnswer, UpgradeAnswer, ResetAnswer
  <2> QED BY <2>2, <2>3 DEF Says
<1>3. CASE UploadAnswer(p)
  <2>1. CASE Transmit /\ Report(<<>>)
    <3>1. Payload(data, TRUE) \in Messages
      <4>1. data \in Commands
        BY <1>3, PayloadIsCommand
        DEF UploadAnswer, CoreInv, ObjectInv, ObjectOK, DataMatchesAction, UploadCommand
      <4> QED BY <4>1 DEF Payload, Messages, Parameters
    <3> QED BY <2>1, <3>1, SpeaksOne, TellsNoEvent DEF Transmit, Says
  <2>2. CASE ToApp /\ Report(<<"DATA_UPLOADED">>)
    BY <2>2, ToAppSpeaks, TellsNoEvent, TellsEvent DEF Says, Events
  <2> QED BY <1>3, <2>1, <2>2 DEF UploadAnswer
<1>4. CASE DownloadAnswer(p)
  BY <1>4, ToAppSpeaks, SpeaksOne, SpeaksNothing, TellsNoEvent, TellsEvent
  DEF DownloadAnswer, DownloadFailEvent, Proceed, Says, Events
<1>5. CASE FlightInitAccepted(p) \/ FlightInitAnswer(p)
  <2>1. CASE FlightReady(<<>>, <<"VIA_ROUTE_NOT_ALLOWED">>)
    <3>1. /\ <<>> \in Seq(Messages)
          /\ {"VIA_ROUTE_NOT_ALLOWED", "FLIGHT_LOOP_STARTED"} \subseteq Events
      BY DEF Events
    <3>2. <<"VIA_ROUTE_NOT_ALLOWED">> \o <<"FLIGHT_LOOP_STARTED">> \in Seq(Events)
      BY <3>1
    <3> QED BY <2>1, <3>1, <3>2, StartSpeaks, TellsEvents DEF FlightReady, Says
  <2> QED BY <1>5, <2>1, ToAppSpeaks, SpeaksOne, SpeaksNothing, TellsNoEvent, TellsEvent
          DEF FlightInitAccepted, FlightInitAnswer, Proceed, Says, Events
<1>6. CASE AccelAnswer(p) \/ MagnetAnswer(p)
  BY <1>6, ToAppSpeaks, SpeaksOne, SpeaksNothing, TellsNoEvent, TellsEvent
  DEF AccelAnswer, MagnetAnswer, Proceed, Says, Events
<1>7. CASE RadioCheckAnswer(p) \/ RadioCalibAnswer(p) \/ RadioCalibChannel(p)
  <2>1. {"CHECK_RADIO_NOT_ALLOWED", "CHECK_RADIO_ENDED", "CALIBRATE_RADIO_STARTED",
         "CALIBRATE_RADIO_NOT_ALLOWED", "CALIBRATE_RADIO_FAIL", "CALIBRATE_RADIO_ENDED",
         "CALIBRATE_RADIO_ACK", "WARNING", "INFO"} \subseteq Events
    BY DEF Events
  <2>2. Speaks
    BY <1>7, ToAppSpeaks, SpeaksNothing
    DEF RadioCheckAnswer, RadioCalibAnswer, RadioCalibChannel, Proceed
  <2>3. Tells
    BY <1>7, <2>1, TellsNoEvent, TellsEvent, TellsPair
    DEF RadioCheckAnswer, RadioCalibAnswer, RadioCalibChannel
  <2> QED BY <2>2, <2>3 DEF Says
<1>8. CASE EscAnswer(p) \/ EscBroken(p) \/ LoggerAnswer(p)
  BY <1>8, ToAppSpeaks, SpeaksOne, SpeaksNothing, TellsNoEvent, TellsEvent
  DEF EscAnswer, EscBroken, LoggerAnswer, Proceed, Says, Events
<1>9. CASE UnexpectedAnswer(p)
  BY <1>9, ErrorSays DEF UnexpectedAnswer
<1> QED BY <1>1, <1>2, <1>3, <1>4, <1>5, <1>6, <1>7, <1>8, <1>9 DEF Answer

LEMMA ValidSays ==
  ASSUME CoreInv, NEW m, ValidPayload(m)
  PROVE  Says
<1>1. Signal(payCmd, "ACK") \in Messages
  BY AckIsMessage, PayloadStateAwaits DEF ValidPayload, Parameters
<1>2. <<Signal(payCmd, "ACK")>> \in Seq(Messages)
  BY <1>1
<1>3. CASE ConnectData(payCmd)
  <2>1. Signal("APP_LOOP", "START") \in Messages
    BY SignalIsMessage DEF Commands, Parameters
  <2> QED BY <1>1, <1>3, <2>1, SpeaksTwo, TellsEvent DEF ConnectData, Says, Events
<1>4. CASE DownloadData(payCmd) \/ AccelData(payCmd) \/ MagnetData(payCmd)
  BY <1>2, <1>4, StartSpeaks, TellsNoEvent, TellsEvent
  DEF DownloadData, AccelData, MagnetData, DeliverToApp, Says, Events
<1>5. CASE FlightInitData(payCmd)
  <2>1. CASE FlightReady(<<Signal(payCmd, "ACK")>>, <<"DATA_RECEIVED">>)
    <3>1. {"DATA_RECEIVED", "FLIGHT_LOOP_STARTED"} \subseteq Events
      BY DEF Events
    <3>2. <<"DATA_RECEIVED">> \o <<"FLIGHT_LOOP_STARTED">> \in Seq(Events)
      BY <3>1
    <3> QED BY <1>2, <2>1, <3>2, StartSpeaks, TellsEvents DEF FlightReady, Says
  <2> QED BY <1>1, <1>5, <2>1, SpeaksOne, TellsEvent
          DEF FlightInitData, Says, Events
<1>6. CASE RadioCheckData(payCmd)
  BY <1>1, <1>6, SpeaksOne, TellsPair DEF RadioCheckData, Says, Events
<1> QED BY <1>3, <1>4, <1>5, <1>6 DEF ValidPayload

LEMMA AskSays ==
  ASSUME CoreInv, pay = "on", NEW reason \in Parameters, AskAgain(reason),
         Report(<<>>) \/ Notify(<<>>)
  PROVE  Says
BY AckIsMessage, SpeaksOne, SpeaksNothing, TellsNoEvent, TellsEvent DEF AskAgain, Says

LEMMA HearSays ==
  ASSUME CoreInv, NEW m \in Inbound, Hear(m)
  PROVE  Says
<1>1. CASE HearFrame(m) \/ HearPong(m) \/ HearIdly(m) \/ ForeignPayload(m)
  BY <1>1, SpeaksOne, SpeaksNothing, TellsNoEvent, TellsEvent
  DEF HearFrame, HearPong, HearIdly, ForeignPayload, Says, Events
<1>2. CASE FlightHears(m)
  <2>1. StartAction("APP", "none", <<>>) /\ <<>> \in Seq(Messages)
    BY <1>2 DEF FlightHears
  <2>2. Speaks
    BY <2>1, StartSpeaks
  <2>3. Tells
    BY <1>2, TellsEvent DEF FlightHears, Events
  <2> QED BY <2>2, <2>3 DEF Says
<1>3. CASE RadioCalibHears(m)
  <2>1. Speaks
    BY <1>3, ToAppSpeaks DEF RadioCalibHears
  <2>2. Tells
    <3>1. Report(<<"DATA_RECEIVED", "CALIBRATE_RADIO_ENDED", "INFO">>)
      BY <1>3 DEF RadioCalibHears
    <3>2. {"DATA_RECEIVED", "CALIBRATE_RADIO_ENDED", "INFO"} \subseteq Events
      BY DEF Events
    <3> QED BY <3>1, <3>2, TellsTriple
  <2> QED BY <2>1, <2>2 DEF Says
<1>4. CASE InvalidPayload(m)
  <2>1. pay = "on" /\ "DATA_INVALID" \in Parameters
    BY <1>4, PayloadStateAwaits DEF InvalidPayload, Parameters
  <2> QED BY <1>4, <2>1, AskSays, ErrorSays DEF InvalidPayload
<1>5. CASE ValidPayload(m)
  BY <1>5, ValidSays
<1>6. CASE UnexpectedMessage(m)
  BY <1>6, ErrorSays DEF UnexpectedMessage
<1> QED BY <1>1, <1>2, <1>3, <1>4, <1>5, <1>6 DEF Hear

LEMMA UserSays ==
  ASSUME NEW e, NEW a, UserEvent(e, a) \/ RejectUserEvent(e, a)
  PROVE  Says
<1>1. Notify(<<>>)
  BY DEF UserEvent, RejectUserEvent, IdleUser, AppUser, FlightUser, MagnetUser,
         RadioCheckUser, RadioCalibUser, EscUser, LoggerUser
<1>2. \/ SendNothing \/ \E t, d : StartAction(t, d, <<>>)
      \/ \E p \in Parameters : SendSignal(p)
  <2>1. {"DONE", "SKIP", "BREAK", "BREAK_FAIL"} \subseteq Parameters
    BY DEF Parameters
  <2>2. CASE IdleUser(e, a) \/ FlightUser(e, a) \/ RejectUserEvent(e, a)
    BY <2>2 DEF IdleUser, FlightUser, Proceed, RejectUserEvent
  <2>3. CASE AppUser(e, a)
    BY <2>3 DEF AppUser
  <2>4. CASE MagnetUser(e, a) \/ RadioCheckUser(e, a) \/ RadioCalibUser(e, a)
    BY <2>1, <2>4 DEF MagnetUser, RadioCheckUser, RadioCalibUser
  <2>5. CASE EscUser(e, a) \/ LoggerUser(e, a)
    BY <2>1, <2>5 DEF EscUser, LoggerUser
  <2> QED BY <2>2, <2>3, <2>4, <2>5 DEF UserEvent
<1>3. Speaks
  <2>1. CASE SendNothing
    BY <2>1, SpeaksNothing
  <2>2. CASE \E t, d : StartAction(t, d, <<>>)
    <3>1. <<>> \in Seq(Messages)
      OBVIOUS
    <3> QED BY <2>2, <3>1, StartSpeaks
  <2>3. CASE \E p \in Parameters : SendSignal(p)
    BY <2>3, SendSpeaks
  <2> QED BY <1>2, <2>1, <2>2, <2>3
<1> QED BY <1>1, <1>3, TellsNoEvent DEF Says

LEMMA NextSays ==
  ASSUME CoreInv, ReportOK, [Next]_vars
  PROVE  ReportOK'
<1>1. Says => ReportOK'
  BY DEF Says, Speaks, Tells, ReportOK
<1>2. CASE Reception
  <2>1. CASE ForeignSignal
    BY <1>1, <2>1, SpeaksNothing, TellsNoEvent DEF ForeignSignal, Says
  <2> QED BY <1>1, <1>2, <2>1, AnswerSays, HearSays DEF Reception
<1>3. CASE User
  BY <1>1, <1>3, UserSays DEF User
<1>4. CASE Timeout
  <2>1. "TIMEOUT" \in Parameters
    BY DEF Parameters
  <2> QED BY <1>1, <1>4, <2>1, ErrorSays, AskSays DEF Timeout, SignalTimeout, PayloadTimeout
<1>5. CASE LossTick
  BY <1>1, <1>5, SpeaksNothing, TellsNoEvent, TellsEvent
  DEF LossTick, ConnectionTick, Says, Events
<1>6. CASE Tick
  <2>1. Ping \in Messages /\ \A b : Control(b) \in Messages
    BY DEF Ping, Signal, Control, Messages, Commands, Parameters
  <2> QED BY <1>1, <1>6, <2>1, SpeaksOne, SpeaksNothing, TellsNoEvent, TellsEvent
          DEF Tick, PingTick, FlightControlTick, Says
<1>7. CASE Interface
  <2>1. "START" \in Parameters
    BY DEF Parameters
  <2> QED BY <1>1, <1>7, <2>1, ErrorSays, SendSpeaks, TellsNoEvent, TellsEvent
          DEF Interface, OnConnected, LinkError, Says
<1>8. CASE FallSilent \/ UNCHANGED vars
  BY <1>8 DEF FallSilent, vars, ReportOK
<1> QED BY <1>2, <1>3, <1>4, <1>5, <1>6, <1>7, <1>8 DEF Next

(* What is acknowledged is a command, as every message's is.               *)
LEMMA HistoryTyped ==
  ASSUME SurroundingsOK, ReportOK', KeepHistory
  PROVE  got' \subseteq Commands
<1>1. \A i \in DOMAIN out' : out'[i].cmd \in Commands
  <2>1. out' \in Seq(Messages)
    BY DEF ReportOK
  <2>2. \A i \in DOMAIN out' : out'[i] \in Messages
    BY <2>1
  <2>3. \A m \in Messages : m.cmd \in Commands
    BY DEF Messages
  <2> QED BY <2>2, <2>3
<1>2. Acknowledged \subseteq Commands
  BY <1>1 DEF Acknowledged
<1> QED BY <1>2 DEF SurroundingsOK, KeepHistory

LEMMA NextSurrounds ==
  ASSUME SurroundingsOK, ReportOK', [Next]_vars
  PROVE  SurroundingsOK'
<1> USE BurstAssumption DEF BurstAssumption, SurroundingsOK
<1>1. CASE Reception
  <2>1. rest' \in 0..Burst
    BY <1>1 DEF Reception, Receive
  <2> QED BY <1>1, <2>1, HistoryTyped DEF Reception, Receive
<1>2. CASE User
  BY <1>2, HistoryTyped DEF User, Otherwise, Calm, UserEvent, RejectUserEvent
<1>3. CASE LossTick
  BY <1>3, HistoryTyped DEF LossTick, Otherwise, ConnectionTick
<1>4. CASE Timeout \/ Tick \/ Interface
  BY <1>4, HistoryTyped DEF Timeout, Tick, Interface, Otherwise, Calm
<1>5. CASE FallSilent \/ UNCHANGED vars
  BY <1>5 DEF FallSilent, vars
<1> QED BY <1>1, <1>2, <1>3, <1>4, <1>5 DEF Next

(* Every variable keeps its type: what is sent are messages of the         *)
(* protocol, what is told are events of the monitor's.                     *)
THEOREM Types == Spec => []TypeOK
<1>1. Init => ReportOK /\ SurroundingsOK
  <2>1. <<>> \in Seq(Messages) /\ <<>> \in Seq(Events)
    OBVIOUS
  <2>2. 0 \in 0..Burst
    BY BurstAssumption DEF BurstAssumption
  <2> QED BY <2>1, <2>2 DEF Init, ReportOK, SurroundingsOK
<1>2. CoreInv /\ ReportOK /\ SurroundingsOK /\ [Next]_vars => (ReportOK /\ SurroundingsOK)'
  BY NextSays, NextSurrounds
<1>3. CoreInv /\ ReportOK /\ SurroundingsOK => TypeOK
  BY DEF CoreInv, ObjectInv, WaitInv, ListenerInv, TypeOK
<1> QED BY <1>1, <1>2, <1>3, CoreIsInvariant, PTL DEF Spec
=============================================================================
