----------------------------- MODULE CommAction -----------------------------
(***************************************************************************)
(* ICommAction: the object that drives one procedure with the board (a     *)
(* connection, a calibration, a flight ...), and the services its Listener *)
(* (MulticopterUav) gives it.  The sixteen subclasses are in               *)
(* SessionActions, FlightActions and CalibrationActions; MulticopterUav    *)
(* composes them.                                                          *)
(*                                                                         *)
(* There is one action object at a time.  The variables of the first three *)
(* groups are its fields; they take their initial values whenever          *)
(* startAction or handleError replaces the object.                         *)
(***************************************************************************)
EXTENDS CommProtocol

CONSTANTS MaxErrors,   \* MAX_SIGNAL_PAYLOAD_RECEPTION_ERRORS, 3 in the code
          Channels     \* channels of a radio calibration, 8 in the code

ASSUME LimitsAssumption == MaxErrors \in Nat \ {0} /\ Channels \in Nat \ {0}

VARIABLES
  \* the object
  act,        \* getType()
  state,      \* the subclass's state
  data,       \* what UploadSignalPayload or DownloadSignalPaylod carries
  nonStatic,  \* ConnectAction::wasNonStatic
  current,    \* RadioCalibAction::current
  breaking,   \* EscCalibAction::breaking
  retrans,    \* UploadSignalPayload::retransmissionCounter
  \* its signal procedure
  sig,        \* wasSignalReceptionProcedure
  expected,   \* expectedSignalCommand
  sent,       \* the parameter of sentSignal
  timer,      \* signalTimer runs
  \* its payload reception
  pay,        \* wasSignalPayloadReceptionProcedure; the constructor leaves it undefined
  payCmd,     \* receivedSignalPayload
  errors,     \* receptionErrors
  \* the listener
  tasks,      \* periodic timers that run: ping, connection timeout, control
  link,       \* the IAppCommInterface
  \* what the last step did, seen from outside
  out,        \* messages given to the interface
  ev,         \* events given to the monitor
  lost        \* connectionLost

extras    == <<nonStatic, current, breaking, retrans>>
object    == <<act, state, data, extras>>
procedure == <<sig, expected, sent, timer, pay, payCmd, errors>>

Undef == "undef"

(* The enum State of each class.                                           *)
StatesOf(t) ==
    CASE t = "IDLE_ACTION" -> {"IDLE"}
      [] t = "APP"         -> {"APP_LOOP"}
      [] t = "DISCONNECT"  -> {"DISCONNECTING"}
      [] t = "CONNECT" -> {"IDLE", "INITIAL_COMMAND", "CALIBRATION",
                           "CALIBRATION_RECEPTION", "FINAL_COMMAND"}
      [] t = "UPGRADE" -> {"IDLE", "INITIAL_COMMAND"}
      [] t = "RESET"   -> {"INITIAL_COMMAND"}
      [] t = "FLIGHT_INITIALIZATION" ->
              {"INITIAL_COMMAND", "CONTROLS_RECEPTION", "ROUTE_COMMAND", "ROUTE_RECEPTION"}
      [] t = "FLIGHT"      -> {"FLING", "BREAKING"}
      [] t = "ACCEL_CALIB" -> {"INITIAL_COMMAND", "CALIBRATION", "CALIBRATION_RECEPTION"}
      [] t = "MAGNET_CALIB" ->
              {"INITIAL_COMMAND", "CALIBRATION", "CALIBRATION_RESULT",
               "CALIBRATION_SKIP_RESULT", "CALIBRATION_RECEPTION"}
      [] t = "UPLOAD_SIGNAL_PAYLOAD"   -> {"INITIAL_COMMAND", "UPLOAD"}
      [] t = "DOWNLOAD_SIGNAL_PAYLOAD" -> {"INITIAL_COMMAND", "DATA_RECEPTION"}
      [] t = "SENSORS_LOGGER" -> {"INITIAL_COMMAND", "LOGGING", "BREAKING"}
      [] t = "RADIO_CHECK" ->
              {"INITIAL_COMMAND", "CONTROLS_RECEPTION", "RUNNING", "BREAKING"}
      [] t = "RADIO_CALIB" ->
              {"INITIAL_COMMAND", "CALIBRATION_COMMAND", "CALIBRATION_RESPONSE",
               "BREAKING", "CHECK", "FINAL_COMMAND", "CALIBRATION_RECEPTION"}
      [] t = "ESC_CALIB" ->
              {"INITIAL_COMMAND", "ESC_DISCONNECT", "ESC_DISCONNECT_ACK",
               "ESC_CONNECT", "ESC_CONNECT_ACK", "CALIBRATING"}

(***************************************************************************)
(* What start() of each action does: the state it enters, the signal it    *)
(* sends and waits on (none for the three loops), the tasks it enables.    *)
(***************************************************************************)
StartState(t) ==
    CASE t = "IDLE_ACTION" -> "IDLE"
      [] t = "APP"         -> "APP_LOOP"
      [] t = "FLIGHT"      -> "FLING"
      [] t = "DISCONNECT"  -> "DISCONNECTING"
      [] OTHER             -> "INITIAL_COMMAND"

UploadCommand(d) ==
    CASE d = "CONTROL_SETTINGS"   -> "UPLOAD_SETTINGS"
      [] d = "ROUTE_CONTAINER"    -> "UPLOAD_ROUTE"
      [] d = "WIFI_CONFIGURATION" -> "WIFI_CONFIGURATION"
      [] OTHER                    -> "DUMMY"    \* the constructor throws

DownloadCommand(d) ==
    CASE d = "CONTROL_SETTINGS" -> "DOWNLOAD_SETTINGS"
      [] d = "ROUTE_CONTAINER"  -> "DOWNLOAD_ROUTE"
      [] OTHER                  -> "DUMMY"      \* the constructor throws

(* The command an action begins with and, but for the payloads, keeps      *)
(* waiting on; DUMMY for the loops, which wait on nothing.                 *)
ActionCommand(t, d) ==
    CASE t = "CONNECT"                 -> "START_CMD"
      [] t = "DISCONNECT"              -> "APP_LOOP"
      [] t = "UPGRADE"                 -> "SOFTWARE_UPGRADE"
      [] t = "RESET"                   -> "SYSTEM_RESET"
      [] t = "FLIGHT_INITIALIZATION"   -> "FLIGHT_LOOP"
      [] t = "ACCEL_CALIB"             -> "CALIBRATE_ACCEL"
      [] t = "MAGNET_CALIB"            -> "CALIBRATE_MAGNET"
      [] t = "RADIO_CHECK"             -> "CHECK_RADIO"
      [] t = "RADIO_CALIB"             -> "CALIBRATE_RADIO"
      [] t = "ESC_CALIB"               -> "CALIBRATE_ESC"
      [] t = "SENSORS_LOGGER"          -> "SENSORS_LOGGER"
      [] t = "UPLOAD_SIGNAL_PAYLOAD"   -> UploadCommand(d)
      [] t = "DOWNLOAD_SIGNAL_PAYLOAD" -> DownloadCommand(d)
      [] OTHER                         -> "DUMMY"

Loops == {"IDLE_ACTION", "APP", "FLIGHT"}

StartParameter(t) == IF t = "DISCONNECT" THEN "BREAK" ELSE "START"

StartMessages(t, d) ==
    CASE t = "FLIGHT"            -> <<Signal("FLIGHT_LOOP", "READY")>>
      [] t \in {"IDLE_ACTION", "APP"} -> <<>>
      [] OTHER                   -> <<Signal(ActionCommand(t, d), StartParameter(t))>>

StartTasks(t) ==
    CASE t = "APP"                                -> {"ping", "conn"}
      [] t = "FLIGHT"                             -> {"ping", "control"}
      [] t \in {"RADIO_CHECK", "SENSORS_LOGGER"}  -> {"conn"}
      [] OTHER                                    -> {}
-----------------------------------------------------------------------------
(***************************************************************************)
(* The object and its procedures.                                          *)
(***************************************************************************)

(* The constructors: every field a constructor sets, and Undef for those   *)
(* it leaves to the first call that writes them.                           *)
Construct(t, d) ==
    /\ act' = t /\ data' = d
    /\ nonStatic' = FALSE /\ current' = 0 /\ breaking' = FALSE /\ retrans' = 0
    /\ pay' = Undef /\ payCmd' = Undef /\ errors' = 0

(* A new object that starts at once.                                       *)
Begin(t, d) ==
    /\ Construct(t, d)
    /\ state' = StartState(t)
    /\ sig' = (t \notin Loops) /\ timer' = (t \notin Loops)
    /\ expected' = IF t \in Loops THEN Undef ELSE ActionCommand(t, d)
    /\ sent' = IF t \in Loops THEN "DUMMY_PARAMETER" ELSE StartParameter(t)

(* startAction: the old action ends, the new one replaces it and starts.   *)
(* Only AppAction::end does anything; the destructor of a FlightAction     *)
(* stops its control timer.  before is what the caller sent already.       *)
StartAction(t, d, before) ==
    /\ Begin(t, d)
    /\ out' = before \o StartMessages(t, d)
    /\ tasks' = (tasks \ (IF act = "APP" THEN {"ping", "conn", "control"}
                                         ELSE {"control"})) \cup StartTasks(t)

(* startAction(new ..., false): the action waits for onConnected.          *)
PrepareAction(t) ==
    /\ Construct(t, "none")
    /\ state' = "IDLE"
    /\ sig' = FALSE /\ timer' = FALSE
    /\ expected' = Undef /\ sent' = "DUMMY_PARAMETER"
    /\ UNCHANGED tasks

Goto(s) == state' = s /\ UNCHANGED <<act, data, extras>>

EndSignalTimeout_TimerRuns ==   \* mutant: the timer is not stopped
    /\ sig' = FALSE /\ pay' = "off"
    /\ expected' = "DUMMY" /\ sent' = "DUMMY_PARAMETER"
    /\ UNCHANGED <<timer, payCmd, errors>>

EndSignalTimeout ==
    /\ sig' = FALSE /\ timer' = FALSE /\ pay' = "off"
    /\ expected' = "DUMMY" /\ sent' = "DUMMY_PARAMETER"
    /\ UNCHANGED <<payCmd, errors>>

AwaitSignal_Untimed(c) ==       \* mutant: the timer is not started
    /\ sig' = TRUE /\ timer' = FALSE /\ pay' = "off"
    /\ expected' = c /\ sent' = "DUMMY_PARAMETER"
    /\ UNCHANGED <<payCmd, errors>>

(* startSignalTimeout, after the endSignalTimeout every answer begins with *)
AwaitSignal(c) ==
    /\ sig' = TRUE /\ timer' = TRUE /\ pay' = "off"
    /\ expected' = c /\ sent' = "DUMMY_PARAMETER"
    /\ UNCHANGED <<payCmd, errors>>

(* initializeSignalPayloadReception, likewise after endSignalTimeout       *)
AwaitPayload(c) ==
    /\ sig' = FALSE /\ timer' = TRUE /\ pay' = "on"
    /\ payCmd' = c /\ errors' = 0
    /\ expected' = "DUMMY" /\ sent' = "DUMMY_PARAMETER"

(* sendSignal, as the user's events call it; always with the command the   *)
(* action began with.                                                      *)
SendSignal(p) ==
    /\ sig' = TRUE /\ timer' = TRUE
    /\ expected' = ActionCommand(act, data) /\ sent' = p
    /\ out' = <<Signal(ActionCommand(act, data), p)>>
    /\ UNCHANGED <<pay, payCmd, errors>>
-----------------------------------------------------------------------------
(***************************************************************************)
(* The listener: the interface, the tasks and the monitor.                 *)
(***************************************************************************)
SendNothing == out' = <<>>

(* Events reported while a message is handled: notifyReception announces   *)
(* the recovered connection before it hands the message to the action.     *)
Report(events) ==
    ev' = (IF lost THEN <<"CONNECTION_RECOVERED">> ELSE <<>>) \o events

(* Events reported while anything else is handled.                         *)
Notify(events) == ev' = events

EnableTask(k) == tasks' = tasks \cup {k}

DisableTask_Forgotten(k) == UNCHANGED tasks    \* mutant: the call is missing

DisableTask(k) == tasks' = tasks \ {k}

(* The object goes back to the application loop, on the same interface.    *)
ToApp ==
    /\ StartAction("APP", "none", <<>>)
    /\ UNCHANGED link

(* The same once payload c is complete: handleSignalPayloadReception has   *)
(* acknowledged it, the monitor gets it.                                   *)
DeliverToApp(c) ==
    /\ StartAction("APP", "none", <<Signal(c, "ACK")>>)
    /\ Report(<<"DATA_RECEIVED">>)
    /\ UNCHANGED link

(* The object gives way to an IdleAction, the interface is closed and the  *)
(* periodic tasks end: startAction with disconnectInterface, and all of    *)
(* handleError but its event.                                              *)
ToIdle ==
    /\ Begin("IDLE_ACTION", "none")
    /\ out' = <<>>
    /\ tasks' = tasks \ {"ping", "conn", "control"}
    /\ link' = "closed"

(* The action moves to state s and sends nothing.                          *)
Proceed(s) == Goto(s) /\ SendNothing /\ UNCHANGED link
=============================================================================
