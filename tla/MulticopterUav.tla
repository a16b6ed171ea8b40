--------------------------- MODULE MulticopterUav ---------------------------
(***************************************************************************)
(* The ground application's communication core: MulticopterUav with the    *)
(* action it currently performs, its timers, the interface to the board,   *)
(* the user that pushes events and a board that may send anything at any   *)
(* time, or fall silent for good.                                          *)
(*                                                                         *)
(* Every handler is one step.  The step that receives data handles one     *)
(* message: the loop of onDataReceived goes on with the rest of its buffer *)
(* whatever the first message did.                                         *)
(***************************************************************************)
EXTENDS SessionActions, FlightActions, CalibrationActions, FiniteSets

CONSTANT Burst       \* bound: messages that may follow another in a buffer

ASSUME BurstAssumption == Burst \in Nat

VARIABLES
  feed,      \* receptionFeed
  rest,      \* messages of the buffer under way still to be handled
  alive,     \* the board has not fallen silent
  thrown,    \* the last step threw into the caller of pushUserUavEvent
  got        \* history: payloads acknowledged since the action chain began

core == <<object, procedure, tasks, link>>
vars == <<core, out, ev, lost, feed, rest, alive, thrown, got>>
-----------------------------------------------------------------------------
(* The constructor leaves receptionFeed and connectionLost uninitialised.  *)
Init ==
    /\ act = "IDLE_ACTION" /\ state = "IDLE" /\ data = "none"
    /\ nonStatic = FALSE /\ current = 0 /\ breaking = FALSE /\ retrans = 0
    /\ sig = FALSE /\ timer = FALSE
    /\ expected = Undef /\ sent = "DUMMY_PARAMETER"
    /\ pay = Undef /\ payCmd = Undef /\ errors = 0
    /\ tasks = {} /\ link = "closed"
    /\ out = <<>> /\ ev = <<>>
    /\ feed \in BOOLEAN /\ lost \in BOOLEAN
    /\ rest = 0 /\ alive = TRUE /\ thrown = FALSE /\ got = {}

(* What the user can push: an event with the argument its class carries.   *)
UserInputs ==
    {<<"CONNECT", a>> : a \in {"APP", "UPGRADE", "FLIGHT"}}
        \cup {<<"ACTION", a>> : a \in ActionTypes}
        \cup ({"UPLOAD", "DOWNLOAD"} \X PayloadCommands)
        \cup ((UserEvents \ {"CONNECT", "ACTION", "UPLOAD", "DOWNLOAD"}) \X {"none"})

(* Any signal no handler asks for.                                         *)
StraySignal == Signal("START_CMD", "READY")

(* What can reach the generic handleReception, up to what handlers tell    *)
(* apart.                                                                  *)
Inbound ==
    {Frame, Autopilot, Ping, StraySignal,
     Signal("FLIGHT_LOOP", "BREAK"), Signal("FLIGHT_LOOP", "BREAK_ACK")}
        \cup {Payload(c, v) : c \in PayloadCommands, v \in BOOLEAN}
-----------------------------------------------------------------------------
(* History, kept beside each step: the settings the board handed over to   *)
(* the chain of actions under way.  A chain begins when the application    *)
(* loop or IdleAction is reached; FLIGHT continues its initialization.     *)
Acknowledged == {out'[i].cmd : i \in {j \in DOMAIN out' : out'[j].par = "ACK"}}

KeepHistory ==
    got' = IF act' \in {"APP", "IDLE_ACTION"} THEN {} ELSE got \cup Acknowledged

(* onDataReceived and the first half of notifyReception                    *)
Receive ==
    /\ \/ rest > 0 /\ rest' = rest - 1
       \/ rest = 0 /\ link = "open" /\ alive /\ rest' \in 0..Burst
    /\ feed' = TRUE /\ lost' = FALSE /\ thrown' = FALSE
    /\ UNCHANGED alive

(* Any other handler runs between two buffers.                             *)
Otherwise == rest = 0 /\ UNCHANGED <<rest, alive>>

Calm == UNCHANGED <<feed, lost>>

HandleError_LinkOpen ==         \* mutant: the interface is not disconnected
    /\ Begin("IDLE_ACTION", "none")
    /\ out' = <<>>
    /\ tasks' = {}
    /\ UNCHANGED link

(* handleError, but for its event: ERROR is the kind of its message.       *)
HandleError == ToIdle
-----------------------------------------------------------------------------
(***************************************************************************)
(* Signals, when the action waits for one.                                 *)
(***************************************************************************)

(* The parameters each switch of handleSignalReception has a case for.     *)
Answers ==
    [CONNECT    |-> [INITIAL_COMMAND |-> {"ACK"},
                     CALIBRATION     |-> {"READY", "NON_STATIC"},
                     FINAL_COMMAND   |-> {"ACK"}],
     DISCONNECT |-> [DISCONNECTING   |-> Parameters],
     UPGRADE    |-> [INITIAL_COMMAND |-> {"ACK", "NOT_ALLOWED"}],
     RESET      |-> [INITIAL_COMMAND |-> {"ACK"}],
     UPLOAD_SIGNAL_PAYLOAD |->
                    [INITIAL_COMMAND |-> {"ACK"},
                     UPLOAD          |-> {"ACK", "DATA_INVALID", "TIMEOUT"}],
     DOWNLOAD_SIGNAL_PAYLOAD |->
                    [INITIAL_COMMAND |-> {"ACK", "FAIL"}],
     FLIGHT_INITIALIZATION |->
                    [INITIAL_COMMAND |-> {"ACK", "NOT_ALLOWED"},
                     ROUTE_COMMAND   |-> {"VIA_ROUTE_ALLOWED",
                                          "VIA_ROUTE_NOT_ALLOWED"}],
     ACCEL_CALIB |->
                    [INITIAL_COMMAND |-> {"ACK"},
                     CALIBRATION     |-> {"DONE", "NON_STATIC"}],
     MAGNET_CALIB |->
                    [INITIAL_COMMAND         |-> {"ACK"},
                     CALIBRATION_RESULT      |-> {"DONE", "FAIL"},
                     CALIBRATION_SKIP_RESULT |-> {"ACK"}],
     RADIO_CHECK |->
                    [INITIAL_COMMAND |-> {"ACK", "NOT_ALLOWED"},
                     BREAKING        |-> {"BREAK_ACK"}],
     RADIO_CALIB |->
                    [INITIAL_COMMAND      |-> {"ACK", "NOT_ALLOWED"},
                     CALIBRATION_RESPONSE |-> {"ACK", "FAIL"},
                     BREAKING             |-> {"BREAK_ACK"},
                     FINAL_COMMAND        |-> {"ACK", "BREAK_FAIL", "BREAK_ACK"}],
     ESC_CALIB  |-> [INITIAL_COMMAND    |-> {"ACK", "NOT_ALLOWED"},
                     ESC_DISCONNECT_ACK |-> {"ACK", "BREAK_ACK"},
                     ESC_CONNECT_ACK    |-> {"ACK", "BREAK_ACK"},
                     CALIBRATING        |-> {"DONE"}],
     SENSORS_LOGGER |->
                    [INITIAL_COMMAND |-> {"ACK"},
                     BREAKING        |-> {"BREAK_ACK"}]]

(* The cases that go on to throw.                                          *)
Refused(p) ==
    \/ act = "ESC_CALIB" /\ p = "BREAK_ACK" /\ ~breaking
    \/ /\ act = "UPLOAD_SIGNAL_PAYLOAD" /\ p \in {"DATA_INVALID", "TIMEOUT"}
       /\ retrans + 1 >= MaxErrors

Answer(p) ==
    /\ sig
    /\ \/ ConnectAnswer(p) \/ ConnectNonStatic(p) \/ ConnectReady(p)
       \/ DisconnectAnswer(p) \/ UpgradeAnswer(p) \/ ResetAnswer(p)
       \/ UploadAnswer(p) \/ DownloadAnswer(p)
       \/ FlightInitAccepted(p) \/ FlightInitAnswer(p)
       \/ AccelAnswer(p) \/ MagnetAnswer(p) \/ RadioCheckAnswer(p)
       \/ RadioCalibAnswer(p) \/ RadioCalibChannel(p)
       \/ EscAnswer(p) \/ EscBroken(p) \/ LoggerAnswer(p)

UnexpectedAnswer(p) ==
    /\ sig
    /\ p \notin Answers[act][state] \/ Refused(p)
    /\ HandleError /\ Report(<<"ERROR">>)

(* Any other command is dropped, pongs included.                           *)
ForeignSignal ==
    /\ sig
    /\ SendNothing /\ Report(<<>>)
    /\ UNCHANGED core
-----------------------------------------------------------------------------
(***************************************************************************)
(* Everything else goes to the generic handleReception.                    *)
(***************************************************************************)
Streams ==
    \/ act \in {"APP", "FLIGHT"}
    \/ act = "RADIO_CHECK" /\ state \in {"RUNNING", "BREAKING"}
    \/ act = "RADIO_CALIB" /\ state \in {"CHECK", "FINAL_COMMAND"}
    \/ act = "SENSORS_LOGGER" /\ state = "LOGGING"

HearFrame(m) ==
    /\ \/ Streams /\ m = Frame
       \/ act = "FLIGHT" /\ m = Autopilot
    /\ SendNothing /\ Report(<<"DATA_RECEIVED">>)
    /\ UNCHANGED core

(* handlePong: the monitor learns of the pong when its value is the one    *)
(* last sent, which is left open.                                          *)
HearPong(m) ==
    /\ act \in {"APP", "FLIGHT"} /\ m = Ping
    /\ Report(<<"CONNECTION_STATUS">>) \/ Report(<<>>)
    /\ SendNothing
    /\ UNCHANGED core

(* handleIdleReception                                                     *)
HearsIdly ==
    \/ act \in {"DISCONNECT", "UPGRADE", "RESET"}
    \/ state = "INITIAL_COMMAND" /\ act # "CONNECT"
    \/ act = "SENSORS_LOGGER" /\ state = "BREAKING"

HearIdly(m) ==
    /\ HearsIdly /\ m \in {Frame, Ping}
    /\ SendNothing /\ Report(<<>>)
    /\ UNCHANGED core

(* The states whose handleReception is handleSignalPayloadReception.       *)
PayloadState ==
    \/ state = "CALIBRATION_RECEPTION" /\ act \in {"CONNECT", "ACCEL_CALIB", "MAGNET_CALIB"}
    \/ state \in {"CONTROLS_RECEPTION", "ROUTE_RECEPTION", "DATA_RECEPTION"}

(* The data of another class: the timer stops, nothing else is done.       *)
ForeignPayload(m) ==
    /\ PayloadState /\ m.kind = "payload" /\ m.cmd # payCmd
    /\ timer' = FALSE
    /\ SendNothing /\ Report(<<>>)
    /\ UNCHANGED <<object, sig, expected, sent, pay, payCmd, errors, tasks, link>>

LastAttempt_OneMore == errors + 1 > MaxErrors  \* mutant: off by one

LastAttempt == errors + 1 >= MaxErrors

AskAgain_Uncounted(reason) ==   \* mutant: the failure is not counted
    /\ out' = <<Signal(payCmd, reason)>>
    /\ timer' = TRUE
    /\ UNCHANGED <<object, sig, expected, sent, pay, payCmd, errors, tasks, link>>

AskAgain_Untimed(reason) ==     \* mutant: the timer is not started again
    /\ errors' = errors + 1
    /\ out' = <<Signal(payCmd, reason)>>
    /\ timer' = FALSE
    /\ UNCHANGED <<object, sig, expected, sent, pay, payCmd, tasks, link>>

(* One more attempt, asked for with the reason of this one's failure.      *)
AskAgain(reason) ==
    /\ errors' = errors + 1
    /\ out' = <<Signal(payCmd, reason)>>
    /\ timer' = TRUE
    /\ UNCHANGED <<object, sig, expected, sent, pay, payCmd, tasks, link>>

InvalidPayload(m) ==
    /\ PayloadState /\ m = Payload(payCmd, FALSE)
    /\ \/ ~LastAttempt /\ AskAgain("DATA_INVALID") /\ Report(<<>>)
       \/ LastAttempt /\ HandleError /\ Report(<<"ERROR">>)

ValidPayload(m) ==
    /\ PayloadState /\ m = Payload(payCmd, TRUE)
    /\ \/ ConnectData(payCmd) \/ DownloadData(payCmd) \/ FlightInitData(payCmd)
       \/ AccelData(payCmd) \/ MagnetData(payCmd) \/ RadioCheckData(payCmd)

Hears(m) ==
    \/ Streams /\ m = Frame
    \/ act = "FLIGHT" /\ m = Autopilot
    \/ act \in {"APP", "FLIGHT"} /\ m = Ping
    \/ HearsIdly /\ m \in {Frame, Ping}
    \/ act = "FLIGHT" /\ m = Signal("FLIGHT_LOOP", "BREAK")
    \/ act = "FLIGHT" /\ m = Signal("FLIGHT_LOOP", "BREAK_ACK") /\ state = "BREAKING"
    \/ PayloadState /\ m.kind = "payload"
    \/ /\ act = "RADIO_CALIB" /\ state = "CALIBRATION_RECEPTION"
       /\ m.kind = "payload" /\ m.cmd = "CALIBRATION_SETTINGS"

UnexpectedMessage(m) ==
    /\ ~Hears(m)
    /\ HandleError /\ Report(<<"ERROR">>)

Hear(m) ==
    /\ m.kind = "signal" => ~sig
    /\ \/ HearFrame(m) \/ HearPong(m) \/ HearIdly(m)
       \/ FlightHears(m) \/ RadioCalibHears(m)
       \/ ForeignPayload(m) \/ InvalidPayload(m) \/ ValidPayload(m)
       \/ UnexpectedMessage(m)
-----------------------------------------------------------------------------
(***************************************************************************)
(* The user.                                                               *)
(***************************************************************************)
Welcome(e, a) ==
    \/ act = "IDLE_ACTION" /\ e = "CONNECT" /\ a \in {"APP", "UPGRADE"}
    \/ act = "APP" /\ e = "ACTION" /\ a \in AppActions
    \/ act = "APP" /\ e = "UPLOAD" /\ UploadCommand(a) # "DUMMY"
    \/ act = "APP" /\ e = "DOWNLOAD" /\ DownloadCommand(a) # "DUMMY"
    \/ act = "FLIGHT" /\ state = "FLING" /\ e = "BREAK_FLIGHT_LOOP"
    \/ /\ act = "MAGNET_CALIB" /\ state = "CALIBRATION"
       /\ e \in {"MAGNET_CALIB_DONE", "MAGNET_CALIB_ABORT"}
    \/ act = "RADIO_CHECK" /\ state = "RUNNING" /\ e = "RADIO_CHECK_DONE"
    \/ /\ act = "RADIO_CALIB" /\ state \in {"CALIBRATION_COMMAND", "CHECK"}
       /\ e \in {"RADIO_CALIBRATION_DONE", "RADIO_CALIBRATION_SKIP"}
    \/ /\ act = "RADIO_CALIB" /\ state = "CALIBRATION_COMMAND"
       /\ e = "RADIO_CALIBRATION_BREAK"
    \/ /\ act = "ESC_CALIB" /\ state \in {"ESC_DISCONNECT", "ESC_CONNECT"}
       /\ e \in {"ESC_CALIB_DONE", "ESC_CALIB_ABORT"}
    \/ act = "SENSORS_LOGGER" /\ state = "LOGGING" /\ e = "BREAK_SENSORS_LOGGER"

UserEvent(e, a) ==
    /\ \/ IdleUser(e, a) \/ AppUser(e, a) \/ FlightUser(e, a) \/ MagnetUser(e, a)
       \/ RadioCheckUser(e, a) \/ RadioCalibUser(e, a) \/ EscUser(e, a)
       \/ LoggerUser(e, a)
    /\ thrown' = FALSE

(* except() leaves pushUserUavEvent through notifyUserUavEvent: nobody     *)
(* catches it, no handleError follows.                                     *)
RejectUserEvent(e, a) ==
    /\ ~Welcome(e, a)
    /\ IF act = "ESC_CALIB" /\ e \in {"ESC_CALIB_DONE", "ESC_CALIB_ABORT"}
       THEN EscRefuses(e, a) ELSE UNCHANGED object
    /\ thrown' = TRUE
    /\ SendNothing /\ Notify(<<>>)
    /\ UNCHANGED <<procedure, tasks, link>>
-----------------------------------------------------------------------------
(***************************************************************************)
(* The timers and the interface.                                           *)
(***************************************************************************)

(* baseHandleTimeout.  Its last branch, handleTimeout, would throw in the  *)
(* timer's thread; TimeoutIsAwaited says that no step gets there.          *)
SignalTimeout ==
    /\ timer /\ sig
    /\ HandleError /\ Notify(<<"ERROR">>)

PayloadTimeout ==
    /\ timer /\ ~sig /\ pay = "on"
    /\ \/ ~LastAttempt /\ AskAgain("TIMEOUT") /\ Notify(<<>>)
       \/ LastAttempt /\ HandleError /\ Notify(<<"ERROR">>)

PingTick ==
    /\ "ping" \in tasks
    /\ out' = <<Ping>> /\ Notify(<<>>)
    /\ UNCHANGED core

ConnectionTick_Unfed ==         \* mutant: receptionFeed is not reset
    /\ "conn" \in tasks
    /\ lost' = (lost \/ ~feed)
    /\ Notify(IF ~feed /\ ~lost THEN <<"CONNECTION_LOST">> ELSE <<>>)
    /\ SendNothing
    /\ UNCHANGED <<core, feed>>

ConnectionTick ==
    /\ "conn" \in tasks
    /\ lost' = (lost \/ ~feed) /\ feed' = FALSE
    /\ Notify(IF ~feed /\ ~lost THEN <<"CONNECTION_LOST">> ELSE <<>>)
    /\ SendNothing
    /\ UNCHANGED core

(* onConnected: start() of the action that waits for the interface.        *)
OnConnected ==
    /\ link = "connecting" /\ link' = "open"
    /\ Goto("INITIAL_COMMAND") /\ SendSignal("START")
    /\ Notify(<<>>)
    /\ UNCHANGED tasks

(* onError of the interface, while it connects or later.                   *)
LinkError ==
    /\ link # "closed"
    /\ HandleError /\ Notify(<<"ERROR">>)

(* The board, or the way to it, goes quiet without a word.                 *)
FallSilent ==
    /\ alive /\ alive' = FALSE
    /\ rest = 0
    /\ UNCHANGED <<core, out, ev, lost, feed, rest, thrown, got>>
-----------------------------------------------------------------------------
Reception ==
    /\ Receive
    /\ \/ \E p \in Parameters : Answer(p) \/ UnexpectedAnswer(p)
       \/ ForeignSignal
       \/ \E m \in Inbound : Hear(m)
    /\ KeepHistory

User ==
    /\ Otherwise /\ Calm
    /\ \E i \in UserInputs : UserEvent(i[1], i[2]) \/ RejectUserEvent(i[1], i[2])
    /\ KeepHistory

Timeout ==
    /\ Otherwise /\ Calm
    /\ SignalTimeout \/ PayloadTimeout
    /\ thrown' = FALSE /\ KeepHistory

LossTick == Otherwise /\ ConnectionTick /\ thrown' = FALSE /\ KeepHistory

Tick ==
    /\ Otherwise /\ Calm
    /\ PingTick \/ FlightControlTick
    /\ thrown' = FALSE /\ KeepHistory

Interface ==
    /\ Otherwise /\ Calm
    /\ OnConnected \/ LinkError
    /\ thrown' = FALSE /\ KeepHistory

Next == Reception \/ User \/ Timeout \/ LossTick \/ Tick \/ Interface \/ FallSilent

Spec == Init /\ [][Next]_vars

(* The thread that handles a buffer finishes it; a timer fires, unless the *)
(* board's messages keep restarting it.                                    *)
FairSpec ==
    /\ Spec
    /\ WF_vars(rest > 0 /\ Reception)
    /\ WF_vars(~alive /\ Timeout)
    /\ WF_vars(LossTick)
-----------------------------------------------------------------------------
(***************************************************************************)
(* Properties.                                                             *)
(***************************************************************************)

ObjectOK ==
    /\ act \in ActionTypes /\ state \in StatesOf(act)
    /\ data \in PayloadCommands \cup {"none"}
    /\ nonStatic \in BOOLEAN /\ breaking \in BOOLEAN
    /\ current \in 0..Channels /\ retrans \in 0..(MaxErrors - 1)

ProcedureOK ==
    /\ sig \in BOOLEAN /\ timer \in BOOLEAN
    /\ expected \in Commands \cup {Undef} /\ sent \in Parameters
    /\ pay \in {"on", "off", Undef} /\ payCmd \in PayloadCommands \cup {Undef}
    /\ errors \in 0..(MaxErrors - 1)

ListenerOK ==
    /\ tasks \subseteq {"ping", "conn", "control"}
    /\ link \in {"closed", "connecting", "open"}

ReportOK == out \in Seq(Messages) /\ ev \in Seq(Events)

SurroundingsOK ==
    /\ feed \in BOOLEAN /\ lost \in BOOLEAN
    /\ rest \in 0..Burst /\ alive \in BOOLEAN /\ thrown \in BOOLEAN
    /\ got \subseteq Commands

(* Every variable has its type, and the action is in a state of its class. *)
TypeOK == ObjectOK /\ ProcedureOK /\ ListenerOK /\ ReportOK /\ SurroundingsOK

(* The states s of an action t that wait for a signal from the board, and  *)
(* the command of that signal.                                             *)
SignalState(t, s) ==
    \/ s \in {"INITIAL_COMMAND", "FINAL_COMMAND", "DISCONNECTING", "ROUTE_COMMAND",
              "CALIBRATION_RESULT", "CALIBRATION_SKIP_RESULT", "CALIBRATION_RESPONSE",
              "ESC_DISCONNECT_ACK", "ESC_CONNECT_ACK", "CALIBRATING", "UPLOAD"}
    \/ s = "CALIBRATION" /\ t # "MAGNET_CALIB"
    \/ s = "BREAKING" /\ t # "FLIGHT"

AwaitedSignal(t, s, d) ==
    CASE t = "CONNECT" /\ s = "CALIBRATION"   -> "CALIBRATION_SETTINGS"
      [] t = "CONNECT" /\ s = "FINAL_COMMAND" -> "APP_LOOP"
      [] s = "UPLOAD"                         -> d
      [] OTHER                                -> ActionCommand(t, d)

(* The states that wait for a payload, and which one.                      *)
DataState(s) ==
    s \in {"CALIBRATION_RECEPTION", "CONTROLS_RECEPTION", "ROUTE_RECEPTION",
           "DATA_RECEPTION"}

AwaitedPayload(t, s, d) ==
    CASE s = "CONTROLS_RECEPTION" -> "CONTROL_SETTINGS"
      [] s = "ROUTE_RECEPTION"    -> "ROUTE_CONTAINER"
      [] s = "DATA_RECEPTION"     -> d
      [] OTHER                    -> "CALIBRATION_SETTINGS"

(* The periodic tasks each state needs, the interface it needs.            *)
TasksOf(t, s) ==
    CASE t = "APP"                                          -> {"ping", "conn"}
      [] t = "FLIGHT" /\ s = "FLING"                        -> {"ping", "control"}
      [] t = "FLIGHT" /\ s = "BREAKING"                     -> {"control"}
      [] t = "MAGNET_CALIB"
           /\ s \in {"CALIBRATION_RESULT", "CALIBRATION_SKIP_RESULT",
                     "CALIBRATION_RECEPTION"}               -> {"conn"}
      [] t = "RADIO_CHECK" /\ s = "INITIAL_COMMAND"         -> {"conn"}
      [] t = "SENSORS_LOGGER"
           /\ s \in {"INITIAL_COMMAND", "LOGGING"}          -> {"conn"}
      [] OTHER                                              -> {}

LinkOf(t, s) ==
    CASE t = "IDLE_ACTION"                           -> "closed"
      [] t \in {"CONNECT", "UPGRADE"} /\ s = "IDLE"  -> "connecting"
      [] OTHER                                       -> "open"

(* The signal procedure is armed in the states that wait for a signal and  *)
(* in no other: its timer runs, and the command it waits on is the one the *)
(* board answers with there.  Otherwise an answer would be dropped as      *)
(* foreign, or a lost one never missed.  A DisconnectAction that dropped   *)
(* an answer is the exception (see DisconnectAnswer).                      *)
SignalWaitsAreArmed ==
    /\ sig => /\ SignalState(act, state) /\ timer
              /\ expected = AwaitedSignal(act, state, data)
    /\ SignalState(act, state) /\ act # "DISCONNECT" => sig

(* The payload procedure is on in the states that wait for a payload and   *)
(* in no other, for the payload the action is written for, and with an     *)
(* attempt left; no signal is awaited meanwhile.                           *)
PayloadWaitsAreArmed ==
    /\ DataState(state) <=> pay = "on"
    /\ DataState(state) =>
          ~sig /\ payCmd = AwaitedPayload(act, state, data) /\ errors < MaxErrors

(* Each wait for the board is armed for what ends it.                      *)
WaitsAreArmed == SignalWaitsAreArmed /\ PayloadWaitsAreArmed

(* A timer that runs belongs to one of the two procedures:                 *)
(* baseHandleTimeout never gets to handleTimeout, which throws in the      *)
(* timer's thread, and never reads wasSignalPayloadReceptionProcedure      *)
(* before it is written.                                                   *)
TimeoutIsAwaited == timer => sig \/ pay = "on"

(* The periodic tasks that run are those the action in charge needs: no    *)
(* transition leaves one behind and none is missed, though the calls that  *)
(* enable and disable them are spread over nine classes.                   *)
TasksMatchAction == tasks = TasksOf(act, state)

(* The interface is closed exactly when the application is idle, and being *)
(* connected exactly while a prepared action waits for it: onConnected     *)
(* never restarts an action under way, and no error leaves the interface   *)
(* open behind an IdleAction.                                              *)
LinkMatchesAction == link = LinkOf(act, state)

(* The settings a state relies on.                                         *)
SettingsNeeded(t, s) ==
    CASE t = "FLIGHT" \/ s \in {"ROUTE_COMMAND", "ROUTE_RECEPTION"}
                                                   -> {"CONTROL_SETTINGS"}
      [] t = "RADIO_CHECK" /\ s \in {"RUNNING", "BREAKING"}
                                                   -> {"CONTROL_SETTINGS"}
      [] t = "CONNECT" /\ s = "FINAL_COMMAND"      -> {"CALIBRATION_SETTINGS"}
      [] OTHER                                     -> {}

(* No flight, and no radio check, runs on settings the board did not hand  *)
(* over, acknowledged, in the same chain of actions; no connection reaches *)
(* its last command without the calibration.                               *)
SettingsComeFirst == SettingsNeeded(act, state) \subseteq got

(* A radio calibration asks for each channel once: it gets to its check    *)
(* with all of them acknowledged, and asks for none beyond.                *)
EveryChannelIsCalibrated ==
    act = "RADIO_CALIB" =>
      /\ state \in {"INITIAL_COMMAND", "CALIBRATION_COMMAND",
                   "CALIBRATION_RESPONSE", "BREAKING"}
           => current < Channels
      /\ state \in {"CHECK", "FINAL_COMMAND", "CALIBRATION_RECEPTION"}
           => current = Channels

Sends(m)    == \E i \in DOMAIN out : out[i] = m
Reports(e)  == \E i \in DOMAIN ev : ev[i] = e

(* While a payload is awaited, the monitor gets data in the same step that *)
(* tells the board so, and in no other; a radio calibration tells nothing. *)
DeliveredIsAcknowledged ==
    [][\A c \in PayloadCommands :
         pay = "on" /\ payCmd = c /\ act # "RADIO_CALIB" =>
           (Sends(Signal(c, "ACK")) <=> Reports("DATA_RECEIVED"))']_vars

(* A signal timer that stops while its action stays in the same state is a *)
(* wait nothing will end.  It happens after a payload of another class and *)
(* after an answer DisconnectAction has no case for, never else.           *)
TimerStopsWithItsWait ==
    [][timer /\ ~timer' /\ act' = act /\ state' = state =>
         act = "DISCONNECT" \/ \E m \in Inbound : ForeignPayload(m)]_vars

(* The user is the only one to begin a procedure, and a wait for the user  *)
(* (turning the board, moving a stick, plugging an ESC) ends by the user's *)
(* own event or an error: no message and no timer skips it.                *)
UserWait ==
    \/ act \in {"IDLE_ACTION", "APP"}
    \/ act = "MAGNET_CALIB" /\ state = "CALIBRATION"
    \/ act = "RADIO_CALIB" /\ state \in {"CALIBRATION_COMMAND", "CHECK"}
    \/ act = "ESC_CALIB" /\ state \in {"ESC_DISCONNECT", "ESC_CONNECT"}
    \/ act = "RADIO_CHECK" /\ state = "RUNNING"
    \/ act = "SENSORS_LOGGER" /\ state = "LOGGING"

UserWaitsEndByUser ==
    [][UserWait /\ <<act, state>>' # <<act, state>> =>
         act' = "IDLE_ACTION" \/ \E i \in UserInputs : UserEvent(i[1], i[2])]_vars

(* The application as its monitor sees it: every change of phase is told,  *)
(* and nothing is told that did not happen.                                *)
Phase ==
    CASE act = "IDLE_ACTION" -> "idle"
      [] act = "CONNECT"     -> "opening"
      [] act = "UPGRADE" /\ state = "IDLE" -> "opening"
      [] act = "APP"         -> "loop"
      [] act = "FLIGHT"      -> "flight"
      [] OTHER               -> "busy"

SessionEvents ==
    {"ERROR", "APPLICATION_LOOP_STARTED", "APPLICATION_LOOP_ENDED",
     "APPLICATION_LOOP_TERMINATED", "FLIGHT_LOOP_STARTED", "FLIGHT_LOOP_ENDED",
     "FLIGHT_LOOP_TERMINATED"}

Session == INSTANCE UavSession
           WITH phase <- Phase,
                heard <- {e \in SessionEvents : Reports(e)},
                Ended <- {"APPLICATION_LOOP_ENDED", "APPLICATION_LOOP_TERMINATED"}

ImplementsSession == Session!Spec

(* Once the board is silent for good, every wait that a timer guards ends: *)
(* the application gets to where it waits for the user, or to one of the   *)
(* waits no timer guards.                                                  *)
Untimed ==
    \/ link = "connecting"
    \/ act = "FLIGHT"
    \/ act = "DISCONNECT" /\ ~timer
    \/ DataState(state) /\ ~timer

SilenceEndsWaits == ~alive ~> UserWait \/ Untimed

(* Where the connection is watched, a silence is noticed.                  *)
SilenceIsNoticed == ~alive /\ "conn" \in tasks ~> lost \/ "conn" \notin tasks
-----------------------------------------------------------------------------
(***************************************************************************)
(* What the repository says of the code and the code does not do.          *)
(***************************************************************************)

(* MulticopterUav.hpp, on pushUserUavEvent: an unexpected event breaks the *)
(* communication and is reported as an error.                              *)
UnexpectedEventBreaks ==
    [][thrown' /\ link = "open" => link' = "closed" /\ Reports("ERROR")']_vars

(* EscCalibAction takes a BREAK_ACK it did not ask for as unexpected: it   *)
(* has an exception for it.  Asking means to have sent BREAK_FAIL.         *)
BreakIsAskedFor ==
    [][act = "ESC_CALIB" /\ act' = "APP" /\ Reports("INFO")' => sent = "BREAK_FAIL"]_vars
=============================================================================
