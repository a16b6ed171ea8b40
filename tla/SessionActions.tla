--------------------------- MODULE SessionActions ---------------------------
(***************************************************************************)
(* The actions that open, hold and close a session, and those that move    *)
(* settings: Idle, Connect, App, Disconnect, Upgrade, Reset,               *)
(* UploadSignalPayload, DownloadSignalPaylod.                              *)
(*                                                                         *)
(* For each class: ...Answer(p) is handleSignalReception(p), enabled for   *)
(* the parameters its switch accepts; ...User(e, a) is handleUserEvent,    *)
(* enabled for the events it accepts; ...Data(c) is what follows a         *)
(* successful handleSignalPayloadReception.  What no operator accepts ends *)
(* in except(), which MulticopterUav catches.                              *)
(***************************************************************************)
EXTENDS CommAction

(* IdleAction::handleUserEvent: the object waits for the interface.        *)
IdleUser(e, a) ==
    /\ act = "IDLE_ACTION"
    /\ e = "CONNECT" /\ a \in {"APP", "UPGRADE"}
    /\ PrepareAction(IF a = "APP" THEN "CONNECT" ELSE "UPGRADE")
    /\ link' = "connecting"
    /\ SendNothing /\ Notify(<<>>)
-----------------------------------------------------------------------------
ConnectAnswer(p) ==
    /\ act = "CONNECT"
    /\ UNCHANGED tasks
    /\ \/ /\ state = "INITIAL_COMMAND" /\ p = "ACK"
          /\ Proceed("CALIBRATION") /\ AwaitSignal("CALIBRATION_SETTINGS")
          /\ Report(<<>>)
       \/ /\ state = "CALIBRATION" /\ p = "READY"
          /\ Proceed("CALIBRATION_RECEPTION")
          /\ AwaitPayload("CALIBRATION_SETTINGS")
          /\ Report(<<>>)

(* The board waits to be put down; the monitor is told once per attempt.   *)
ConnectNonStatic(p) ==
    /\ act = "CONNECT" /\ state = "CALIBRATION" /\ p = "NON_STATIC"
    /\ AwaitSignal("CALIBRATION_SETTINGS")
    /\ nonStatic' = TRUE
    /\ Report(IF nonStatic THEN <<>> ELSE <<"CALIBRATION_NON_STATIC">>)
    /\ SendNothing
    /\ UNCHANGED <<act, state, data, current, breaking, retrans, tasks, link>>

ConnectReady(p) ==
    /\ act = "CONNECT" /\ state = "FINAL_COMMAND" /\ p = "ACK"
    /\ ToApp
    /\ Report(<<"APPLICATION_LOOP_STARTED">>)

ConnectData_NoAck(c) ==         \* mutant: the payload is not acknowledged
    /\ act = "CONNECT" /\ state = "CALIBRATION_RECEPTION"
    /\ Goto("FINAL_COMMAND") /\ AwaitSignal("APP_LOOP")
    /\ out' = <<Signal("APP_LOOP", "START")>>
    /\ Report(<<"DATA_RECEIVED">>)
    /\ UNCHANGED <<tasks, link>>

ConnectData(c) ==
    /\ act = "CONNECT" /\ state = "CALIBRATION_RECEPTION"
    /\ Goto("FINAL_COMMAND") /\ AwaitSignal("APP_LOOP")
    /\ out' = <<Signal(c, "ACK"), Signal("APP_LOOP", "START")>>
    /\ Report(<<"DATA_RECEIVED">>)
    /\ UNCHANGED <<tasks, link>>
-----------------------------------------------------------------------------
(* The actions AppAction::handleUserUavEventAction can start.              *)
AppActions ==
    {"UPGRADE", "DISCONNECT", "FLIGHT_INITIALIZATION", "ACCEL_CALIB",
     "MAGNET_CALIB", "SENSORS_LOGGER", "RADIO_CHECK", "RADIO_CALIB",
     "ESC_CALIB", "RESET"}

AppUser(e, a) ==
    /\ act = "APP"
    /\ \/ e = "ACTION" /\ a \in AppActions /\ StartAction(a, "none", <<>>)
       \/ /\ e = "UPLOAD" /\ UploadCommand(a) # "DUMMY"
          /\ StartAction("UPLOAD_SIGNAL_PAYLOAD", a, <<>>)
       \/ /\ e = "DOWNLOAD" /\ DownloadCommand(a) # "DUMMY"
          /\ StartAction("DOWNLOAD_SIGNAL_PAYLOAD", a, <<>>)
    /\ Notify(<<>>)
    /\ UNCHANGED link
-----------------------------------------------------------------------------
DisconnectAnswer(p) ==
    /\ act = "DISCONNECT"
    /\ \/ p = "BREAK_ACK" /\ ToIdle /\ Report(<<"APPLICATION_LOOP_ENDED">>)
       \/ /\ p # "BREAK_ACK"      \* dropped, after endSignalTimeout
          /\ EndSignalTimeout
          /\ Proceed(state) /\ Report(<<>>)
          /\ UNCHANGED tasks

UpgradeAnswer_Untold(p) ==      \* mutant: the end of the session is not told
    /\ act = "UPGRADE" /\ state = "INITIAL_COMMAND"
    /\ \/ p = "ACK" /\ ToIdle /\ Report(<<"UPGRADE_STARTED">>)
       \/ p = "NOT_ALLOWED" /\ ToApp /\ Report(<<"WARNING">>)

UpgradeAnswer(p) ==
    /\ act = "UPGRADE" /\ state = "INITIAL_COMMAND"
    /\ \/ /\ p = "ACK" /\ ToIdle
          /\ Report(<<"UPGRADE_STARTED", "APPLICATION_LOOP_TERMINATED">>)
       \/ p = "NOT_ALLOWED" /\ ToApp /\ Report(<<"WARNING">>)

ResetAnswer(p) ==
    /\ act = "RESET" /\ state = "INITIAL_COMMAND" /\ p = "ACK"
    /\ ToIdle
    /\ Report(<<"APPLICATION_LOOP_TERMINATED">>)
-----------------------------------------------------------------------------
(* The data goes out first, then the wait for its acknowledgement begins.  *)
Transmit ==
    /\ out' = <<Payload(data, TRUE)>>
    /\ AwaitSignal(data)
    /\ UNCHANGED <<tasks, link>>

UploadAnswer(p) ==
    /\ act = "UPLOAD_SIGNAL_PAYLOAD"
    /\ \/ /\ state = "INITIAL_COMMAND" /\ p = "ACK"
          /\ Transmit /\ Goto("UPLOAD") /\ Report(<<>>)
       \/ /\ state = "UPLOAD" /\ p = "ACK"
          /\ ToApp /\ Report(<<"DATA_UPLOADED">>)
       \/ /\ state = "UPLOAD" /\ p \in {"DATA_INVALID", "TIMEOUT"}
          /\ retrans + 1 < MaxErrors
          /\ retrans' = retrans + 1
          /\ Transmit /\ Report(<<>>)
          /\ UNCHANGED <<act, state, data, nonStatic, current, breaking>>

(* getMonitorFailEvent                                                     *)
DownloadFailEvent(d) == IF d = "CONTROL_SETTINGS" THEN "CONTROLS_DOWNLOAD_FAIL"
                                                  ELSE "ROUTE_DOWNLOAD_FAIL"

DownloadAnswer(p) ==
    /\ act = "DOWNLOAD_SIGNAL_PAYLOAD" /\ state = "INITIAL_COMMAND"
    /\ \/ /\ p = "ACK"
          /\ Proceed("DATA_RECEPTION") /\ AwaitPayload(data) /\ Report(<<>>)
          /\ UNCHANGED tasks
       \/ p = "FAIL" /\ ToApp /\ Report(<<DownloadFailEvent(data)>>)

DownloadData(c) ==
    /\ act = "DOWNLOAD_SIGNAL_PAYLOAD" /\ state = "DATA_RECEPTION"
    /\ DeliverToApp(c)
=============================================================================
