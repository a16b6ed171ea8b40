------------------------- MODULE CalibrationActions -------------------------
(***************************************************************************)
(* The procedures that wait on the user as well as on the board: the four  *)
(* calibrations, the radio check, the sensors logger.  Operators are named *)
(* as in SessionActions.                                                   *)
(***************************************************************************)
EXTENDS CommAction

AccelAnswer(p) ==
    /\ act = "ACCEL_CALIB"
    /\ \/ /\ state = "INITIAL_COMMAND" /\ p = "ACK"
          /\ Proceed("CALIBRATION") /\ AwaitSignal("CALIBRATE_ACCEL")
          /\ Report(<<>>)
          /\ UNCHANGED tasks
       \/ /\ state = "CALIBRATION" /\ p = "DONE"
          /\ Proceed("CALIBRATION_RECEPTION")
          /\ AwaitPayload("CALIBRATION_SETTINGS")
          /\ Report(<<>>)
          /\ UNCHANGED tasks
       \/ /\ state = "CALIBRATION" /\ p = "NON_STATIC"
          /\ ToApp /\ Report(<<"WARNING">>)

AccelData(c) ==
    /\ act = "ACCEL_CALIB" /\ state = "CALIBRATION_RECEPTION"
    /\ DeliverToApp(c)
-----------------------------------------------------------------------------
(* While the user turns the board around, nothing is timed.                *)
MagnetAnswer(p) ==
    /\ act = "MAGNET_CALIB"
    /\ \/ /\ state = "INITIAL_COMMAND" /\ p = "ACK"
          /\ DisableTask("conn")
          /\ Proceed("CALIBRATION") /\ EndSignalTimeout
          /\ Report(<<"CALIBRATE_MAGNET_STARTED">>)
       \/ /\ state = "CALIBRATION_RESULT" /\ p = "DONE"
          /\ Proceed("CALIBRATION_RECEPTION")
          /\ AwaitPayload("CALIBRATION_SETTINGS")
          /\ Report(<<>>)
          /\ UNCHANGED tasks
       \/ /\ state = "CALIBRATION_RESULT" /\ p = "FAIL"
          /\ ToApp /\ Report(<<"WARNING">>)
       \/ /\ state = "CALIBRATION_SKIP_RESULT" /\ p = "ACK"
          /\ ToApp /\ Report(<<>>)

MagnetUser(e, a) ==
    /\ act = "MAGNET_CALIB" /\ state = "CALIBRATION"
    /\ \/ /\ e = "MAGNET_CALIB_DONE"
          /\ Goto("CALIBRATION_RESULT") /\ SendSignal("DONE")
       \/ /\ e = "MAGNET_CALIB_ABORT"
          /\ Goto("CALIBRATION_SKIP_RESULT") /\ SendSignal("SKIP")
    /\ EnableTask("conn")
    /\ Notify(<<>>)
    /\ UNCHANGED link

MagnetData(c) ==
    /\ act = "MAGNET_CALIB" /\ state = "CALIBRATION_RECEPTION"
    /\ DeliverToApp(c)
-----------------------------------------------------------------------------
RadioCheckAnswer(p) ==
    /\ act = "RADIO_CHECK"
    /\ \/ /\ state = "INITIAL_COMMAND" /\ p = "ACK"
          /\ DisableTask("conn")
          /\ Proceed("CONTROLS_RECEPTION") /\ AwaitPayload("CONTROL_SETTINGS")
          /\ Report(<<>>)
       \/ /\ state = "INITIAL_COMMAND" /\ p = "NOT_ALLOWED"
          /\ ToApp /\ Report(<<"CHECK_RADIO_NOT_ALLOWED">>)
       \/ /\ state = "BREAKING" /\ p = "BREAK_ACK"
          /\ ToApp /\ Report(<<"CHECK_RADIO_ENDED">>)

RadioCheckUser(e, a) ==
    /\ act = "RADIO_CHECK" /\ state = "RUNNING"
    /\ e = "RADIO_CHECK_DONE"
    /\ DisableTask("conn")
    /\ Goto("BREAKING") /\ SendSignal("BREAK")
    /\ Notify(<<>>)
    /\ UNCHANGED link

RadioCheckData(c) ==
    /\ act = "RADIO_CHECK" /\ state = "CONTROLS_RECEPTION"
    /\ Goto("RUNNING") /\ EndSignalTimeout
    /\ out' = <<Signal(c, "ACK")>>
    /\ Report(<<"CHECK_RADIO_STARTED", "DATA_RECEIVED">>)
    /\ UNCHANGED <<tasks, link>>
-----------------------------------------------------------------------------
LastChannel_OneMore(n) == n > Channels         \* mutant: off by one

LastChannel(n) == n >= Channels

(* The board acknowledged one channel.                                     *)
RadioCalibChannel(p) ==
    /\ act = "RADIO_CALIB" /\ state = "CALIBRATION_RESPONSE" /\ p = "ACK"
    /\ current' = current + 1
    /\ state' = IF LastChannel(current') THEN "CHECK" ELSE "CALIBRATION_COMMAND"
    /\ EndSignalTimeout
    /\ SendNothing /\ Report(<<"CALIBRATE_RADIO_ACK">>)
    /\ UNCHANGED <<act, data, nonStatic, breaking, retrans, tasks, link>>

RadioCalibAnswer(p) ==
    /\ act = "RADIO_CALIB"
    /\ \/ /\ state = "INITIAL_COMMAND" /\ p = "ACK"
          /\ Proceed("CALIBRATION_COMMAND") /\ EndSignalTimeout
          /\ Report(<<"CALIBRATE_RADIO_STARTED">>)
          /\ UNCHANGED tasks
       \/ /\ state = "INITIAL_COMMAND" /\ p = "NOT_ALLOWED"
          /\ ToApp /\ Report(<<"CALIBRATE_RADIO_NOT_ALLOWED">>)
       \/ /\ state = "CALIBRATION_RESPONSE" /\ p = "FAIL"
          /\ Proceed("CALIBRATION_COMMAND") /\ EndSignalTimeout
          /\ Report(<<"CALIBRATE_RADIO_FAIL">>)
          /\ UNCHANGED tasks
       \/ /\ state = "BREAKING" /\ p = "BREAK_ACK"
          /\ ToApp /\ Report(<<"CALIBRATE_RADIO_ENDED">>)
       \/ /\ state = "FINAL_COMMAND" /\ p = "ACK"
          /\ Proceed("CALIBRATION_RECEPTION")
          /\ AwaitPayload("CALIBRATION_SETTINGS")
          /\ Report(<<>>)
          /\ UNCHANGED tasks
       \/ /\ state = "FINAL_COMMAND" /\ p = "BREAK_FAIL"
          /\ ToApp /\ Report(<<"CALIBRATE_RADIO_ENDED", "WARNING">>)
       \/ /\ state = "FINAL_COMMAND" /\ p = "BREAK_ACK"
          /\ ToApp /\ Report(<<"CALIBRATE_RADIO_ENDED", "INFO">>)

(* The signal each user event sends, and the state it leads to.            *)
RadioCalibUser(e, a) ==
    /\ act = "RADIO_CALIB"
    /\ \/ /\ state = "CALIBRATION_COMMAND" /\ e = "RADIO_CALIBRATION_DONE"
          /\ Goto("CALIBRATION_RESPONSE") /\ SendSignal("DONE")
       \/ /\ state = "CALIBRATION_COMMAND" /\ e = "RADIO_CALIBRATION_SKIP"
          /\ Goto("CALIBRATION_RESPONSE") /\ SendSignal("SKIP")
       \/ /\ state = "CALIBRATION_COMMAND" /\ e = "RADIO_CALIBRATION_BREAK"
          /\ Goto("BREAKING") /\ SendSignal("BREAK")
       \/ /\ state = "CHECK" /\ e = "RADIO_CALIBRATION_DONE"
          /\ Goto("FINAL_COMMAND") /\ SendSignal("BREAK")
       \/ /\ state = "CHECK" /\ e = "RADIO_CALIBRATION_SKIP"
          /\ Goto("FINAL_COMMAND") /\ SendSignal("BREAK_FAIL")
    /\ Notify(<<>>)
    /\ UNCHANGED <<tasks, link>>

RadioCalibHears_AnyState(m) ==  \* mutant: the state is not looked at
    /\ act = "RADIO_CALIB"
    /\ m.kind = "payload" /\ m.cmd = "CALIBRATION_SETTINGS"
    /\ ToApp
    /\ Report(<<"DATA_RECEIVED", "CALIBRATE_RADIO_ENDED", "INFO">>)

(* Unlike every other reception this one neither goes through              *)
(* handleSignalPayloadReception nor checks isValid: the message's type is  *)
(* all it looks at, and nothing is acknowledged.                           *)
RadioCalibHears(m) ==
    /\ act = "RADIO_CALIB" /\ state = "CALIBRATION_RECEPTION"
    /\ m.kind = "payload" /\ m.cmd = "CALIBRATION_SETTINGS"
    /\ ToApp
    /\ Report(<<"DATA_RECEIVED", "CALIBRATE_RADIO_ENDED", "INFO">>)
-----------------------------------------------------------------------------
EscAnswer(p) ==
    /\ act = "ESC_CALIB"
    /\ \/ /\ state = "INITIAL_COMMAND" /\ p = "ACK"
          /\ DisableTask("conn")
          /\ Proceed("ESC_DISCONNECT") /\ EndSignalTimeout
          /\ Report(<<"CALIBRATE_ESC_STARTED">>)
       \/ /\ state = "INITIAL_COMMAND" /\ p = "NOT_ALLOWED"
          /\ ToApp /\ Report(<<"CALIBRATE_ESC_NOT_ALLOWED">>)
       \/ /\ state = "ESC_DISCONNECT_ACK" /\ p = "ACK"
          /\ Proceed("ESC_CONNECT") /\ EndSignalTimeout
          /\ Report(<<"CALIBRATE_ESC_DONE">>)
          /\ UNCHANGED tasks
       \/ /\ state = "ESC_CONNECT_ACK" /\ p = "ACK"
          /\ Proceed("CALIBRATING") /\ AwaitSignal("CALIBRATE_ESC")
          /\ Report(<<"CALIBRATE_ESC_DONE">>)
          /\ UNCHANGED tasks
       \/ /\ state = "CALIBRATING" /\ p = "DONE"
          /\ ToApp /\ Report(<<"CALIBRATE_ESC_ENDED">>)

(* The board confirms that the calibration is broken off.                  *)
EscBroken(p) ==
    /\ act = "ESC_CALIB" /\ state \in {"ESC_DISCONNECT_ACK", "ESC_CONNECT_ACK"}
    /\ p = "BREAK_ACK" /\ breaking
    /\ ToApp /\ Report(<<"INFO">>)

(* handleUserEvent marks an abort before proceed can refuse it.            *)
EscMarks(e) ==
    /\ breaking' = (breaking \/ e = "ESC_CALIB_ABORT")
    /\ UNCHANGED <<act, data, nonStatic, current, retrans>>

EscUser(e, a) ==
    /\ act = "ESC_CALIB"
    /\ e \in {"ESC_CALIB_DONE", "ESC_CALIB_ABORT"}
    /\ EscMarks(e)
    /\ \/ state = "ESC_DISCONNECT" /\ state' = "ESC_DISCONNECT_ACK"
       \/ state = "ESC_CONNECT" /\ state' = "ESC_CONNECT_ACK"
    /\ SendSignal(IF e = "ESC_CALIB_DONE" THEN "DONE" ELSE "BREAK_FAIL")
    /\ Notify(<<>>)
    /\ UNCHANGED <<tasks, link>>

EscRefuses(e, a) ==
    /\ act = "ESC_CALIB" /\ state \notin {"ESC_DISCONNECT", "ESC_CONNECT"}
    /\ EscMarks(e)
    /\ UNCHANGED state
-----------------------------------------------------------------------------
LoggerAnswer(p) ==
    /\ act = "SENSORS_LOGGER"
    /\ \/ /\ state = "INITIAL_COMMAND" /\ p = "ACK"
          /\ Proceed("LOGGING") /\ EndSignalTimeout
          /\ Report(<<"SENSORS_LOGGER_STARTED">>)
          /\ UNCHANGED tasks
       \/ /\ state = "BREAKING" /\ p = "BREAK_ACK"
          /\ ToApp /\ Report(<<"SENSORS_LOGGER_ENDED">>)

LoggerUser(e, a) ==
    /\ act = "SENSORS_LOGGER" /\ state = "LOGGING"
    /\ e = "BREAK_SENSORS_LOGGER"
    /\ DisableTask("conn")
    /\ Goto("BREAKING") /\ SendSignal("BREAK")
    /\ Notify(<<>>)
    /\ UNCHANGED link
=============================================================================
