---------------------------- MODULE CommProtocol ----------------------------
(***************************************************************************)
(* The vocabulary of the Multicopter communication protocol: the signal    *)
(* commands and parameters of SignalData, the messages the dispatcher      *)
(* hands to the application, the events the application reports to its     *)
(* monitor.  Everything here is a value; nothing has state.                *)
(***************************************************************************)
EXTENDS Naturals, Sequences

(* SignalData::Command, less the *_DATA commands, which only mark payload  *)
(* packets and never reach an action (CommDispatcher turns them into       *)
(* payload messages).                                                      *)
Commands ==
    {"DUMMY", "START_CMD", "APP_LOOP", "FLIGHT_LOOP", "CALIBRATE_ACCEL",
     "CALIBRATE_MAGNET", "CALIBRATE_ESC", "UPLOAD_SETTINGS",
     "DOWNLOAD_SETTINGS", "CALIBRATE_RADIO", "CHECK_RADIO",
     "SOFTWARE_UPGRADE", "SYSTEM_RESET", "UPLOAD_ROUTE", "DOWNLOAD_ROUTE",
     "CONFIGURE_WIFI", "SENSORS_LOGGER", "PING_VALUE",
     "CALIBRATION_SETTINGS", "CONTROL_SETTINGS", "ROUTE_CONTAINER",
     "WIFI_CONFIGURATION"}

(* SignalData::Parameter; VALUE stands for the number a ping carries.      *)
Parameters ==
    {"DUMMY_PARAMETER", "START", "ACK", "DATA_ACK", "ENTER_DFU", "BREAK",
     "BREAK_ACK", "BREAK_FAIL", "DONE", "READY", "FAIL", "SKIP",
     "NON_STATIC", "NOT_ALLOWED", "DATA_INVALID", "TIMEOUT",
     "VIA_ROUTE_ALLOWED", "VIA_ROUTE_NOT_ALLOWED", "VALUE"}

(* getSignalDataCommand() of the four ISignalPayloadMessage classes.       *)
PayloadCommands ==
    {"CALIBRATION_SETTINGS", "CONTROL_SETTINGS", "ROUTE_CONTAINER",
     "WIFI_CONFIGURATION"}

Signal(c, p)  == [kind |-> "signal", cmd |-> c, par |-> p]
Ping          == Signal("PING_VALUE", "VALUE")

(* The whole train of packets that MessagesBuilder cuts a payload into, as *)
(* CommDispatcher reassembles it; valid is what its isValid() will answer. *)
Payload(c, valid) == [kind |-> "payload", cmd |-> c,
                      par  |-> IF valid THEN "VALUE" ELSE "DATA_INVALID"]

(* A ControlData frame; its command is STOP or what the user's sticks say. *)
Control(stop) == [kind |-> "control", cmd |-> "DUMMY",
                  par  |-> IF stop THEN "BREAK" ELSE "VALUE"]

(* A frame the board streams: CONTROL_DATA, DEBUG_DATA or SENSORS_DATA (a  *)
(* CONTROL preamble, parsed as the type the ongoing action expects) ...    *)
Frame         == Control(FALSE)

(* ... or AUTOPILOT_DATA, which has a preamble of its own.                 *)
Autopilot     == [kind |-> "autopilot", cmd |-> "DUMMY", par |-> "VALUE"]

Messages == [kind : {"signal", "payload", "control", "autopilot"},
             cmd : Commands, par : Parameters]

(* UavEvent::Type; ERROR, WARNING and INFO are the three kinds of MESSAGE. *)
Events ==
    {"ERROR", "WARNING", "INFO", "DATA_RECEIVED", "DATA_UPLOADED",
     "CONNECTION_STATUS", "CALIBRATION_NON_STATIC",
     "APPLICATION_LOOP_STARTED", "APPLICATION_LOOP_ENDED",
     "APPLICATION_LOOP_TERMINATED", "FLIGHT_LOOP_NOT_ALLOWED",
     "VIA_ROUTE_NOT_ALLOWED", "FLIGHT_LOOP_STARTED", "FLIGHT_LOOP_ENDED",
     "FLIGHT_LOOP_TERMINATED", "CALIBRATE_MAGNET_STARTED",
     "CALIBRATE_RADIO_STARTED", "CALIBRATE_RADIO_NOT_ALLOWED",
     "CALIBRATE_RADIO_ENDED", "CALIBRATE_RADIO_ACK",
     "CALIBRATE_RADIO_FAIL", "CHECK_RADIO_STARTED",
     "CHECK_RADIO_NOT_ALLOWED", "CHECK_RADIO_ENDED", "UPGRADE_STARTED",
     "SENSORS_LOGGER_STARTED", "SENSORS_LOGGER_ENDED", "CONNECTION_LOST",
     "CONNECTION_RECOVERED", "CONTROLS_DOWNLOAD_FAIL",
     "ROUTE_DOWNLOAD_FAIL", "CALIBRATE_ESC_STARTED",
     "CALIBRATE_ESC_NOT_ALLOWED", "CALIBRATE_ESC_DONE",
     "CALIBRATE_ESC_ENDED"}

(* UserUavEvent::Type.  CONNECT, ACTION, UPLOAD and DOWNLOAD carry an      *)
(* argument: the kind of connection, the action to start, the data.        *)
UserEvents ==
    {"CONNECT", "ACTION", "UPLOAD", "DOWNLOAD", "MAGNET_CALIB_DONE",
     "MAGNET_CALIB_ABORT", "BREAK_APPLICATION_LOOP", "BREAK_FLIGHT_LOOP",
     "BREAK_RADIO_CHECK", "BREAK_SENSORS_LOGGER", "ESC_CALIB_DONE",
     "ESC_CALIB_ABORT", "RADIO_CHECK_DONE", "RADIO_CALIBRATION_BREAK",
     "RADIO_CALIBRATION_DONE", "RADIO_CALIBRATION_SKIP"}

(* ICommAction::Type.                                                      *)
ActionTypes ==
    {"IDLE_ACTION", "CONNECT", "UPGRADE", "DISCONNECT", "APP",
     "FLIGHT_INITIALIZATION", "FLIGHT", "ACCEL_CALIB", "MAGNET_CALIB",
     "UPLOAD_SIGNAL_PAYLOAD", "DOWNLOAD_SIGNAL_PAYLOAD", "SENSORS_LOGGER",
     "RADIO_CHECK", "RADIO_CALIB", "ESC_CALIB", "RESET"}
=============================================================================
