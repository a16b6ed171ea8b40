---------------------------- MODULE UavSimulator ----------------------------
(***************************************************************************)
(* The simulated board.  One step is one message or one callback; the      *)
(* board sleeps in some of its handlers, and hears nothing then.           *)
(*                                                                         *)
(* An exception is caught by handleCommEvent.  Pongs and debug data are    *)
(* left out (save what debug data may interrupt), and the requests the     *)
(* application never makes (SOFTWARE_UPGRADE, SYSTEM_RESET, AUTOPILOT).    *)
(***************************************************************************)
EXTENDS JavaLink

VARIABLES
  board, stage,  \* state, and the stage within it
  fails,         \* uploadFails, uploadRouteFails: of the upload under way
  debug,         \* the timer of debugTask: null, live or cancelled
  runaway,       \* its forgotten timers: nothing can stop them
  erred,         \* history: errors the board was told of
  closing        \* between the answer to BREAK and disconnect

timers == <<debug, runaway, erred>>
boardVars == <<board, stage, fails, timers, closing>>

Requests == {"FLIGHT_LOOP", "CALIBRATE_ACCEL", "CALIBRATE_MAGNET", "UPLOAD_SETTINGS",
             "DOWNLOAD_SETTINGS", "UPLOAD_ROUTE", "DOWNLOAD_ROUTE"}

StagesOf ==
    [b \in {"IDLE", "CONNECTING_APP_LOOP", "APP_LOOP"} \cup Requests |->
       CASE b = "CONNECTING_APP_LOOP" -> {"INITIAL_COMMAND", "CALIBRATION_ACK", "FINAL_COMMAND"}
         [] b = "FLIGHT_LOOP"         -> {"CONTROLS_ACK", "ROUTE_ACK", "FINAL_COMMAND", "RUNNING"}
         [] b = "CALIBRATE_MAGNET"    -> {"USER_COMMAND", "CALIBRATION_ACK"}
         [] OTHER                     -> {"NONE"}]

BoardInit ==
    /\ board = "IDLE" /\ stage = "NONE" /\ fails = 0
    /\ debug = "null" /\ runaway = 0 /\ erred = 0 /\ closing = FALSE

BoardReceives(m) == BoardHears(m) /\ ~closing

Stage(b, s) == board' = b /\ stage' = s /\ UNCHANGED closing

(* A CommTask started again forgets the timer it has, which runs on.       *)
StartDebug ==
    /\ debug' = "live" /\ runaway' = (IF debug = "live" THEN runaway + 1 ELSE runaway)
    /\ UNCHANGED erred

(* A tick that has begun outlives its timer.                               *)
StopDebug == debug' = "cancelled" /\ UNCHANGED <<runaway, erred>>

(* debugTask.start with the return to the application loop.                *)
ToAppLoop == Stage("APP_LOOP", "NONE") /\ StartDebug /\ UNCHANGED fails

(* The messages ms and the record c, which the debug data of a timer that  *)
(* is running may cut.                                                     *)
Sends(ms, c, ticking) ==
    \E v \in {"valid", "cut"} : (v = "cut" => ticking) /\ BoardAnswers(ms \o <<Payload(c, v)>>)

Ticking == debug = "live" \/ runaway > 0

Begin_Debugs(p, s) ==           \* mutant: debugTask is not stopped
    BoardReceives(Signal(p, "START")) /\ Stage(p, s) /\ fails' = 0 /\ UNCHANGED timers

(* A request in the application loop.                                      *)
Begin(p, s) ==
    BoardReceives(Signal(p, "START")) /\ Stage(p, s) /\ fails' = 0 /\ StopDebug

Ack(p) == <<Signal(p, "ACK")>>

Acknowledged(c) == BoardReceives(Signal(c, "ACK"))


(* handleSignalPayloadAck sends a refused record again, whatever           *)
(* sendingProcedureFails says: beyond its limit an exception follows,      *)
(* which changes nothing.                                                  *)
SendAgain(c) ==
    BoardReceives(Signal(c, "DATA_INVALID")) /\ Sends(<<>>, c, Ticking) /\ UNCHANGED boardVars
-----------------------------------------------------------------------------
(***************************************************************************)
(* handleEvent, state by state.                                            *)
(***************************************************************************)
HandleEventConnectingAppLoop ==
    /\ board = "CONNECTING_APP_LOOP"
    /\ \/ /\ stage = "INITIAL_COMMAND" /\ BoardReceives(Signal("START_CMD", "START"))
          /\ Sends(<<Signal("START_CMD", "ACK"), Signal("CALIBRATION_SETTINGS", "READY")>>,
                   "CALIBRATION_SETTINGS", Ticking)
          /\ Stage(board, "CALIBRATION_ACK") /\ UNCHANGED <<fails, timers>>
       \/ /\ stage = "CALIBRATION_ACK" /\ Acknowledged("CALIBRATION_SETTINGS") /\ BoardAnswers(<<>>)
          /\ Stage(board, "FINAL_COMMAND") /\ UNCHANGED <<fails, timers>>
       \/ stage = "CALIBRATION_ACK" /\ SendAgain("CALIBRATION_SETTINGS")
       \/ /\ stage = "FINAL_COMMAND" /\ BoardReceives(Signal("APP_LOOP", "START"))
          /\ BoardAnswers(<<Signal("APP_LOOP", "ACK")>>) /\ ToAppLoop

HandleEventAppLoop ==
    /\ board = "APP_LOOP"
    /\ \/ /\ BoardReceives(Signal("APP_LOOP", "BREAK")) /\ BoardAnswers(<<Signal("APP_LOOP", "BREAK_ACK")>>)
          /\ StopDebug /\ closing' = TRUE /\ UNCHANGED <<board, stage, fails>>
       \/ Begin("FLIGHT_LOOP", "CONTROLS_ACK") /\ Sends(Ack("FLIGHT_LOOP"), "CONTROL_SETTINGS", Ticking)
       \* its record follows a sleep
       \/ Begin("CALIBRATE_ACCEL", "NONE") /\ Sends(Ack("CALIBRATE_ACCEL") \o <<Signal("CALIBRATE_ACCEL", "DONE")>>,
                                                   "CALIBRATION_SETTINGS", runaway > 0)
       \/ Begin("CALIBRATE_MAGNET", "USER_COMMAND") /\ BoardAnswers(Ack("CALIBRATE_MAGNET"))
       \/ Begin("UPLOAD_SETTINGS", "NONE") /\ BoardAnswers(Ack("UPLOAD_SETTINGS"))
       \/ Begin("UPLOAD_ROUTE", "NONE") /\ BoardAnswers(Ack("UPLOAD_ROUTE"))
       \/ Begin("DOWNLOAD_SETTINGS", "NONE") /\ Sends(Ack("DOWNLOAD_SETTINGS"), "CONTROL_SETTINGS", Ticking)
       \/ Begin("DOWNLOAD_ROUTE", "NONE") /\ Sends(Ack("DOWNLOAD_ROUTE"), "ROUTE_CONTAINER", Ticking)

(* After BREAK_ACK, and a sleep.                                           *)
BoardCloses ==
    /\ closing /\ closing' = FALSE
    /\ Disconnect(appNews) /\ UNCHANGED <<board, stage, fails, timers>>

HandleEventFlightLoop_Continues ==      \* mutant: STOP is answered, and the flight goes on
    /\ board = "FLIGHT_LOOP"
    /\ \/ /\ stage = "CONTROLS_ACK"
          /\ Acknowledged("CONTROL_SETTINGS")
          /\ Sends(<<Signal("FLIGHT_LOOP", "VIA_ROUTE_ALLOWED")>>, "ROUTE_CONTAINER", Ticking)
          /\ Stage(board, "ROUTE_ACK") /\ UNCHANGED <<fails, timers>>
       \/ /\ stage = "ROUTE_ACK" /\ Acknowledged("ROUTE_CONTAINER") /\ BoardAnswers(<<>>)
          /\ Stage(board, "FINAL_COMMAND") /\ UNCHANGED <<fails, timers>>
       \/ /\ stage = "FINAL_COMMAND" /\ BoardReceives(Signal("FLIGHT_LOOP", "READY")) /\ BoardAnswers(<<>>)
          /\ Stage(board, "RUNNING") /\ StartDebug /\ UNCHANGED fails
       \/ /\ stage = "RUNNING" /\ BoardReceives(Frame("STOP"))
          /\ BoardAnswers(<<Signal("FLIGHT_LOOP", "BREAK_ACK")>>) /\ UNCHANGED boardVars

HandleEventFlightLoop ==
    /\ board = "FLIGHT_LOOP"
    /\ \/ /\ stage = "CONTROLS_ACK"
          /\ Acknowledged("CONTROL_SETTINGS")
          /\ Sends(<<Signal("FLIGHT_LOOP", "VIA_ROUTE_ALLOWED")>>, "ROUTE_CONTAINER", Ticking)
          /\ Stage(board, "ROUTE_ACK") /\ UNCHANGED <<fails, timers>>
       \/ stage = "CONTROLS_ACK" /\ SendAgain("CONTROL_SETTINGS")
       \/ /\ stage = "ROUTE_ACK" /\ Acknowledged("ROUTE_CONTAINER") /\ BoardAnswers(<<>>)
          /\ Stage(board, "FINAL_COMMAND") /\ UNCHANGED <<fails, timers>>
       \/ stage = "ROUTE_ACK" /\ SendAgain("ROUTE_CONTAINER")
       \/ /\ stage = "FINAL_COMMAND" /\ BoardReceives(Signal("FLIGHT_LOOP", "READY")) /\ BoardAnswers(<<>>)
          /\ Stage(board, "RUNNING") /\ StartDebug /\ UNCHANGED fails
       \/ /\ stage = "RUNNING" /\ BoardReceives(Frame("STOP"))
          /\ BoardAnswers(<<Signal("FLIGHT_LOOP", "BREAK_ACK")>>)
          /\ Stage("APP_LOOP", "NONE") /\ UNCHANGED <<fails, timers>>

(* A procedure that is over once its record is acknowledged.               *)
Delivers(c) == (Acknowledged(c) /\ BoardAnswers(<<>>) /\ ToAppLoop) \/ SendAgain(c)

HandleEventCalibrationAccelerometer == board = "CALIBRATE_ACCEL" /\ Delivers("CALIBRATION_SETTINGS")
HandleEventDownloadControlSettings  == board = "DOWNLOAD_SETTINGS" /\ Delivers("CONTROL_SETTINGS")
HandleEventDownloadRouteContainer   == board = "DOWNLOAD_ROUTE" /\ Delivers("ROUTE_CONTAINER")

HandleEventCalibrationMagnetometer ==
    /\ board = "CALIBRATE_MAGNET"
    /\ \/ /\ stage = "USER_COMMAND" /\ BoardReceives(Signal("CALIBRATE_MAGNET", "SKIP"))
          /\ BoardAnswers(<<Signal("CALIBRATE_MAGNET", "ACK")>>) /\ ToAppLoop
       \/ /\ stage = "USER_COMMAND" /\ BoardReceives(Signal("CALIBRATE_MAGNET", "DONE"))
          /\ Sends(<<Signal("CALIBRATE_MAGNET", "DONE")>>, "CALIBRATION_SETTINGS", Ticking)
          /\ Stage(board, "CALIBRATION_ACK") /\ UNCHANGED <<fails, timers>>
       \/ stage = "CALIBRATION_ACK" /\ Delivers("CALIBRATION_SETTINGS")

(* One record of an upload: taken, refused, or refused for the last time.  *)
Taken(c)   == BoardAnswers(<<Signal(c, "ACK")>>) /\ ToAppLoop
GivenUp(c) == BoardAnswers(<<Signal(c, "TIMEOUT")>>) /\ ToAppLoop
Refused(c) == /\ BoardAnswers(<<Signal(c, "DATA_INVALID")>>)
              /\ fails' = fails + 1 /\ UNCHANGED <<board, stage, timers, closing>>

(* Anything but the record c ends the upload.                              *)
Broken(c) ==
    /\ up # <<>> /\ BoardReceives(Head(up))
    /\ Head(up).parameter # "cut" /\ Head(up) \notin {Payload(c, v) : v \in Contents}
    /\ BoardAnswers(<<>>) /\ ToAppLoop

(* The limit is looked at first ...                                        *)
HandleEventUploadControlSettings ==
    /\ board = "UPLOAD_SETTINGS"
    /\ \/ Broken("CONTROL_SETTINGS")
       \/ \E v \in Contents :
            /\ BoardReceives(Payload("CONTROL_SETTINGS", v))
            /\ \/ fails = 3 /\ GivenUp("CONTROL_SETTINGS")
               \/ fails # 3 /\ v = "valid" /\ Taken("CONTROL_SETTINGS")
               \/ fails # 3 /\ v = "invalid" /\ Refused("CONTROL_SETTINGS")

HandleEventUploadRouteContainer ==
    /\ board = "UPLOAD_ROUTE"
    /\ \/ Broken("ROUTE_CONTAINER")
       \/ BoardReceives(Payload("ROUTE_CONTAINER", "valid")) /\ Taken("ROUTE_CONTAINER")
       \/ BoardReceives(Payload("ROUTE_CONTAINER", "invalid")) /\ fails >= 3 /\ GivenUp("ROUTE_CONTAINER")
       \/ BoardReceives(Payload("ROUTE_CONTAINER", "invalid")) /\ fails < 3 /\ Refused("ROUTE_CONTAINER")

(* Where the record c is sent until it is acknowledged.                    *)
Sending(c) ==
    \/ c = "CALIBRATION_SETTINGS" /\ (stage = "CALIBRATION_ACK" \/ board = "CALIBRATE_ACCEL")
    \/ c = "CONTROL_SETTINGS" /\ (stage = "CONTROLS_ACK" \/ board = "DOWNLOAD_SETTINGS")
    \/ c = "ROUTE_CONTAINER" /\ (stage = "ROUTE_ACK" \/ board = "DOWNLOAD_ROUTE")

Awaits(m) ==
    \/ \E c \in {"CALIBRATION_SETTINGS", "CONTROL_SETTINGS", "ROUTE_CONTAINER"} :
         Sending(c) /\ m \in {Signal(c, "ACK"), Signal(c, "DATA_INVALID")}
    \/ board = "CONNECTING_APP_LOOP" /\ stage = "INITIAL_COMMAND" /\ m = Signal("START_CMD", "START")
    \/ board = "CONNECTING_APP_LOOP" /\ stage = "FINAL_COMMAND" /\ m = Signal("APP_LOOP", "START")
    \/ board = "APP_LOOP" /\ m \in {Signal(p, "START") : p \in Requests} \cup {Signal("APP_LOOP", "BREAK")}
    \/ board = "FLIGHT_LOOP" /\ stage = "FINAL_COMMAND" /\ m = Signal("FLIGHT_LOOP", "READY")
    \/ stage = "RUNNING" /\ m = Frame("STOP")
    \/ stage = "USER_COMMAND" /\ m \in {Signal("CALIBRATE_MAGNET", p) : p \in {"SKIP", "DONE"}}
    \/ board \in {"UPLOAD_SETTINGS", "UPLOAD_ROUTE"} /\ m.parameter # "cut"

(* No effect on the board's state, or an exception; or a record came cut.  *)
BoardDrops ==
    /\ up # <<>> /\ BoardReceives(Head(up)) /\ ~Awaits(Head(up))
    /\ BoardAnswers(<<>>) /\ UNCHANGED boardVars

HandleCommEvent ==
    \/ HandleEventConnectingAppLoop \/ HandleEventAppLoop \/ HandleEventFlightLoop
    \/ HandleEventCalibrationAccelerometer \/ HandleEventCalibrationMagnetometer
    \/ HandleEventUploadControlSettings \/ HandleEventDownloadControlSettings
    \/ HandleEventUploadRouteContainer \/ HandleEventDownloadRouteContainer
    \/ BoardDrops
-----------------------------------------------------------------------------
(***************************************************************************)
(* Callbacks of the interface; onError leaves the debug timer running, and *)
(* onDisconnected throws if there never was one.                           *)
(***************************************************************************)
Called(callback) ==
    /\ boardNews # <<>> /\ Head(boardNews) = callback /\ ~closing
    /\ boardNews' = Tail(boardNews) /\ UNCHANGED <<status, up, down, appNews, opened, corrupted, cut>>

OnConnected ==
    Called("connected") /\ Stage("CONNECTING_APP_LOOP", "INITIAL_COMMAND") /\ UNCHANGED <<fails, timers>>

OnDisconnected ==
    /\ Called("disconnected")
    /\ debug' = (IF debug = "null" THEN "null" ELSE "cancelled")
    /\ UNCHANGED <<board, stage, fails, runaway, erred, closing>>

OnError ==
    Called("error") /\ erred' = erred + 1 /\ UNCHANGED <<board, stage, fails, debug, runaway, closing>>

BoardNext == HandleCommEvent \/ BoardCloses \/ OnConnected \/ OnDisconnected \/ OnError
=============================================================================
