--------------------------- MODULE JavaCommHandler ---------------------------
(***************************************************************************)
(* The Java application: CommHandler, its actions, the UavManager above it *)
(* and the CommTasks it runs.  One step is one callback, one call of       *)
(* UavManager's interface or one tick of a timer.                          *)
(*                                                                         *)
(* An exception is caught by handleCommEvent or by UavManager, and what it *)
(* leaves undone is left undone here.  Ping values and delays, debug data  *)
(* and messages to the user are left out: nothing depends on them.         *)
(***************************************************************************)
EXTENDS JavaLink, SequencesExt

VARIABLES
  action, state, \* commHandlerAction and its state
  record,        \* the record to be uploaded: valid or invalid
  tasks,         \* runningTasks, and the timers behind the tasks
  connectTimer,  \* the timer of the ConnectAction in charge is running
  abandoned,     \* ConnectActions given up in INITIAL_COMMAND whose timer runs
  astray         \* history: the user ended a flight that did not fly yet, or
                 \* a calibration was given up on a wrong record, this session

app == <<action, state, record, tasks, connectTimer, abandoned, astray>>
own == <<record, tasks, connectTimer, abandoned>>

Procedures == {"FLIGHT_LOOP", "CALIBRATE_ACCEL", "CALIBRATE_MAGNET", "UPLOAD_SETTINGS",
               "DOWNLOAD_SETTINGS", "UPLOAD_ROUTE", "DOWNLOAD_ROUTE"}

Uploads == {"UPLOAD_SETTINGS", "UPLOAD_ROUTE"}

Actions == {"IDLE", "CONNECT", "DISCONNECT", "APP_LOOP"} \cup Procedures

(* State by state, the actions' enumerations; DONE is a flag of the code,  *)
(* and actions without a state have one.                                   *)
StatesOf ==
    [a \in Actions |->
       CASE a = "CONNECT" -> {"INITIAL_COMMAND", "WAITING_FOR_CALIBRATION",
                              "WAITING_FOR_CALIBRATION_DATA", "FINAL_COMMAND"}
         [] a = "DISCONNECT"  -> {"WAITING", "DONE"}
         [] a = "FLIGHT_LOOP" -> {"INITIAL_COMMAND", "WAITING_FOR_CONTROLS",
                                  "WAITING_FOR_ROUTE_COMMAND", "WAITING_FOR_ROUTE", "FLING", "BREAKING"}
         [] a = "CALIBRATE_ACCEL"  -> {"INITIAL_COMMAND", "WAITING_FOR_CALIBRATION",
                                       "WAITING_FOR_CALIBRATION_DATA"}
         [] a = "CALIBRATE_MAGNET" -> {"INITIAL_COMMAND", "WAITING_FOR_USER_COMMAND", "WAITING_FOR_CALIBRATION",
                                       "WAITING_FOR_CALIBRATION_DATA", "WAITING_FOR_CANCEL_ACK"}
         [] a \in {"UPLOAD_SETTINGS", "UPLOAD_ROUTE"}     -> {"INITIAL_COMMAND", "UPLOADING_DATA"}
         [] a \in {"DOWNLOAD_SETTINGS", "DOWNLOAD_ROUTE"} -> {"INITIAL_COMMAND", "DOWNLOADING_DATA"}
         [] OTHER -> {"RUNNING"}]

(* isActionDone: DownloadRouteContainerAction never is.                    *)
IsActionDone == action \in {"IDLE", "APP_LOOP"} \/ (action = "DISCONNECT" /\ state = "DONE")
-----------------------------------------------------------------------------
(***************************************************************************)
(* Tasks.  A CommTask started again forgets the timer it has: it runs on,  *)
(* and nothing can stop it.                                                *)
(***************************************************************************)
Tasks == {"ping", "control"}

NoTasks == [running |-> <<>>,                        \* runningTasks
            timer   |-> [t \in Tasks |-> "null"],    \* null, live, or cancelled
            strays  |-> [t \in Tasks |-> 0]]         \* forgotten and live

Started(ts, t) ==
    [running |-> Append(ts.running, t),
     timer   |-> [ts.timer EXCEPT ![t] = "live"],
     strays  |-> [ts.strays EXCEPT ![t] = IF ts.timer[t] = "live" THEN @ + 1 ELSE @]]

Stopped(ts, t) ==
    [ts EXCEPT !.running = IF t \in {@[i] : i \in DOMAIN @} THEN RemoveFirst(@, t) ELSE @,
               !.timer[t] = "cancelled"]

Live(t) == tasks.timer[t] = "live" \/ tasks.strays[t] > 0

(* stopAllTasks takes tasks out of the list it walks through: the walk     *)
(* ends by an exception after the first, unless there are two.             *)
StoppedAll(ts) == IF ts.running = <<>> THEN ts ELSE Stopped(ts, Head(ts.running))

WalkEnds(ts) == Len(ts.running) \in {0, 2}

(* updateCommState on ERROR or DISCONNECTED: disconnectInterface.          *)
DisconnectInterface(heard) ==
    /\ tasks' = StoppedAll(tasks)
    /\ IF WalkEnds(tasks) THEN Disconnect(heard) ELSE OnlyHeard(heard)
-----------------------------------------------------------------------------
(***************************************************************************)
(* What the actions wait for.  Anything else is dropped, or throws.        *)
(***************************************************************************)
DataCommand ==
    [a \in Uploads \cup {"DOWNLOAD_SETTINGS", "DOWNLOAD_ROUTE"} |->
       IF a \in {"UPLOAD_SETTINGS", "DOWNLOAD_SETTINGS"} THEN "CONTROL_SETTINGS" ELSE "ROUTE_CONTAINER"]

Answers(c, ps) == {Signal(c, p) : p \in ps}
Record(c)      == {Payload(c, v) : v \in Contents}

Awaited ==
    CASE action = "CONNECT" /\ state = "INITIAL_COMMAND"         -> Answers("START_CMD", {"ACK"})
      [] action = "CONNECT" /\ state = "WAITING_FOR_CALIBRATION" -> Answers("CALIBRATION_SETTINGS", {"READY"})
      [] action = "CONNECT" /\ state = "FINAL_COMMAND"           -> Answers("APP_LOOP", {"ACK"})
      [] action = "DISCONNECT" -> Answers("APP_LOOP", {"BREAK_ACK"})
      [] action \in Procedures /\ state = "INITIAL_COMMAND" -> Answers(action, {"ACK"})
      [] state = "WAITING_FOR_CALIBRATION_DATA" -> Record("CALIBRATION_SETTINGS")
      [] state = "WAITING_FOR_CONTROLS"         -> Record("CONTROL_SETTINGS")
      [] state = "WAITING_FOR_ROUTE_COMMAND"    -> Answers("FLIGHT_LOOP", {"VIA_ROUTE_ALLOWED"})
      [] state = "WAITING_FOR_ROUTE"            -> Record("ROUTE_CONTAINER")
      [] state \in {"FLING", "BREAKING"} ->
           Answers("FLIGHT_LOOP", {"ACK", "VIA_ROUTE_ALLOWED", "BREAK_ACK"})
      [] action \in Procedures /\ state = "WAITING_FOR_CALIBRATION" -> Answers(action, {"DONE"})
      [] state = "WAITING_FOR_CANCEL_ACK" -> Answers("CALIBRATE_MAGNET", {"ACK"})
      [] state = "UPLOADING_DATA"   -> Answers(DataCommand[action], {"ACK", "DATA_INVALID", "TIMEOUT"})
      [] state = "DOWNLOADING_DATA" -> Record(DataCommand[action])
      [] OTHER -> {}

AppInit ==
    /\ action = "IDLE" /\ state = "RUNNING" /\ record = "valid"
    /\ tasks = NoTasks /\ connectTimer = FALSE /\ abandoned = 0 /\ astray = FALSE

(* notifyActionDone, or CONNECTED: AppLoopAction::start.                   *)
ToAppLoop ==
    /\ action' = "APP_LOOP" /\ state' = "RUNNING"
    /\ tasks' = Started(tasks, "ping")
    /\ UNCHANGED <<record, connectTimer, abandoned>>

(* The action in charge moves on to s, and nothing else changes.           *)
Goto(s) == state' = s /\ UNCHANGED <<action, astray, own>>

(* In state s, m is answered by ms; t follows, or the application loop.    *)
Moves(s, m, ms, t) == state = s /\ AppHears(m) /\ AppAnswers(ms) /\ Goto(t)
Ends(s, m, ms)     == state = s /\ AppHears(m) /\ AppAnswers(ms) /\ ToAppLoop /\ UNCHANGED astray

(* A wrong record is asked for again.                                      *)
Refuses(s, c) == Moves(s, Payload(c, "invalid"), <<Signal(c, "DATA_INVALID")>>, s)
-----------------------------------------------------------------------------
(***************************************************************************)
(* handleEvent of the actions.  Answers UavSimulator never gives           *)
(* (NON_STATIC, FAIL, NOT_ALLOWED) are left out.                           *)
(***************************************************************************)
HandleConnect ==
    /\ action = "CONNECT"
    /\ \/ /\ state = "INITIAL_COMMAND" /\ AppHears(Signal("START_CMD", "ACK")) /\ AppAnswers(<<>>)
          /\ state' = "WAITING_FOR_CALIBRATION" /\ connectTimer' = FALSE
          /\ UNCHANGED <<action, astray, record, tasks, abandoned>>
       \/ Moves("WAITING_FOR_CALIBRATION", Signal("CALIBRATION_SETTINGS", "READY"), <<>>,
                "WAITING_FOR_CALIBRATION_DATA")
       \/ Moves("WAITING_FOR_CALIBRATION_DATA", Payload("CALIBRATION_SETTINGS", "valid"),
                <<Signal("CALIBRATION_SETTINGS", "ACK"), Signal("APP_LOOP", "START")>>, "FINAL_COMMAND")
       \/ Refuses("WAITING_FOR_CALIBRATION_DATA", "CALIBRATION_SETTINGS")
       \/ Ends("FINAL_COMMAND", Signal("APP_LOOP", "ACK"), <<>>)

HandleDisconnect ==
    /\ action = "DISCONNECT" /\ AppHears(Signal("APP_LOOP", "BREAK_ACK"))
    /\ state' = "DONE" /\ tasks' = StoppedAll(tasks)
    /\ IF WalkEnds(tasks) THEN Disconnect(appNews) ELSE AppAnswers(<<>>)
    /\ UNCHANGED <<action, record, connectTimer, abandoned, astray>>

(* handleSignalWhileFlying: any FLIGHT_LOOP signal ends the flight, unless *)
(* it throws at the control task that was never started.                   *)
HandleSignalWhileFlying ==
    /\ state \in {"FLING", "BREAKING"}
    /\ \E p \in {"ACK", "VIA_ROUTE_ALLOWED", "BREAK_ACK"} : AppHears(Signal("FLIGHT_LOOP", p))
    /\ AppAnswers(<<>>)
    /\ IF tasks.timer["control"] = "null"
       THEN UNCHANGED app
       ELSE /\ action' = "APP_LOOP" /\ state' = "RUNNING"
            /\ tasks' = Started(Stopped(Stopped(tasks, "control"), "ping"), "ping")
            /\ UNCHANGED <<record, connectTimer, abandoned, astray>>

HandleFlight ==
    /\ action = "FLIGHT_LOOP"
    /\ \/ Moves("INITIAL_COMMAND", Signal("FLIGHT_LOOP", "ACK"), <<>>, "WAITING_FOR_CONTROLS")
       \/ Moves("WAITING_FOR_CONTROLS", Payload("CONTROL_SETTINGS", "valid"),
                <<Signal("CONTROL_SETTINGS", "ACK")>>, "WAITING_FOR_ROUTE_COMMAND")
       \/ Refuses("WAITING_FOR_CONTROLS", "CONTROL_SETTINGS")
       \/ Moves("WAITING_FOR_ROUTE_COMMAND", Signal("FLIGHT_LOOP", "VIA_ROUTE_ALLOWED"), <<>>, "WAITING_FOR_ROUTE")
       \/ /\ state = "WAITING_FOR_ROUTE" /\ AppHears(Payload("ROUTE_CONTAINER", "valid"))
          /\ AppAnswers(<<Signal("ROUTE_CONTAINER", "ACK"), Signal("FLIGHT_LOOP", "READY")>>)
          /\ state' = "FLING" /\ tasks' = Started(Started(tasks, "ping"), "control")
          /\ UNCHANGED <<action, record, connectTimer, abandoned, astray>>
       \/ Refuses("WAITING_FOR_ROUTE", "ROUTE_CONTAINER")
       \/ HandleSignalWhileFlying

HandleAccel_ActionAcked ==      \* mutant: the acknowledgement names the action
    /\ action = "CALIBRATE_ACCEL"
    /\ \/ Moves("INITIAL_COMMAND", Signal("CALIBRATE_ACCEL", "ACK"), <<>>, "WAITING_FOR_CALIBRATION")
       \/ Moves("WAITING_FOR_CALIBRATION", Signal("CALIBRATE_ACCEL", "DONE"), <<>>, "WAITING_FOR_CALIBRATION_DATA")
       \/ Ends("WAITING_FOR_CALIBRATION_DATA", Payload("CALIBRATION_SETTINGS", "valid"),
               <<Signal("CALIBRATE_ACCEL", "ACK")>>)
       \/ Refuses("WAITING_FOR_CALIBRATION_DATA", "CALIBRATION_SETTINGS")

HandleAccel ==
    /\ action = "CALIBRATE_ACCEL"
    /\ \/ Moves("INITIAL_COMMAND", Signal("CALIBRATE_ACCEL", "ACK"), <<>>, "WAITING_FOR_CALIBRATION")
       \/ Moves("WAITING_FOR_CALIBRATION", Signal("CALIBRATE_ACCEL", "DONE"), <<>>, "WAITING_FOR_CALIBRATION_DATA")
       \/ Ends("WAITING_FOR_CALIBRATION_DATA", Payload("CALIBRATION_SETTINGS", "valid"),
               <<Signal("CALIBRATION_SETTINGS", "ACK")>>)
       \/ Refuses("WAITING_FOR_CALIBRATION_DATA", "CALIBRATION_SETTINGS")

(* A wrong record is refused, and not waited for.                          *)
HandleMagnet ==
    /\ action = "CALIBRATE_MAGNET"
    /\ \/ Moves("INITIAL_COMMAND", Signal("CALIBRATE_MAGNET", "ACK"), <<>>, "WAITING_FOR_USER_COMMAND")
       \/ Moves("WAITING_FOR_CALIBRATION", Signal("CALIBRATE_MAGNET", "DONE"), <<>>, "WAITING_FOR_CALIBRATION_DATA")
       \/ Ends("WAITING_FOR_CALIBRATION_DATA", Payload("CALIBRATION_SETTINGS", "valid"),
               <<Signal("CALIBRATION_SETTINGS", "ACK")>>)
       \/ /\ state = "WAITING_FOR_CALIBRATION_DATA" /\ AppHears(Payload("CALIBRATION_SETTINGS", "invalid"))
          /\ AppAnswers(<<Signal("CALIBRATION_SETTINGS", "DATA_INVALID")>>)
          /\ ToAppLoop /\ astray' = TRUE
       \/ Ends("WAITING_FOR_CANCEL_ACK", Signal("CALIBRATE_MAGNET", "ACK"), <<>>)

HandleDownloadSettings ==
    /\ action = "DOWNLOAD_SETTINGS"
    /\ \/ Moves("INITIAL_COMMAND", Signal("DOWNLOAD_SETTINGS", "ACK"), <<>>, "DOWNLOADING_DATA")
       \/ Ends("DOWNLOADING_DATA", Payload("CONTROL_SETTINGS", "valid"), <<Signal("CONTROL_SETTINGS", "ACK")>>)
       \/ Refuses("DOWNLOADING_DATA", "CONTROL_SETTINGS")

(* It answers to the other download's command, and notifyActionDone finds  *)
(* it not done.                                                            *)
HandleDownloadRoute ==
    /\ action = "DOWNLOAD_ROUTE"
    /\ \/ Moves("INITIAL_COMMAND", Signal("DOWNLOAD_ROUTE", "ACK"), <<>>, "DOWNLOADING_DATA")
       \/ \E v \in Contents :
            Moves("DOWNLOADING_DATA", Payload("ROUTE_CONTAINER", v),
                  <<Signal("DOWNLOAD_SETTINGS", IF v = "valid" THEN "ACK" ELSE "DATA_INVALID")>>, state)

HandleUploadSettings ==
    /\ action = "UPLOAD_SETTINGS"
    /\ \/ Moves("INITIAL_COMMAND", Signal("UPLOAD_SETTINGS", "ACK"), <<Payload("CONTROL_SETTINGS", record)>>,
                "UPLOADING_DATA")
       \/ Ends("UPLOADING_DATA", Signal("CONTROL_SETTINGS", "ACK"), <<>>)
       \/ \E p \in {"DATA_INVALID", "TIMEOUT"} :
            Moves("UPLOADING_DATA", Signal("CONTROL_SETTINGS", p), <<Payload("CONTROL_SETTINGS", record)>>, state)

HandleUploadRoute ==
    /\ action = "UPLOAD_ROUTE"
    /\ \/ Moves("INITIAL_COMMAND", Signal("UPLOAD_ROUTE", "ACK"), <<Payload("ROUTE_CONTAINER", record)>>,
                "UPLOADING_DATA")
       \/ Ends("UPLOADING_DATA", Signal("ROUTE_CONTAINER", "ACK"), <<>>)
       \/ \E p \in {"DATA_INVALID", "TIMEOUT"} :
            Moves("UPLOADING_DATA", Signal("ROUTE_CONTAINER", p), <<Payload("ROUTE_CONTAINER", record)>>, state)

(* Dropped, or an exception that handleCommEvent catches, or cut.          *)
DropEvent ==
    /\ down # <<>> /\ AppHears(Head(down)) /\ Head(down) \notin Awaited
    /\ AppAnswers(<<>>) /\ UNCHANGED app

HandleCommEvent ==
    \/ HandleConnect \/ HandleDisconnect
    \/ HandleFlight \/ HandleAccel \/ HandleMagnet
    \/ HandleDownloadSettings \/ HandleDownloadRoute
    \/ HandleUploadSettings \/ HandleUploadRoute
    \/ DropEvent
-----------------------------------------------------------------------------
(***************************************************************************)
(* The interface of UavManager; the user may call it at any time.          *)
(***************************************************************************)
ConnectInterface == LinkOpens /\ UNCHANGED app

(* Without a ping timer to stop, start throws; so does preformAction while *)
(* another action is under way.  Either becomes an ERROR event.            *)
DisconnectApplicationLoop ==
    /\ IF IsActionDone THEN action' = "DISCONNECT" /\ state' = "WAITING" ELSE UNCHANGED <<action, state>>
    /\ IF IsActionDone /\ tasks.timer["ping"] # "null"
       THEN tasks' = Stopped(tasks, "ping") /\ AppSends(<<Signal("APP_LOOP", "BREAK")>>)
       ELSE DisconnectInterface(appNews)
    /\ UNCHANGED <<record, connectTimer, abandoned, astray>>

(* startFlightLoop, start...Calibration, upload... and download...         *)
StartProcedure(p) ==
    /\ action = "APP_LOOP"
    /\ action' = p /\ state' = "INITIAL_COMMAND" /\ tasks' = Stopped(tasks, "ping")
    /\ record' \in (IF p \in Uploads THEN Contents ELSE {"valid"})
    /\ AppSends(<<Signal(p, "START")>>) /\ UNCHANGED <<connectTimer, abandoned, astray>>

EndFlightLoop ==
    /\ action = "FLIGHT_LOOP" /\ state # "BREAKING"
    /\ state' = "BREAKING" /\ astray' = (astray \/ state # "FLING")
    /\ UNCHANGED <<action, own, link>>

(* doneMagnetometerCalibration, cancelMagnetometerCalibration              *)
UserCommand(p, s) ==
    /\ action = "CALIBRATE_MAGNET" /\ state = "WAITING_FOR_USER_COMMAND"
    /\ Goto(s) /\ AppSends(<<Signal("CALIBRATE_MAGNET", p)>>)

UserCalls ==
    \/ ConnectInterface \/ DisconnectApplicationLoop
    \/ \E p \in Procedures : StartProcedure(p)
    \/ EndFlightLoop
    \/ UserCommand("DONE", "WAITING_FOR_CALIBRATION")
    \/ UserCommand("SKIP", "WAITING_FOR_CANCEL_ACK")
-----------------------------------------------------------------------------
(***************************************************************************)
(* Callbacks of the interface.                                             *)
(***************************************************************************)
Calls(callback) == appNews # <<>> /\ Head(appNews) = callback

(* ConnectAction::start, or preformAction throws: an ERROR event.          *)
OnConnected ==
    /\ Calls("connected")
    /\ IF IsActionDone
       THEN /\ action' = "CONNECT" /\ state' = "INITIAL_COMMAND" /\ connectTimer' = TRUE /\ astray' = FALSE
            /\ appNews' = Tail(appNews)
            /\ up' = IF status = "open" THEN Append(up, Signal("START_CMD", "START")) ELSE up
            /\ UNCHANGED <<record, tasks, abandoned, status, down, boardNews, opened, corrupted, cut>>
       ELSE /\ DisconnectInterface(Tail(appNews))
            /\ UNCHANGED <<action, state, record, connectTimer, abandoned, astray>>

(* The action is dropped; its timer and the tasks are not.                 *)
OnDisconnected ==
    /\ Calls("disconnected") /\ OnlyHeard(Tail(appNews))
    /\ action' = "IDLE" /\ state' = "RUNNING" /\ connectTimer' = FALSE
    /\ abandoned' = IF connectTimer THEN abandoned + 1 ELSE abandoned
    /\ UNCHANGED <<record, tasks, astray>>

(* Two events, ERROR and DISCONNECTED: disconnectInterface twice.          *)
OnError ==
    /\ Calls("error")
    /\ tasks' = StoppedAll(StoppedAll(tasks))
    /\ IF WalkEnds(tasks) \/ WalkEnds(StoppedAll(tasks))
       THEN Disconnect(Tail(appNews)) ELSE OnlyHeard(Tail(appNews))
    /\ UNCHANGED <<action, state, record, connectTimer, abandoned, astray>>

Callbacks == OnConnected \/ OnDisconnected \/ OnError
-----------------------------------------------------------------------------
(***************************************************************************)
(* Timers.  Bound: one ping and one control frame on their way at a time.  *)
(***************************************************************************)
SendsOnce(m) == status = "open" /\ m \notin {up[i] : i \in DOMAIN up} /\ AppSends(<<m>>)

PingTick == Live("ping") /\ SendsOnce(Ping) /\ UNCHANGED app

(* A tick after the flight casts another action to FlightLoopAction; the   *)
(* exception ends the timer that ticked, the present one or a stray.       *)
ControlTick ==
    \/ /\ Live("control") /\ action = "FLIGHT_LOOP"
       /\ SendsOnce(Frame(IF state = "BREAKING" THEN "STOP" ELSE "CONTROL")) /\ UNCHANGED app
    \/ /\ action # "FLIGHT_LOOP"
       /\ \/ tasks.timer["control"] = "live" /\ tasks' = [tasks EXCEPT !.timer["control"] = "cancelled"]
          \/ tasks.strays["control"] > 0 /\ tasks' = [tasks EXCEPT !.strays["control"] = @ - 1]
       /\ UNCHANGED <<action, state, record, connectTimer, abandoned, astray, link>>

(* The timer of a ConnectAction that still waits for START_CMD, in charge  *)
(* or long replaced.                                                       *)
ConnectTimeout ==
    /\ \/ connectTimer /\ connectTimer' = FALSE /\ UNCHANGED abandoned
       \/ abandoned > 0 /\ abandoned' = abandoned - 1 /\ UNCHANGED connectTimer
    /\ DisconnectInterface(appNews)
    /\ UNCHANGED <<action, state, record, astray>>

Ticks == PingTick \/ ControlTick \/ ConnectTimeout

AppNext == HandleCommEvent \/ UserCalls \/ Callbacks \/ Ticks
=============================================================================
