---------------------------- MODULE JavaSession -----------------------------
(***************************************************************************)
(* The Java application and the simulated board, each in its own threads,  *)
(* over the connection between them.                                       *)
(***************************************************************************)
EXTENDS JavaCommHandler

VARIABLES board, stage, fails, debug, runaway, erred, closing

B == INSTANCE UavSimulator

boardSide == <<board, stage, fails, debug, runaway, erred, closing>>
vars == <<link, app, boardSide>>

Init == LinkInit /\ AppInit /\ B!BoardInit

Next ==
    \/ AppNext /\ UNCHANGED boardSide
    \/ B!BoardNext /\ UNCHANGED app
    \/ (LinkFails \/ CorruptRecord) /\ UNCHANGED <<app, boardSide>>

(* Threads that have a message or a callback to handle handle it.          *)
Fairness ==
    /\ WF_vars((HandleCommEvent \/ Callbacks) /\ UNCHANGED boardSide)
    /\ WF_vars(B!BoardNext /\ UNCHANGED app)

Spec == Init /\ [][Next]_vars /\ Fairness
-----------------------------------------------------------------------------
(* Nothing is on its way but what the timers send.                         *)
Quiet ==
    /\ status = "open" /\ appNews = <<>> /\ boardNews = <<>> /\ down = <<>> /\ ~closing
    /\ Range(up) \subseteq {Ping, Frame("CONTROL"), Frame("STOP")}

(* Both ends wait for the user, in the same procedure.                     *)
Rest ==
    \/ action = "APP_LOOP" /\ board = "APP_LOOP"
    \/ action = "FLIGHT_LOOP" /\ state \in {"FLING", "BREAKING"} /\ stage = "RUNNING"
    \/ action = "CALIBRATE_MAGNET" /\ state = "WAITING_FOR_USER_COMMAND" /\ stage = "USER_COMMAND"

(* An end waits for a record of which a packet was dropped: neither end    *)
(* has a timeout.                                                          *)
HangsOnRecord ==
    /\ cut
    /\ \/ \E c \in {"CALIBRATION_SETTINGS", "CONTROL_SETTINGS", "ROUTE_CONTAINER"} :
            B!Sending(c) /\ Payload(c, "valid") \in Awaited
       \/ action \in Uploads /\ state = "UPLOADING_DATA" /\ board = action

(* The application waits for what will not come: a record was left         *)
(* incomplete; the board gave up a record that it had refused three times, *)
(* or took a stray ping for the end of an upload; a route's download       *)
(* answers nobody; a disconnection without a session met the next          *)
(* connection, and the walk through the tasks threw.                       *)
Hang ==
    \/ HangsOnRecord
    \/ action \in Uploads /\ board = "APP_LOOP" /\ (fails = 3 \/ tasks.strays["ping"] > 0)
    \/ action = "DOWNLOAD_ROUTE" /\ board = "DOWNLOAD_ROUTE"
    \/ action = "DISCONNECT" /\ stage = "INITIAL_COMMAND"

(* Once all messages are handled both ends are in the same procedure,      *)
(* whatever was lost with a connection, damaged, interrupted, or left      *)
(* running from an earlier session; the code's hangs are named, and so are *)
(* the two ways (astray) in which the application leaves the board behind. *)
InStep == Quiet /\ ~astray => Rest \/ Hang

(* The board never flies under an application that is not in flight.       *)
FlightIsShared ==
    stage = "RUNNING" /\ status = "open" /\ boardNews = <<>> /\ appNews = <<>> =>
        action = "FLIGHT_LOOP" /\ state \in {"FLING", "BREAKING"}

(* debugTask, started and stopped in nine handlers, runs in the loops and  *)
(* in no other procedure: what sends debug data there are timers forgotten *)
(* since an error, no more of them than there were errors.                 *)
DebugMatchesState ==
    status = "open" /\ boardNews = <<>> /\ ~closing =>
        /\ board = "APP_LOOP" \/ stage = "RUNNING" => debug = "live"
        /\ board \in B!Requests /\ stage # "RUNNING" => debug # "live"
        /\ runaway <= erred

(* A calibration of the accelerometer and a download of the settings end,  *)
(* however often their record is refused, and whatever the user and the    *)
(* link do meanwhile, unless a record is left incomplete.                  *)
Finishes(p) == (action = p /\ ~astray /\ ~cut) ~> (action # p \/ cut)
=============================================================================
