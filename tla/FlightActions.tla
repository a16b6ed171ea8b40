---------------------------- MODULE FlightActions ----------------------------
(***************************************************************************)
(* FlightInitializationAction, which collects the control settings and     *)
(* maybe a route, and FlightAction, the flight itself: no signal procedure *)
(* but two periodic tasks, ping and control.  Operators are named as in    *)
(* SessionActions; FlightHears(m) is handleRunningReception.               *)
(***************************************************************************)
EXTENDS CommAction

(* flightReady: FlightAction::start reports the flight and sends READY.    *)
FlightReady(before, events) ==
    /\ StartAction("FLIGHT", "none", before)
    /\ Report(events \o <<"FLIGHT_LOOP_STARTED">>)
    /\ UNCHANGED link

FlightInitAccepted_Skips(p) ==  \* mutant: the control settings are skipped
    /\ act = "FLIGHT_INITIALIZATION" /\ state = "INITIAL_COMMAND" /\ p = "ACK"
    /\ Proceed("ROUTE_COMMAND") /\ AwaitSignal("FLIGHT_LOOP")
    /\ Report(<<>>)
    /\ UNCHANGED tasks

FlightInitAccepted(p) ==
    /\ act = "FLIGHT_INITIALIZATION" /\ state = "INITIAL_COMMAND" /\ p = "ACK"
    /\ Proceed("CONTROLS_RECEPTION") /\ AwaitPayload("CONTROL_SETTINGS")
    /\ Report(<<>>)
    /\ UNCHANGED tasks

FlightInitAnswer(p) ==
    /\ act = "FLIGHT_INITIALIZATION"
    /\ \/ /\ state = "INITIAL_COMMAND" /\ p = "NOT_ALLOWED"
          /\ ToApp /\ Report(<<"FLIGHT_LOOP_NOT_ALLOWED">>)
       \/ /\ state = "ROUTE_COMMAND" /\ p = "VIA_ROUTE_ALLOWED"
          /\ Proceed("ROUTE_RECEPTION") /\ AwaitPayload("ROUTE_CONTAINER")
          /\ Report(<<>>)
          /\ UNCHANGED tasks
       \/ /\ state = "ROUTE_COMMAND" /\ p = "VIA_ROUTE_NOT_ALLOWED"
          /\ FlightReady(<<>>, <<"VIA_ROUTE_NOT_ALLOWED">>)

FlightInitData(c) ==
    /\ act = "FLIGHT_INITIALIZATION"
    /\ \/ /\ state = "CONTROLS_RECEPTION"
          /\ Goto("ROUTE_COMMAND") /\ AwaitSignal("FLIGHT_LOOP")
          /\ out' = <<Signal(c, "ACK")>>
          /\ Report(<<"DATA_RECEIVED">>)
          /\ UNCHANGED <<tasks, link>>
       \/ /\ state = "ROUTE_RECEPTION"
          /\ FlightReady(<<Signal(c, "ACK")>>, <<"DATA_RECEIVED">>)
-----------------------------------------------------------------------------
(* The user breaks the flight: from now on the control task sends STOP,    *)
(* until the board confirms; no timer guards the confirmation.             *)
FlightUser(e, a) ==
    /\ act = "FLIGHT" /\ state = "FLING"
    /\ e = "BREAK_FLIGHT_LOOP"
    /\ Proceed("BREAKING") /\ Notify(<<>>)
    /\ tasks' = tasks \ {"ping", "conn"}
    /\ UNCHANGED procedure

(* flightEnded, by the user's break once confirmed or by the board.        *)
FlightHears(m) ==
    /\ act = "FLIGHT"
    /\ \/ /\ m = Signal("FLIGHT_LOOP", "BREAK_ACK") /\ state = "BREAKING"
          /\ Report(<<"FLIGHT_LOOP_ENDED">>)
       \/ /\ m = Signal("FLIGHT_LOOP", "BREAK")
          /\ Report(<<"FLIGHT_LOOP_TERMINATED">>)
    /\ StartAction("APP", "none", <<>>)
    /\ UNCHANGED link

(* controlTaskHandler                                                      *)
FlightControlTick ==
    /\ "control" \in tasks
    /\ out' = <<Control(state = "BREAKING")>>
    /\ Notify(<<>>)
    /\ UNCHANGED <<object, procedure, tasks, link>>
=============================================================================
