----------------------------- MODULE UavSession -----------------------------
(***************************************************************************)
(* What MulticopterUav promises its monitor: which phase a session with    *)
(* the board can be in, and which events tell the monitor that it changed. *)
(* The events that concern one procedure only are not seen here.           *)
(***************************************************************************)
CONSTANTS Ended        \* events that close a session in good order

VARIABLES phase,       \* idle, opening, loop, busy (a procedure) or flight
          heard        \* the session events the last step reported

vars == <<phase, heard>>

Init == phase = "idle" /\ heard = {}

Move(from, to, events) ==
    /\ phase \in from /\ phase' = to
    /\ heard' = events

(* The user asks for a connection, or for an upgrade on a fresh one; then  *)
(* for a procedure of the loop.  The upgrade begins once the link is open. *)
Open  == Move({"idle"}, "opening", {})
Begin == Move({"loop", "opening"}, "busy", {})

(* The board's loop is there.                                              *)
Enter == Move({"opening"}, "loop", {"APPLICATION_LOOP_STARTED"})

(* A procedure is over, or turns into a flight; a flight is over.  A board *)
(* that refuses the upgrade of a fresh link thus enters its loop unheard.  *)
Return  == Move({"busy"}, "loop", {})
TakeOff == Move({"busy"}, "flight", {"FLIGHT_LOOP_STARTED"})
Land    == \E e \in {"FLIGHT_LOOP_ENDED", "FLIGHT_LOOP_TERMINATED"} :
             Move({"flight"}, "loop", {e})

(* The session closes in good order, or breaks; an idle application may    *)
(* hear of a further error but of nothing else.                            *)
Close == \E e \in Ended : Move({"busy"}, "idle", {e})
Break == Move({"idle", "opening", "loop", "busy", "flight"}, "idle", {"ERROR"})

(* Anything else is no business of the session's.                          *)
Stay == phase' = phase /\ heard' = {}

Next == Open \/ Begin \/ Enter \/ Return \/ TakeOff \/ Land
          \/ Close \/ Break \/ Stay

Spec == Init /\ [][Next]_vars
=============================================================================
