------------------------------ MODULE JavaLink ------------------------------
(***************************************************************************)
(* What lies between the Java application (CommHandler) and the simulated  *)
(* board (UavSimulator): two CommInterfaces and the connection they share. *)
(* It keeps the order, and loses nothing while it is open; what is on its  *)
(* way when it closes is gone.  Each end learns of the connection by its   *)
(* listener's callbacks, in their order.  An interface that reported an    *)
(* error is broken: it carries nothing, and disconnect still closes it.    *)
(*                                                                         *)
(* A record travels as one message, the moment at which CommDispatcher has *)
(* put its packets together.  A packet that is damaged is dropped by its   *)
(* CRC, and a frame of another kind among the packets ends the reception:  *)
(* such a record is cut, and nothing is received where it ends.  What the  *)
(* receiver holds of it is dropped at the next signal, which comes before  *)
(* the next record.  Assumed: signals and frames are not damaged.          *)
(***************************************************************************)
EXTENDS Naturals, SequencesExt

CONSTANTS
  Sessions,      \* bound: how often the application connects
  Corruptions    \* bound: records that are damaged on their way

ASSUME BoundsAssumption == Sessions \in Nat /\ Corruptions \in Nat

VARIABLES
  status,        \* of the connection: closed, open or broken
  up, down,      \* messages on their way to the board, to the application
  appNews,       \* callbacks to come: connected, disconnected, error
  boardNews,
  opened, corrupted,   \* so far
  cut            \* history: a record of this connection came cut

link == <<status, up, down, appNews, boardNews, opened, corrupted, cut>>
channel == <<status, appNews, boardNews, opened, corrupted>>

(* Every message is a record of the same fields.                           *)
Signal(c, p)  == [kind |-> "signal", command |-> c, parameter |-> p]
Payload(c, v) == [kind |-> "payload", command |-> c, parameter |-> v]
Frame(f)      == [kind |-> "frame", command |-> f, parameter |-> "none"]

Ping == Signal("PING_VALUE", "value")

Contents == {"valid", "invalid"}    \* of a record that is received; and "cut"

LinkInit ==
    /\ status = "closed" /\ up = <<>> /\ down = <<>>
    /\ appNews = <<>> /\ boardNews = <<>>
    /\ opened = 0 /\ corrupted = 0 /\ cut = FALSE

LinkOpens ==
    /\ status = "closed" /\ appNews = <<>> /\ boardNews = <<>>
    /\ opened < Sessions /\ opened' = opened + 1
    /\ status' = "open"
    /\ appNews' = <<"connected">> /\ boardNews' = <<"connected">>
    /\ cut' = FALSE /\ UNCHANGED <<up, down, corrupted>>

(* The ends may learn of it in ways of their own.                          *)
LinkFails ==
    /\ status = "open"
    /\ \E a, b \in {"disconnected", "error"} :
         /\ status' = IF a = "error" THEN "broken" ELSE "closed"
         /\ appNews' = Append(appNews, a) /\ boardNews' = Append(boardNews, b)
    /\ up' = <<>> /\ down' = <<>> /\ UNCHANGED <<opened, corrupted, cut>>

(* disconnect, called by either end; heard is what is left of appNews.     *)
Disconnect(heard) ==
    /\ status' = "closed" /\ up' = <<>> /\ down' = <<>>
    /\ appNews' = IF status = "closed" THEN heard ELSE Append(heard, "disconnected")
    /\ boardNews' = IF status = "open" THEN Append(boardNews, "disconnected") ELSE boardNews
    /\ UNCHANGED <<opened, corrupted, cut>>

(* The callback at the head of appNews, and nothing else about the link.   *)
OnlyHeard(heard) ==
    appNews' = heard /\ UNCHANGED <<status, up, down, boardNews, opened, corrupted, cut>>

Garbled(queue, i, v) == [queue EXCEPT ![i].parameter = v]

(* A record arrives with a wrong checksum, or a packet of it does.         *)
CorruptRecord ==
    /\ corrupted < Corruptions /\ corrupted' = corrupted + 1
    /\ \E v \in {"invalid", "cut"} :
         \/ /\ \E i \in DOMAIN up : up[i].parameter \in Contents /\ up' = Garbled(up, i, v)
            /\ UNCHANGED down
         \/ /\ \E i \in DOMAIN down : down[i].parameter \in Contents /\ down' = Garbled(down, i, v)
            /\ UNCHANGED up
    /\ UNCHANGED <<status, appNews, boardNews, opened, cut>>

(* A message is delivered once the callbacks before it have returned.      *)
AppHears(m)   == status = "open" /\ appNews = <<>> /\ down # <<>> /\ m = Head(down)
BoardHears(m) == status = "open" /\ boardNews = <<>> /\ up # <<>> /\ m = Head(up)

(* Received, and answered by ms.                                           *)
AppAnswers(ms) ==
    /\ down' = Tail(down) /\ up' = up \o ms
    /\ cut' = (cut \/ Head(down).parameter = "cut") /\ UNCHANGED channel

BoardAnswers(ms) ==
    /\ up' = Tail(up) /\ down' = down \o ms
    /\ cut' = (cut \/ Head(up).parameter = "cut") /\ UNCHANGED channel

(* Sent unasked; into an interface that is not open, for nothing.          *)
AppSends(ms) ==
    up' = (IF status = "open" THEN up \o ms ELSE up) /\ UNCHANGED <<down, cut, channel>>
=============================================================================
