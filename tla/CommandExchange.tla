--------------------------- MODULE CommandExchange ---------------------------
(***************************************************************************)
(* The blocking calls of ICommHandler: send a command, wait for one, or    *)
(* both, at two ends of one link.  A call reads what its interface has     *)
(* buffered, one message each round, and gives up when its timer has run   *)
(* past the timeout.  Signals carry no number: an answer that comes after  *)
(* its call has given up stays in the buffer, for the next call to find.   *)
(*                                                                         *)
(* The asking end numbers its calls, and a request and its reply are       *)
(* tagged with the call they belong to; anything else has the tag 0.  Tags *)
(* are history: no call looks at them.                                     *)
(***************************************************************************)
EXTENDS CommProtocol, FiniteSets

CONSTANTS
  AskerCalls,     \* the calls one end makes
  AnswererCalls,  \* the calls the other end makes
  Timeout,        \* rounds of 10 ms a wait lasts, 100 in the code
  MaxCalls,       \* bound: calls of an end
  Losses,         \* bound: messages the link loses
  Noises          \* bound: messages that no call asked for

Signals == [kind : {"signal"}, cmd : Commands, par : Parameters]

None == Signal("DUMMY", "DUMMY_PARAMETER")

CallTypes == [ask : Signals, until : {"nothing", "command", "any", "parameter", "response"},
              what : Signals, reply : Signals, ex : BOOLEAN]

(* A call says something or waits for something; the asking end never      *)
(* replies.                                                                *)
ASSUME ExchangeAssumption ==
    /\ Timeout \in Nat /\ MaxCalls \in Nat /\ Losses \in Nat /\ Noises \in Nat
    /\ AskerCalls \cup AnswererCalls \subseteq CallTypes
    /\ \A c \in AskerCalls \cup AnswererCalls : c.ask # None \/ c.until # "nothing"
    /\ \A c \in AskerCalls : c.reply = None

VARIABLES
  inbox,     \* what the interface has buffered for each end, oldest first
  call,      \* the call under way
  stage,     \* where it is: idle, asking, waiting or replying
  timer,     \* getTimerValue, in rounds
  result,    \* what the last call returned: true, false, or thrown
  heard,     \* the message readCommandAndRespond has read
  number,    \* calls begun
  unanswered,\* calls that ended with nothing heard, or the wrong thing
  missed,    \* history: the wait has passed over what it was made for
  asked,     \* history: commands each end has sent first
  read,      \* history: requests that ended a wait of the answering end
  given,     \* history: replies sent by the answering end
  losses, noises

ghosts == <<asked, read, given>>
link   == <<losses, noises>>
vars   == <<inbox, call, stage, timer, result, heard, number, unanswered, missed, ghosts, link>>

Ends == {"asker", "answerer"}
Peer(e) == IF e = "asker" THEN "answerer" ELSE "asker"
Calls(e) == IF e = "asker" THEN AskerCalls ELSE AnswererCalls

Tagged(m, n) == [kind |-> m.kind, cmd |-> m.cmd, par |-> m.par, tag |-> n]
-----------------------------------------------------------------------------
(***************************************************************************)
(* The calls: what is sent first, what ends the wait, what is sent then,   *)
(* and whether a failure is thrown.                                        *)
(***************************************************************************)
Plain == [ask |-> None, until |-> "nothing", what |-> None, reply |-> None, ex |-> FALSE]

SendCommand(s)          == [Plain EXCEPT !.ask = s]
WaitForCommand(s)       == [Plain EXCEPT !.until = "command", !.what = s]
WaitForAnyCommand       == [Plain EXCEPT !.until = "any"]
WaitForAnyParameter(c)  == [Plain EXCEPT !.until = "parameter", !.what = Signal(c, "DUMMY_PARAMETER")]

SendCommandGetAnyResponse(s)     == [WaitForAnyCommand EXCEPT !.ask = s]
SendCommandGetAnyParameter(s, c) == [WaitForAnyParameter(c) EXCEPT !.ask = s]
SendCommandGetResponse(s, r)     == [Plain EXCEPT !.ask = s, !.until = "response", !.what = r]
ReadCommandAndRespond(s, r)      == [WaitForCommand(s) EXCEPT !.reply = r]

(* The variants that throw where these return false ...                    *)
Ex(c) == [c EXCEPT !.ex = TRUE]

(* ... but for this one, which calls sendCommandGetResponse.               *)
ReadCommandAndRespondEx(s, r) == Ex(SendCommandGetResponse(s, r))

(* What ends a wait: a signal; a record put together from packets, whose   *)
(* command hasPayload, is none.  sendCommandGetResponse waits for any of   *)
(* the response's command, and compares the parameter afterwards.          *)
Matches(c, m) ==
    /\ m.kind = "signal"
    /\ CASE c.until = "command" -> m.cmd = c.what.cmd /\ m.par = c.what.par
         [] c.until = "any"     -> TRUE
         [] OTHER               -> m.cmd = c.what.cmd

Satisfies(c, m) == c.until = "response" => m.par = c.what.par
(* What a call is made for.                                                *)
Wanted(c, m) ==
    /\ m.kind = "signal"
    /\ c.until \in {"command", "response"} => <<m.cmd, m.par>> = <<c.what.cmd, c.what.par>>
    /\ c.until = "parameter" => m.cmd = c.what.cmd

-----------------------------------------------------------------------------
Init ==
    /\ inbox = [e \in Ends |-> <<>>]
    /\ call = [e \in Ends |-> Plain] /\ stage = [e \in Ends |-> "idle"]
    /\ timer = [e \in Ends |-> 0] /\ result = [e \in Ends |-> "none"]
    /\ heard = [e \in Ends |-> Tagged(None, 0)]
    /\ number = [e \in Ends |-> 0] /\ unanswered = [e \in Ends |-> 0]
    /\ missed = [e \in Ends |-> FALSE]
    /\ asked = [e \in Ends |-> 0] /\ read = 0 /\ given = 0
    /\ losses = 0 /\ noises = 0

(* The call returns; what was local to it is forgotten.                    *)
Finish(e, ok) ==
    /\ stage' = [stage EXCEPT ![e] = "idle"] /\ call' = [call EXCEPT ![e] = Plain]
    /\ timer' = [timer EXCEPT ![e] = 0] /\ missed' = [missed EXCEPT ![e] = FALSE]
    /\ heard' = [heard EXCEPT ![e] = Tagged(None, 0)]
    /\ result' = [result EXCEPT ![e] = CASE ok -> "true"
                                         [] ~ok /\ call[e].ex -> "thrown"
                                         [] OTHER -> "false"]
    /\ unanswered' = IF ok /\ call[e].until # "nothing" THEN unanswered
                     ELSE [unanswered EXCEPT ![e] = @ + 1]

(* The call goes on.                                                       *)
Continue(e, s) ==
    /\ stage' = [stage EXCEPT ![e] = s]
    /\ UNCHANGED <<call, result, unanswered>>

Deliver(e, m) == inbox' = [inbox EXCEPT ![Peer(e)] = Append(@, m)]

Begin(e) ==
    /\ stage[e] = "idle" /\ number[e] < MaxCalls
    /\ \E c \in Calls(e) :
         /\ call' = [call EXCEPT ![e] = c]
         /\ stage' = [stage EXCEPT ![e] = IF c.ask = None THEN "waiting" ELSE "asking"]
    /\ number' = [number EXCEPT ![e] = @ + 1]
    /\ result' = [result EXCEPT ![e] = "none"]
    /\ UNCHANGED <<inbox, timer, heard, unanswered, missed, ghosts, link>>

Utter(e) ==
    /\ Deliver(e, Tagged(call[e].ask, IF e = "asker" THEN number[e] ELSE 0))
    /\ asked' = [asked EXCEPT ![e] = @ + 1]

(* send, whatever the interface says of it, then resetTimer.               *)
Ask(e) ==
    /\ stage[e] = "asking"
    /\ \/ /\ Utter(e)
          /\ \/ call[e].until = "nothing" /\ Finish(e, TRUE)
             \/ /\ call[e].until # "nothing" /\ Continue(e, "waiting")
                /\ UNCHANGED <<timer, heard, missed>>
       \/ Finish(e, FALSE) /\ UNCHANGED <<inbox, asked>>
    /\ UNCHANGED <<number, read, given, link>>

Waits(e) == stage[e] = "waiting"

First(e) == Head(inbox[e])

Holds(e) == inbox[e] # <<>> /\ Matches(call[e], First(e))

Take_Peeks(e) == UNCHANGED inbox    \* mutant: what is read stays in the buffer

(* proceedReceiving: a message, if there is one, is gone once handled,     *)
(* whoever it was for.                                                     *)
Take(e) == inbox' = [inbox EXCEPT ![e] = IF @ = <<>> THEN @ ELSE Tail(@)]

(* A round that finds what it waits for.                                   *)
Hit(e) ==
    /\ Waits(e) /\ Holds(e)
    /\ Take(e)
    /\ \/ /\ call[e].reply = None
          /\ Finish(e, Satisfies(call[e], First(e)))
       \/ /\ call[e].reply # None
          /\ heard' = [heard EXCEPT ![e] = First(e)]
          /\ Continue(e, "replying")
          /\ UNCHANGED <<timer, missed>>
    /\ read' = IF e = "answerer" THEN read + 1 ELSE read
    /\ UNCHANGED <<number, asked, given, link>>

(* holdThread(10), which may last longer.                                  *)
Hold_Restarts(e) == timer' = [timer EXCEPT ![e] = 1]  \* mutant: the timer is reset

Hold(e) == \E t \in (timer[e] + 1)..(Timeout + 1) : timer' = [timer EXCEPT ![e] = t]

(* A round that does not: a message it reads is passed over.               *)
Miss(e) ==
    /\ Waits(e) /\ ~Holds(e) /\ timer[e] <= Timeout
    /\ Take(e) /\ Hold(e)
    /\ missed' = [missed EXCEPT ![e] =
                     @ \/ (inbox[e] # <<>> /\ Wanted(call[e], First(e)))]
    /\ UNCHANGED <<call, stage, result, heard, number, unanswered, ghosts, link>>

GiveUp_TimerFirst(e) ==         \* mutant: the timer is read before the buffer
    /\ Waits(e) /\ timer[e] > Timeout
    /\ Finish(e, FALSE)
    /\ UNCHANGED <<inbox, number, ghosts, link>>

GiveUp_Replies(e) ==            \* mutant: the wait's result is ignored
    /\ Waits(e) /\ ~Holds(e) /\ timer[e] > Timeout
    /\ Take(e)
    /\ \/ call[e].reply = None /\ Finish(e, FALSE)
       \/ /\ call[e].reply # None /\ Continue(e, "replying")
          /\ UNCHANGED <<timer, heard, missed>>
    /\ UNCHANGED <<number, ghosts, link>>

GiveUp(e) ==
    /\ Waits(e) /\ ~Holds(e) /\ timer[e] > Timeout
    /\ Take(e) /\ Finish(e, FALSE)
    /\ UNCHANGED <<number, ghosts, link>>

(* readCommandAndRespond, once it has read.                                *)
Reply(e) ==
    /\ stage[e] = "replying"
    /\ \/ /\ Deliver(e, Tagged(call[e].reply, heard[e].tag))
          /\ given' = given + 1
          /\ Finish(e, TRUE)
       \/ Finish(e, FALSE) /\ UNCHANGED <<inbox, given>>
    /\ UNCHANGED <<number, asked, read, link>>

(* reset, between two calls: what is buffered is flushed.                  *)
Reset(e) ==
    /\ stage[e] = "idle" /\ inbox[e] # <<>>
    /\ inbox' = [inbox EXCEPT ![e] = <<>>]
    /\ UNCHANGED <<call, stage, timer, result, heard, number, unanswered, missed, ghosts, link>>
-----------------------------------------------------------------------------
(* The link loses a message, or brings one nobody asked for: a frame the   *)
(* peer streams, or a packet that completes no record.                     *)
Lose(e) ==
    /\ losses < Losses /\ losses' = losses + 1
    /\ inbox[e] # <<>> /\ Take(e)
    /\ UNCHANGED <<call, stage, timer, result, heard, number, unanswered, missed, ghosts, noises>>

Noise(e) ==
    /\ noises < Noises /\ noises' = noises + 1
    /\ \E m \in {Frame, Payload("ROUTE_CONTAINER", TRUE)} :
         inbox' = [inbox EXCEPT ![e] = Append(@, Tagged(m, 0))]
    /\ UNCHANGED <<call, stage, timer, result, heard, number, unanswered, missed, ghosts, losses>>

Progress(e) == Ask(e) \/ Hit(e) \/ Miss(e) \/ GiveUp(e) \/ Reply(e)

Next == \E e \in Ends : Begin(e) \/ Progress(e) \/ Reset(e) \/ Lose(e) \/ Noise(e)

Spec == Init /\ [][Next]_vars

(* The thread that makes a call goes on with it.                           *)
FairSpec == Spec /\ \A e \in Ends : WF_vars(Progress(e))
-----------------------------------------------------------------------------
(***************************************************************************)
(* Properties.                                                             *)
(***************************************************************************)
(* Every call that was answered has an answer of its own: what the asking  *)
(* end took is bounded by what the other end gave, which has read whatever *)
(* it replies to, and read no more than was asked.  Only                   *)
(* readCommandAndRespondEx speaks first at that end.                       *)
Answered(e) ==
    number[e] - unanswered[e] - (IF stage[e] = "idle" THEN 0 ELSE 1)

AnswersAreOwed ==
    /\ Answered("asker") <= given + asked["answerer"]
    /\ given <= read /\ read <= asked["asker"]

(* An answer may be to an earlier call, which gave up before it came; but  *)
(* it is late by no more calls than have ended without one, and those that *)
(* were answered by a command sent first.                                  *)
LateByFailures ==
    [][Hit("asker") /\ First("asker").tag # 0 =>
         number["asker"] - First("asker").tag
           <= unanswered["asker"] + asked["answerer"]]_vars

(* A wait that gives up has not passed over what it was made for, nor does *)
(* it leave it first in the buffer.                                        *)
GivesUpEmptyHanded ==
    [][\A e \in Ends : GiveUp(e) =>
         ~missed[e] /\ (inbox[e] # <<>> => ~Wanted(call[e], First(e)))]_vars

(* Every call ends, whatever the other end does and however busy the link. *)
CallsEnd == \A e \in Ends : stage[e] # "idle" ~> stage[e] = "idle"
=============================================================================
