------------------------------ MODULE UavThreads ------------------------------
(***************************************************************************)
(* The threads that enter MulticopterUav: the application's, which pushes  *)
(* events, the link's, which delivers frames and errors, and the timer's,  *)
(* which calls back an action that waits for an answer.  Nothing excludes  *)
(* them: every change of state, of a task or of the current action is a    *)
(* step of its own, and a thread that tests something acts on it later.    *)
(*                                                                         *)
(* The actions are those between which threads meet: the application loop, *)
(* the flight, the sensors logger and the idle action an error leaves.     *)
(* Copies and exchanges of the shared pointer are single steps; std's are  *)
(* not when two threads use one pointer, so the code can do worse.         *)
(***************************************************************************)
EXTENDS Naturals, Sequences, FiniteSets

CONSTANTS
  MaxEvents,    \* bound: user events, frames, errors and timeouts
  None          \* no object

ASSUME NoneAssumption == None \notin Nat      \* objects are numbered

Threads == {"user", "link", "timer"}

VARIABLES
  object,     \* class and state of each action that was created
  alive,      \* those not yet destroyed
  action,     \* MulticopterUav::action
  todo,       \* what each thread has still to do: steps <<what, object, how>>
  notified,   \* the action its handler was called on
  lock,       \* actLock: the action it keeps alive
  local,      \* newActionShared, newAct: another one
  tasks,      \* the ping task and the connection timeout task that run
  expecting,  \* actions with wasSignalReceptionProcedure, their timer running
  connected,
  events,     \* events so far
  refused,    \* history: actions startAction did not start
  overlapped  \* history: a thread entered while another was inside

memory == <<object, alive, action, refused>>
held   == <<notified, lock, local>>
shared == <<tasks, expecting, connected>>
vars   == <<memory, held, shared, todo, events, overlapped>>

Idle(t) == todo[t] = <<>>
-----------------------------------------------------------------------------
(***************************************************************************)
(* What handlers do, in order.                                             *)
(***************************************************************************)
Disable(o, names) == [i \in 1..Len(names) |-> <<"disable", o, names[i]>>]

(* MulticopterUav::startAction.                                            *)
Starts(class) ==
    <<<<"create", None, class>>, <<"check", None, None>>, <<"end", None, None>>,
      <<"swap", None, None>>, <<"start", None, None>>, <<"leave", None, None>>>>

(* MulticopterUav::handleError.                                            *)
HandleError ==
    Disable(None, <<"ping", "connection">>) \o
    <<<<"disconnect", None, None>>, <<"create", None, "IDLE_ACTION">>,
      <<"swap", None, None>>, <<"leave", None, None>>>>

FlightEnded(o) ==
    Disable(o, <<"ping">>) \o <<<<"state", o, "IDLE">>>> \o Starts("APP")

(* start and end of the current action.                                    *)
StartOf(o) ==
    CASE object[o].class = "APP" ->
            <<<<"state", o, "APP_LOOP">>, <<"enable", o, "ping">>, <<"enable", o, "connection">>>>
      [] object[o].class = "SENSORS_LOGGER" ->
            <<<<"enable", o, "connection">>, <<"state", o, "INITIAL_COMMAND">>,
              <<"expect", o, None>>>>
      [] OTHER -> <<>>

EndOf_Nothing(o) == <<>>         \* mutant: the application loop has no end()
EndOf(o) == IF object[o].class = "APP" THEN Disable(o, <<"ping", "connection">>) ELSE <<>>

IsActionDone(o) ==
    CASE object[o].class = "APP" -> object[o].state \in {"IDLE", "APP_LOOP"}
      [] OTHER                   -> object[o].state = "IDLE"

In(o, class, states) == object[o].class = class /\ object[o].state \in states

(* handleUserEvent: what is not expected throws, out of pushUserUavEvent.  *)
UserEvents == {"BREAK_FLIGHT_LOOP", "BREAK_SENSORS_LOGGER", "ACTION"}

Handled(o, event) ==
    CASE event = "BREAK_FLIGHT_LOOP" /\ In(o, "FLIGHT", {"FLING"}) ->
            Disable(o, <<"ping", "connection">>) \o <<<<"state", o, "BREAKING">>>>
      [] event = "BREAK_SENSORS_LOGGER" /\ In(o, "SENSORS_LOGGER", {"LOGGING"}) ->
            <<<<"state", o, "BREAKING">>>> \o Disable(o, <<"connection">>)
            \o <<<<"expect", o, None>>>>
      [] event = "ACTION" /\ object[o].class = "APP" -> Starts("SENSORS_LOGGER")
      [] OTHER -> <<>>

(* baseHandleReception: what is not expected is an error.                  *)
Frames == {"data", "BREAK", "BREAK_ACK", "LOGGER_ACK", "LOGGER_BREAK_ACK"}

LoggerSignals == {"LOGGER_ACK", "LOGGER_BREAK_ACK"}

Heard(o, frame) ==
    CASE frame = "data" ->
            IF object[o].class = "IDLE_ACTION" \/ In(o, "APP", {"IDLE"})
            THEN HandleError ELSE <<>>
      [] \/ frame = "BREAK" /\ In(o, "FLIGHT", {"FLING", "BREAKING"})
         \/ frame = "BREAK_ACK" /\ In(o, "FLIGHT", {"BREAKING"}) -> FlightEnded(o)
      [] o \in expecting /\ frame \notin LoggerSignals -> <<>>
      [] o \in expecting /\ frame \in LoggerSignals ->
            <<<<"answered", o, None>>>> \o
            CASE frame = "LOGGER_ACK" /\ In(o, "SENSORS_LOGGER", {"INITIAL_COMMAND"}) ->
                    <<<<"state", o, "LOGGING">>>>
              [] frame = "LOGGER_BREAK_ACK" /\ In(o, "SENSORS_LOGGER", {"BREAKING"}) ->
                    <<<<"state", o, "IDLE">>>> \o Starts("APP")
              [] OTHER -> HandleError
      [] OTHER -> HandleError
-----------------------------------------------------------------------------
Init ==
    /\ object = <<[class |-> "FLIGHT", state |-> "FLING"]>>
    /\ alive = {1} /\ action = 1 /\ refused = {}
    /\ todo = [t \in Threads |-> <<>>]
    /\ notified = [t \in Threads |-> None]
    /\ lock = notified /\ local = notified
    /\ tasks = {"ping"} /\ expecting = {} /\ connected = TRUE
    /\ events = 0 /\ overlapped = FALSE

(* What no pointer refers to is destroyed.                                 *)
Collected_Never == alive' = alive          \* mutant: the pointers are plain ones
Collected == alive' = {o \in alive : \/ o = action' \/ o \in refused'
                                     \/ \E t \in Threads : o \in {lock'[t], local'[t]}}

(* The parameter by value keeps the action while its handler runs.         *)
Notify_Raw(t, steps) ==          \* mutant: the handler takes a plain pointer
    /\ notified' = [notified EXCEPT ![t] = action] /\ UNCHANGED lock
    /\ todo' = [todo EXCEPT ![t] = steps]
Notify(t, steps) ==
    /\ notified' = [notified EXCEPT ![t] = action] /\ lock' = [lock EXCEPT ![t] = action]
    /\ todo' = [todo EXCEPT ![t] = steps]

Enters(t) ==
    /\ Idle(t) /\ events < MaxEvents /\ events' = events + 1
    /\ overlapped' = (overlapped \/ \E other \in Threads : ~Idle(other))

PushUserUavEvent ==
    /\ Enters("user")
    /\ \E e \in UserEvents : Notify("user", <<<<"user", action, e>>, <<"return", None, None>>>>)
    /\ UNCHANGED <<memory, local, shared>>

OnDataReceived ==
    /\ Enters("link") /\ connected
    /\ \E f \in Frames : Notify("link", <<<<"hear", action, f>>, <<"return", None, None>>>>)
    /\ UNCHANGED <<memory, local, shared>>

OnError ==
    /\ Enters("link") /\ connected
    /\ todo' = [todo EXCEPT !["link"] = HandleError]
    /\ UNCHANGED <<memory, held, shared>>

(* The signal timer calls the action it was created for.                   *)
OnTimeout ==
    /\ Enters("timer")
    /\ \E o \in expecting : todo' = [todo EXCEPT !["timer"] = <<<<"timeout", o, None>>>>]
    /\ UNCHANGED <<memory, held, shared>>
-----------------------------------------------------------------------------
(***************************************************************************)
(* One step of a thread.                                                   *)
(***************************************************************************)
Does(t, what) == ~Idle(t) /\ Head(todo[t])[1] = what

On(t) == Head(todo[t])[2]
How(t) == Head(todo[t])[3]

Then(t, steps) == todo' = [todo EXCEPT ![t] = steps \o Tail(@)]

Enable(t) ==
    /\ Does(t, "enable") /\ tasks' = tasks \cup {How(t)} /\ Then(t, <<>>)
    /\ UNCHANGED <<memory, held, expecting, connected, events, overlapped>>

DisableTask(t) ==
    /\ Does(t, "disable") /\ tasks' = tasks \ {How(t)} /\ Then(t, <<>>)
    /\ UNCHANGED <<memory, held, expecting, connected, events, overlapped>>

SetState(t) ==
    /\ Does(t, "state") /\ object' = [object EXCEPT ![On(t)].state = How(t)] /\ Then(t, <<>>)
    /\ UNCHANGED <<alive, action, refused, held, shared, events, overlapped>>

(* sendSignal and endSignalTimeout.  An action may have been destroyed     *)
(* while start runs on it; what it then writes is taken to harm nothing.   *)
Expect(t) ==
    /\ \/ Does(t, "expect") /\ expecting' = expecting \cup ({On(t)} \cap alive)
       \/ Does(t, "answered") /\ expecting' = expecting \ {On(t)}
    /\ Then(t, <<>>)
    /\ UNCHANGED <<memory, held, tasks, connected, events, overlapped>>

Disconnect(t) ==
    /\ Does(t, "disconnect") /\ connected' = FALSE /\ Then(t, <<>>)
    /\ UNCHANGED <<memory, held, tasks, expecting, events, overlapped>>

(* The handler reads the state, and does what follows from it.             *)
Handle(t) ==
    /\ \/ Does(t, "user") /\ Then(t, Handled(On(t), How(t)))
       \/ Does(t, "hear") /\ Then(t, Heard(On(t), How(t)))
       \/ Does(t, "timeout") /\ Then(t, IF On(t) \in expecting THEN HandleError ELSE <<>>)
       \/ Does(t, "end") /\ Then(t, EndOf(action))
       \/ Does(t, "start") /\ Then(t, StartOf(action))
    /\ UNCHANGED <<memory, held, shared, events, overlapped>>

Create(t) ==
    /\ Does(t, "create")
    /\ object' = Append(object, [class |-> How(t), state |-> "IDLE"])
    /\ alive' = alive \cup {Len(object')} /\ local' = [local EXCEPT ![t] = Len(object')]
    /\ Then(t, <<>>)
    /\ UNCHANGED <<action, refused, notified, lock, shared, events, overlapped>>

(* The action of the moment is not done: the exception leaves the new one  *)
(* to nobody, ends a reception as an error and a user's call as its own.   *)
Check(t) ==
    /\ Does(t, "check")
    /\ IF IsActionDone(action)
       THEN Then(t, <<>>) /\ UNCHANGED <<refused, local>>
       ELSE /\ refused' = refused \cup {local[t]} /\ local' = [local EXCEPT ![t] = None]
            /\ todo' = [todo EXCEPT ![t] =
                            (IF t = "user" THEN <<>> ELSE HandleError)
                            \o <<<<"return", None, None>>>>]
    /\ UNCHANGED <<object, alive, action, notified, lock, shared, events, overlapped>>

(* action.swap: the local pointer leaves with the old action.              *)
Swap(t) ==
    /\ Does(t, "swap") /\ action' = local[t] /\ local' = [local EXCEPT ![t] = action]
    /\ Then(t, <<>>)
    /\ UNCHANGED <<object, alive, refused, notified, lock, shared, events, overlapped>>

(* A pointer goes out of scope; an action without one is destroyed, its    *)
(* timers with it.                                                         *)
Leave(t) ==
    /\ \/ Does(t, "leave") /\ local' = [local EXCEPT ![t] = None] /\ UNCHANGED <<notified, lock>>
       \/ /\ Does(t, "return")
          /\ lock' = [lock EXCEPT ![t] = None] /\ notified' = [notified EXCEPT ![t] = None]
          /\ UNCHANGED local
    /\ UNCHANGED <<object, action, refused>>
    /\ Collected /\ expecting' = expecting \cap alive'
    /\ Then(t, <<>>)
    /\ UNCHANGED <<tasks, connected, events, overlapped>>

Step(t) ==
    \/ Enable(t) \/ DisableTask(t) \/ SetState(t) \/ Expect(t) \/ Disconnect(t)
    \/ Handle(t) \/ Create(t) \/ Check(t) \/ Swap(t) \/ Leave(t)

Next == PushUserUavEvent \/ OnDataReceived \/ OnError \/ OnTimeout
        \/ \E t \in Threads : Step(t)

Spec == Init /\ [][Next]_vars
-----------------------------------------------------------------------------
(***************************************************************************)
(* Properties.                                                             *)
(***************************************************************************)
AtRest == \A t \in Threads : Idle(t)

(* The action a user event or a frame was handed to exists until its       *)
(* handler returns, whatever the other threads replace it by.              *)
HandlersRunOnLiveActions ==
    \A t \in Threads : notified[t] # None => notified[t] \in alive

(* With no call under way the current action is the only one left, but for *)
(* those that startAction refused: they are never deleted.                 *)
NoActionIsLost == AtRest => alive = {action} \cup refused

(* With no call under way the tasks that run are the current action's, as  *)
(* long as one thread waited for the other ...                             *)
TasksMatch ==
    tasks = CASE object[action].class = "APP"   -> {"ping", "connection"}
              [] In(action, "FLIGHT", {"FLING"}) -> {"ping"}
              [] In(action, "SENSORS_LOGGER", {"INITIAL_COMMAND", "LOGGING"}) -> {"connection"}
              [] OTHER                           -> {}

CallsInTurnKeepTasks == AtRest /\ ~overlapped => TasksMatch

(* ... and, were pushUserUavEvent thread safe, in any case.                *)
TasksFollowAction == AtRest => TasksMatch
=============================================================================
