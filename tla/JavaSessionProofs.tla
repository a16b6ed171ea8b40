-------------------------- MODULE JavaSessionProofs --------------------------
(***************************************************************************)
(* Theorems about JavaSession, for every number of sessions and of         *)
(* corrupted records.                                                      *)
(*                                                                         *)
(* That the board flies only under an application in flight is a matter of *)
(* what is on its way between them: any FLIGHT_LOOP signal ends the        *)
(* application's flight, so none may come once the board is allowed to     *)
(* fly, whatever the user did before, and whichever flight it belongs to.  *)
(***************************************************************************)
EXTENDS JavaSession, SequenceTheorems, TLAPS

Commands   == Procedures \cup {"START_CMD", "APP_LOOP", "CALIBRATION_SETTINGS", "CONTROL_SETTINGS",
                              "ROUTE_CONTAINER", "PING_VALUE", "CONTROL", "STOP"}
Parameters == {"START", "ACK", "READY", "DONE", "SKIP", "BREAK", "BREAK_ACK", "DATA_INVALID", "TIMEOUT",
               "VIA_ROUTE_ALLOWED", "valid", "invalid", "cut", "value", "none"}

(* What a record may come as.                                              *)
Arrivals == Contents \cup {"cut"}

Messages == [kind : {"signal", "payload", "frame"}, command : Commands, parameter : Parameters]
News     == {"connected", "disconnected", "error"}

Holds(s, m) == \E i \in DOMAIN s : s[i] = m

(***************************************************************************)
(* The link.                                                               *)
(***************************************************************************)

(* While the connection is open each end has heard of nothing but it, and  *)
(* what an application may do that has not yet heard of it is little; once *)
(* it is closed nothing is on its way, and the application that still has  *)
(* an action in charge is about to lose it.                                *)
LinkInv ==
    /\ status \in {"open", "closed", "broken"}
    /\ up \in Seq(Messages) /\ down \in Seq(Messages) /\ record \in Contents
    /\ appNews \in Seq(News) /\ boardNews \in Seq(News)
    /\ \A i \in DOMAIN appNews : appNews[i] = "connected" => i = 1
    /\ status # "open" => up = <<>> /\ down = <<>>
    /\ status = "open" =>
         /\ \/ appNews = <<>>
            \/ appNews = <<"connected">> /\ action \in {"IDLE", "DISCONNECT"}
         /\ \/ boardNews = <<>>
            \/ /\ boardNews = <<"connected">> /\ down = <<>>
               /\ action \in {"IDLE", "CONNECT", "DISCONNECT"}
    /\ status = "closed" =>
         \/ Holds(appNews, "disconnected")
         \/ action \in {"IDLE", "DISCONNECT"} /\ ~Holds(appNews, "connected")

(***************************************************************************)
(* The flight.                                                             *)
(***************************************************************************)
FlightAck    == Signal("FLIGHT_LOOP", "ACK")
RouteAllowed == Signal("FLIGHT_LOOP", "VIA_ROUTE_ALLOWED")
FlightEnds   == Signal("FLIGHT_LOOP", "BREAK_ACK")
Ready        == Signal("FLIGHT_LOOP", "READY")

FlightSignals == {FlightAck, RouteAllowed, FlightEnds}

(* The order in which the board sends them, a flight's end before the next *)
(* flight.                                                                 *)
Precedes(m, n) ==
    /\ n # FlightEnds
    /\ n = FlightAck => m = FlightEnds
    /\ n = RouteAllowed => m # RouteAllowed

InOrder(s) ==
    \A i, j \in DOMAIN s :
      i < j /\ s[i] \in FlightSignals /\ s[j] \in FlightSignals => Precedes(s[i], s[j])

Once(s, m) == \A i, j \in DOMAIN s : s[i] = m /\ s[j] = m => i = j

NoneIn(s) == \A m \in FlightSignals : ~Holds(s, m)

(* How far the flight has come, in the application and at the board.       *)
Flies   == action = "FLIGHT_LOOP" /\ state \in {"FLING", "BREAKING"}
Waits(ss) == action = "FLIGHT_LOOP" /\ state \in ss
Allowed == board = "FLIGHT_LOOP" /\ stage \in {"ROUTE_ACK", "FINAL_COMMAND"}
Acked   == board = "FLIGHT_LOOP" /\ stage \in {"CONTROLS_ACK", "ROUTE_ACK", "FINAL_COMMAND"}

FlightInv ==
    /\ InOrder(down)
    /\ Holds(down, FlightAck) => Acked
    /\ Holds(down, RouteAllowed) => Allowed
    /\ Holds(down, FlightEnds) => Flies
    /\ Waits({"WAITING_FOR_CONTROLS", "WAITING_FOR_ROUTE_COMMAND"}) =>
         Acked /\ ~Holds(down, FlightAck)
    /\ Waits({"WAITING_FOR_ROUTE"}) => Allowed /\ NoneIn(down)
    /\ Holds(up, Ready) => Flies /\ Allowed /\ NoneIn(down) /\ Once(up, Ready)
    /\ stage = "RUNNING" => Flies /\ NoneIn(down) /\ ~Holds(up, Ready)

(* What the board believes counts once it has heard of the connection.     *)
ShareInv ==
    status = "open" => /\ boardNews = <<>> => FlightInv
                       /\ boardNews # <<>> => ~Holds(up, Ready)

SessionInv == LinkInv /\ ShareInv
-----------------------------------------------------------------------------
(***************************************************************************)
(* Messages, and what is on its way.                                       *)
(***************************************************************************)
LEMMA SignalsAreMessages ==
  ASSUME NEW c \in Commands, NEW p \in Parameters
  PROVE  /\ Signal(c, p) \in Messages /\ Payload(c, p) \in Messages /\ Frame(c) \in Messages
         /\ B!Signal(c, p) = Signal(c, p) /\ B!Payload(c, p) = Payload(c, p)
         /\ B!Frame(c) = Frame(c)
<1>1. "none" \in Parameters
  BY DEF Parameters
<1> QED BY <1>1 DEF Signal, Payload, Frame, Messages, B!Signal, B!Payload, B!Frame

LEMMA OtherSignals ==
  ASSUME NEW c, NEW p
  PROVE  /\ c # "FLIGHT_LOOP" \/ p \notin {"ACK", "VIA_ROUTE_ALLOWED", "BREAK_ACK"}
              => Signal(c, p) \notin FlightSignals
         /\ c # "FLIGHT_LOOP" \/ p # "READY" => Signal(c, p) # Ready
         /\ Payload(c, p) \notin FlightSignals /\ Payload(c, p) # Ready
         /\ Frame(c) \notin FlightSignals /\ Frame(c) # Ready
  BY DEF Signal, Payload, Frame, FlightSignals, FlightAck, RouteAllowed, FlightEnds, Ready

LEMMA FlightSignalsDiffer ==
  /\ FlightAck # RouteAllowed /\ FlightAck # FlightEnds /\ RouteAllowed # FlightEnds
  /\ Ready \notin FlightSignals
<1>1. Signal("FLIGHT_LOOP", "ACK").parameter = "ACK"
  BY DEF Signal
<1>2. Signal("FLIGHT_LOOP", "VIA_ROUTE_ALLOWED").parameter = "VIA_ROUTE_ALLOWED"
  BY DEF Signal
<1>3. Signal("FLIGHT_LOOP", "BREAK_ACK").parameter = "BREAK_ACK"
  BY DEF Signal
<1>4. Signal("FLIGHT_LOOP", "READY").parameter = "READY"
  BY DEF Signal
<1> QED BY <1>1, <1>2, <1>3, <1>4 DEF FlightSignals, FlightAck, RouteAllowed, FlightEnds, Ready

LEMMA NothingHeld ==
  ASSUME NEW m
  PROVE  ~Holds(<<>>, m) /\ InOrder(<<>>) /\ NoneIn(<<>>) /\ Once(<<>>, m)
  BY DEF Holds, InOrder, NoneIn, Once

(* The first is heard.                                                     *)
LEMMA HeldInTail ==
  ASSUME NEW S, NEW s \in Seq(S), s # <<>>
  PROVE  /\ Tail(s) \in Seq(S) /\ Holds(s, Head(s))
         /\ \A m : Holds(Tail(s), m) => Holds(s, m)
         /\ \A m : Holds(s, m) => m = Head(s) \/ Holds(Tail(s), m)
         /\ InOrder(s) => InOrder(Tail(s))
         /\ InOrder(s) /\ Head(s) \in FlightSignals =>
              \A m \in FlightSignals : Holds(Tail(s), m) => Precedes(Head(s), m)
         /\ \A m : Once(s, m) => Once(Tail(s), m) /\ (Head(s) = m => ~Holds(Tail(s), m))
<1> DEFINE t == Tail(s)
<1>1. /\ Len(s) \in Nat \ {0} /\ DOMAIN s = 1..Len(s) /\ Head(s) = s[1]
      /\ t \in Seq(S) /\ DOMAIN t = 1..(Len(s) - 1)
      /\ \A i \in 1..(Len(s) - 1) : t[i] = s[i + 1]
  BY LenProperties, EmptySeq, HeadTailProperties
<1> HIDE DEF t
<1>2. \A i \in DOMAIN t : i \in Nat /\ i + 1 \in DOMAIN s /\ 1 < i + 1 /\ t[i] = s[i + 1]
  BY <1>1
<1>3. 1 \in DOMAIN s /\ \A i \in DOMAIN s : i = 1 \/ (i - 1 \in DOMAIN t /\ t[i - 1] = s[i])
  <2>1. 1 \in DOMAIN s
    BY <1>1
  <2>2. ASSUME NEW i \in DOMAIN s, i # 1 PROVE i - 1 \in DOMAIN t /\ t[i - 1] = s[i]
    <3>1. i - 1 \in 1..(Len(s) - 1) /\ (i - 1) + 1 = i
      BY <1>1, <2>2
    <3>2. t[i - 1] = s[(i - 1) + 1]
      BY <1>1, <3>1
    <3> QED BY <1>1, <3>1, <3>2
  <2> QED BY <2>1, <2>2
<1>4. \A m : Holds(t, m) => Holds(s, m)
  BY <1>2 DEF Holds
<1>5. \A m : Holds(s, m) => m = Head(s) \/ Holds(t, m)
  BY <1>1, <1>3 DEF Holds
<1>6. InOrder(s) => InOrder(t)
  <2> SUFFICES ASSUME InOrder(s), NEW i \in DOMAIN t, NEW j \in DOMAIN t, i < j,
                      t[i] \in FlightSignals, t[j] \in FlightSignals
               PROVE  Precedes(t[i], t[j])
    BY DEF InOrder
  <2>1. i + 1 \in DOMAIN s /\ j + 1 \in DOMAIN s /\ i + 1 < j + 1 /\ t[i] = s[i + 1] /\ t[j] = s[j + 1]
    BY <1>2
  <2> QED BY <2>1 DEF InOrder
<1>7. ASSUME InOrder(s), Head(s) \in FlightSignals,
             NEW m \in FlightSignals, NEW i \in DOMAIN t, t[i] = m
      PROVE  Precedes(Head(s), m)
  <2>1. 1 \in DOMAIN s /\ i + 1 \in DOMAIN s /\ 1 < i + 1 /\ s[1] = Head(s) /\ s[i + 1] = m
    BY <1>1, <1>2, <1>3, <1>7
  <2> QED BY <1>7, <2>1 DEF InOrder
<1>8. ASSUME NEW m, Once(s, m) PROVE Once(t, m) /\ (Head(s) = m => ~Holds(t, m))
  <2>1. Once(t, m)
    <3> SUFFICES ASSUME NEW i \in DOMAIN t, NEW j \in DOMAIN t, t[i] = m, t[j] = m PROVE i = j
      BY DEF Once
    <3>1. i + 1 = j + 1 /\ i \in Nat /\ j \in Nat
      BY <1>2, <1>8 DEF Once
    <3> QED BY <3>1
  <2>2. ASSUME Head(s) = m, NEW i \in DOMAIN t, t[i] = m PROVE FALSE
    <3>1. i + 1 \in DOMAIN s /\ s[i + 1] = m /\ 1 < i + 1 /\ 1 \in DOMAIN s /\ s[1] = m /\ i \in Nat
      BY <1>1, <1>2, <1>3, <2>2
    <3>2. i + 1 = 1
      BY <1>8, <3>1 DEF Once
    <3> QED BY <3>1, <3>2
  <2> QED BY <2>1, <2>2 DEF Holds
<1>9. Holds(s, Head(s))
  BY <1>1, <1>3 DEF Holds
<1>10. InOrder(s) /\ Head(s) \in FlightSignals =>
         \A m \in FlightSignals : Holds(t, m) => Precedes(Head(s), m)
  BY <1>7 DEF Holds
<1> QED BY <1>1, <1>4, <1>5, <1>6, <1>8, <1>9, <1>10 DEF t

(* More is sent.                                                           *)
LEMMA HeldInConcat ==
  ASSUME NEW S, NEW s \in Seq(S), NEW t \in Seq(S)
  PROVE  /\ s \o t \in Seq(S)
         /\ \A m : Holds(s \o t, m) <=> Holds(s, m) \/ Holds(t, m)
         /\ InOrder(s) /\ InOrder(t)
              /\ (\A m, n \in FlightSignals : Holds(s, m) /\ Holds(t, n) => Precedes(m, n))
              => InOrder(s \o t)
         /\ \A m : ~Holds(s, m) /\ Once(t, m) => Once(s \o t, m)
         /\ \A m : ~Holds(t, m) /\ Once(s, m) => Once(s \o t, m)
<1> DEFINE r == s \o t
<1>1. /\ Len(s) \in Nat /\ Len(t) \in Nat /\ DOMAIN s = 1..Len(s) /\ DOMAIN t = 1..Len(t)
      /\ r \in Seq(S) /\ DOMAIN r = 1..(Len(s) + Len(t))
      /\ \A i \in 1..(Len(s) + Len(t)) : r[i] = IF i <= Len(s) THEN s[i] ELSE t[i - Len(s)]
  BY LenProperties, ConcatProperties
<1> HIDE DEF r
<1>2. ASSUME NEW i \in DOMAIN r
      PROVE  \/ i \in DOMAIN s /\ r[i] = s[i] /\ i <= Len(s)
             \/ i - Len(s) \in DOMAIN t /\ r[i] = t[i - Len(s)] /\ ~(i <= Len(s))
  BY <1>1
<1>3. \A i \in DOMAIN s : i \in DOMAIN r /\ r[i] = s[i]
  BY <1>1
<1>4. \A i \in DOMAIN t : i + Len(s) \in DOMAIN r /\ r[i + Len(s)] = t[i]
  <2> TAKE i \in DOMAIN t
  <2>1. i + Len(s) \in 1..(Len(s) + Len(t)) /\ ~(i + Len(s) <= Len(s)) /\ (i + Len(s)) - Len(s) = i
    BY <1>1
  <2> QED BY <1>1, <2>1
<1>5. \A m : Holds(r, m) <=> Holds(s, m) \/ Holds(t, m)
  BY <1>2, <1>3, <1>4 DEF Holds
<1>6. ASSUME InOrder(s), InOrder(t),
             \A m, n \in FlightSignals : Holds(s, m) /\ Holds(t, n) => Precedes(m, n)
      PROVE  InOrder(r)
  <2> SUFFICES ASSUME NEW i \in DOMAIN r, NEW j \in DOMAIN r, i < j,
                      r[i] \in FlightSignals, r[j] \in FlightSignals
               PROVE  Precedes(r[i], r[j])
    BY DEF InOrder
  <2>1. i \in Nat /\ j \in Nat
    BY <1>1
  <2>2. CASE j <= Len(s)
    <3>1. i \in DOMAIN s /\ j \in DOMAIN s /\ r[i] = s[i] /\ r[j] = s[j]
      BY <1>1, <1>2, <2>1, <2>2
    <3> QED BY <1>6, <3>1 DEF InOrder
  <2>3. CASE ~(j <= Len(s)) /\ i <= Len(s)
    <3>1. i \in DOMAIN s /\ r[i] = s[i] /\ j - Len(s) \in DOMAIN t /\ r[j] = t[j - Len(s)]
      BY <1>2, <2>3
    <3>2. Holds(s, r[i]) /\ Holds(t, r[j])
      BY <3>1 DEF Holds
    <3> QED BY <1>6, <3>2
  <2>4. CASE ~(j <= Len(s)) /\ ~(i <= Len(s))
    <3>1. /\ i - Len(s) \in DOMAIN t /\ r[i] = t[i - Len(s)]
          /\ j - Len(s) \in DOMAIN t /\ r[j] = t[j - Len(s)]
      BY <1>2, <2>4
    <3>2. i - Len(s) < j - Len(s)
      BY <1>1, <2>1
    <3> QED BY <1>6, <3>1, <3>2 DEF InOrder
  <2> QED BY <2>2, <2>3, <2>4
<1>7. ASSUME NEW m, ~Holds(s, m), Once(t, m) PROVE Once(r, m)
  <2> SUFFICES ASSUME NEW i \in DOMAIN r, NEW j \in DOMAIN r, r[i] = m, r[j] = m PROVE i = j
    BY DEF Once
  <2>1. /\ i - Len(s) \in DOMAIN t /\ t[i - Len(s)] = m
        /\ j - Len(s) \in DOMAIN t /\ t[j - Len(s)] = m
    BY <1>2, <1>7 DEF Holds
  <2>2. i - Len(s) = j - Len(s)
    BY <1>7, <2>1 DEF Once
  <2> QED BY <1>1, <2>2
<1>8. ASSUME NEW m, ~Holds(t, m), Once(s, m) PROVE Once(r, m)
  <2> SUFFICES ASSUME NEW i \in DOMAIN r, NEW j \in DOMAIN r, r[i] = m, r[j] = m PROVE i = j
    BY DEF Once
  <2>1. i \in DOMAIN s /\ s[i] = m /\ j \in DOMAIN s /\ s[j] = m
    BY <1>2, <1>8 DEF Holds
  <2> QED BY <1>8, <2>1 DEF Once
<1> QED BY <1>1, <1>5, <1>6, <1>7, <1>8 DEF r

(* Short answers.                                                          *)
LEMMA HeldInAnswers ==
  ASSUME NEW a \in Messages, NEW b \in Messages, NEW c \in Messages
  PROVE  /\ <<>> \in Seq(Messages) /\ <<a>> \in Seq(Messages)
         /\ <<a, b>> \in Seq(Messages) /\ <<a, b, c>> \in Seq(Messages)
         /\ \A m : /\ Holds(<<a>>, m) <=> m = a
                   /\ Holds(<<a, b>>, m) <=> m \in {a, b}
                   /\ Holds(<<a, b, c>>, m) <=> m \in {a, b, c}
         /\ \A m : Once(<<a>>, m) /\ (a # b => Once(<<a, b>>, m))
<1>1. /\ <<>> \in Seq(Messages) /\ <<a>> \in Seq(Messages)
      /\ <<a, b>> \in Seq(Messages) /\ <<a, b, c>> \in Seq(Messages)
  OBVIOUS
<1>2. /\ DOMAIN <<a>> = 1..1 /\ <<a>>[1] = a
      /\ DOMAIN <<a, b>> = 1..2 /\ <<a, b>>[1] = a /\ <<a, b>>[2] = b
      /\ DOMAIN <<a, b, c>> = 1..3 /\ <<a, b, c>>[1] = a /\ <<a, b, c>>[2] = b /\ <<a, b, c>>[3] = c
  OBVIOUS
<1>3. 1..1 = {1} /\ 1..2 = {1, 2} /\ 1..3 = {1, 2, 3}
  OBVIOUS
<1>4. \A m : Holds(<<a>>, m) <=> m = a
  BY <1>2, <1>3 DEF Holds
<1>5. \A m : Holds(<<a, b>>, m) <=> m \in {a, b}
  BY <1>2, <1>3 DEF Holds
<1>6. \A m : Holds(<<a, b, c>>, m) <=> m \in {a, b, c}
  BY <1>2, <1>3 DEF Holds
<1>7. \A m : Once(<<a>>, m) /\ (a # b => Once(<<a, b>>, m))
  BY <1>2, <1>3 DEF Once
<1> QED BY <1>1, <1>4, <1>5, <1>6, <1>7

(* Messages without a flight's signals.                                    *)
Plain(s) == s \in Seq(Messages) /\ NoneIn(s) /\ ~Holds(s, Ready)

LEMMA PlainAnswers ==
  ASSUME NEW a \in Messages \ (FlightSignals \cup {Ready}),
         NEW b \in Messages \ (FlightSignals \cup {Ready}),
         NEW c \in Messages \ (FlightSignals \cup {Ready})
  PROVE  Plain(<<>>) /\ Plain(<<a>>) /\ Plain(<<a, b>>) /\ Plain(<<a, b, c>>)
  BY HeldInAnswers, NothingHeld DEF Plain, NoneIn

LEMMA PlainConcat ==
  ASSUME NEW s, NEW t, Plain(s), Plain(t)
  PROVE  Plain(s \o t)
  BY HeldInConcat DEF Plain, NoneIn

(* Nothing without them disturbs their order.                              *)
LEMMA PlainIsInOrder ==
  ASSUME NEW s \in Seq(Messages), InOrder(s), NEW t, Plain(t)
  PROVE  InOrder(s \o t)
<1>1. InOrder(t)
  BY DEF Plain, NoneIn, InOrder, Holds
<1> QED BY <1>1, HeldInConcat DEF Plain, NoneIn

(* A callback more.                                                        *)
LEMMA HeldInAppend ==
  ASSUME NEW s \in Seq(News), NEW a \in News
  PROVE  /\ Append(s, a) \in Seq(News) /\ Holds(Append(s, a), a)
         /\ \A m : Holds(Append(s, a), m) <=> Holds(s, m) \/ m = a
         /\ a # "connected" /\ (\A i \in DOMAIN s : s[i] = "connected" => i = 1) =>
              \A i \in DOMAIN Append(s, a) : Append(s, a)[i] = "connected" => i = 1
<1> DEFINE t == Append(s, a)
<1>1. /\ Len(s) \in Nat /\ DOMAIN s = 1..Len(s)
      /\ t \in Seq(News) /\ DOMAIN t = 1..(Len(s) + 1) /\ t[Len(s) + 1] = a
      /\ \A i \in 1..Len(s) : t[i] = s[i]
  BY LenProperties, AppendProperties
<1> HIDE DEF t
<1>2. \A i \in DOMAIN t : (i \in DOMAIN s /\ t[i] = s[i]) \/ t[i] = a
  BY <1>1
<1>3. \A i \in DOMAIN s : i \in DOMAIN t /\ t[i] = s[i]
  BY <1>1
<1>4. Len(s) + 1 \in DOMAIN t
  BY <1>1
<1>5. \A m : Holds(t, m) <=> Holds(s, m) \/ m = a
  BY <1>1, <1>2, <1>3, <1>4 DEF Holds
<1> QED BY <1>1, <1>2, <1>5 DEF t, Holds
-----------------------------------------------------------------------------
(***************************************************************************)
(* What the steps do to the link.                                          *)
(***************************************************************************)
LEMMA FirstNews ==
  ASSUME LinkInv, appNews # <<>>
  PROVE  /\ Tail(appNews) \in Seq(News) /\ ~Holds(Tail(appNews), "connected")
         /\ Holds(appNews, Head(appNews))
         /\ \A m : Holds(appNews, m) => m = Head(appNews) \/ Holds(Tail(appNews), m)
         /\ appNews = <<"connected">> => Tail(appNews) = <<>> /\ Head(appNews) = "connected"
<1>1. appNews \in Seq(News) /\ (\A i \in DOMAIN appNews : appNews[i] = "connected" => i = 1)
  BY DEF LinkInv
<1>2. /\ Len(appNews) \in Nat \ {0} /\ DOMAIN appNews = 1..Len(appNews)
      /\ Tail(appNews) \in Seq(News) /\ DOMAIN Tail(appNews) = 1..(Len(appNews) - 1)
      /\ \A i \in 1..(Len(appNews) - 1) : Tail(appNews)[i] = appNews[i + 1]
  BY <1>1, LenProperties, EmptySeq, HeadTailProperties
<1>3. ASSUME NEW i \in DOMAIN Tail(appNews), Tail(appNews)[i] = "connected" PROVE FALSE
  <2>1. i + 1 \in DOMAIN appNews /\ appNews[i + 1] = "connected" /\ i + 1 # 1
    BY <1>2, <1>3
  <2> QED BY <1>1, <2>1
<1>4. /\ Holds(appNews, Head(appNews))
      /\ \A m : Holds(appNews, m) => m = Head(appNews) \/ Holds(Tail(appNews), m)
  BY <1>1, HeldInTail
<1>5. ~Holds(Tail(appNews), "connected")
  BY <1>3 DEF Holds
<1>6. appNews = <<"connected">> => Tail(appNews) = <<>> /\ Head(appNews) = "connected"
  OBVIOUS
<1> QED BY <1>2, <1>4, <1>5, <1>6

LEMMA AppAnswersLink ==
  ASSUME LinkInv, NEW m, AppHears(m), NEW ms \in Seq(Messages), AppAnswers(ms), record' \in Contents
  PROVE  /\ LinkInv' /\ status = "open" /\ status' = "open"
         /\ boardNews = <<>> /\ boardNews' = <<>> /\ appNews = <<>>
         /\ down # <<>> /\ m = Head(down) /\ down' = Tail(down) /\ up' = up \o ms
<1>1. /\ status = "open" /\ appNews = <<>> /\ boardNews = <<>> /\ down # <<>> /\ m = Head(down)
      /\ down' = Tail(down) /\ up' = up \o ms /\ UNCHANGED <<status, appNews, boardNews>>
      /\ up \in Seq(Messages) /\ down \in Seq(Messages)
  BY DEF LinkInv, AppHears, AppAnswers, channel
<1>2. up' \in Seq(Messages) /\ down' \in Seq(Messages)
  BY <1>1, HeldInTail, HeldInConcat
<1> QED BY <1>1, <1>2 DEF LinkInv

LEMMA BoardAnswersLink ==
  ASSUME LinkInv, NEW m, B!BoardHears(m), NEW ms \in Seq(Messages), B!BoardAnswers(ms),
         UNCHANGED <<action, record>>
  PROVE  /\ LinkInv' /\ status = "open" /\ status' = "open"
         /\ boardNews = <<>> /\ boardNews' = <<>>
         /\ up # <<>> /\ m = Head(up) /\ up' = Tail(up) /\ down' = down \o ms
<1>1. /\ status = "open" /\ boardNews = <<>> /\ up # <<>> /\ m = Head(up)
      /\ up' = Tail(up) /\ down' = down \o ms /\ UNCHANGED <<status, appNews, boardNews>>
      /\ up \in Seq(Messages) /\ down \in Seq(Messages)
  BY DEF LinkInv, B!BoardHears, B!BoardAnswers, B!channel
<1>2. up' \in Seq(Messages) /\ down' \in Seq(Messages)
  BY <1>1, HeldInTail, HeldInConcat
<1> QED BY <1>1, <1>2 DEF LinkInv

LEMMA AppSendsLink ==
  ASSUME LinkInv, NEW ms \in Seq(Messages), AppSends(ms), record' \in Contents,
         action' \in {action, "DISCONNECT"} \/ action = "APP_LOOP"
  PROVE  /\ LinkInv' /\ UNCHANGED <<status, boardNews, down>>
         /\ status = "open" => up' = up \o ms
<1>1. /\ UNCHANGED <<status, appNews, boardNews, down>>
      /\ up' = (IF status = "open" THEN up \o ms ELSE up)
      /\ up \in Seq(Messages)
  BY DEF LinkInv, AppSends, channel
<1>2. up' \in Seq(Messages)
  BY <1>1, HeldInConcat
<1> QED BY <1>1, <1>2 DEF LinkInv

(* What is left of the news when a callback other than onDisconnected has  *)
(* been made, or none.                                                     *)
Left(heard) ==
    \/ heard = appNews
    \/ appNews # <<>> /\ heard = Tail(appNews) /\ Head(appNews) # "disconnected"

LEMMA LeftNews ==
  ASSUME LinkInv, NEW heard, Left(heard)
  PROVE  /\ heard \in Seq(News)
         /\ \A i \in DOMAIN heard : heard[i] = "connected" => i = 1
         /\ Holds(appNews, "disconnected") => Holds(heard, "disconnected")
         /\ ~Holds(appNews, "connected") => ~Holds(heard, "connected")
         /\ appNews \in {<<>>, <<"connected">>} => heard = appNews \/ heard = <<>>
<1>1. CASE heard = appNews
  BY <1>1 DEF LinkInv
<1>2. CASE appNews # <<>> /\ heard = Tail(appNews) /\ Head(appNews) # "disconnected"
  BY <1>2, FirstNews DEF Holds
<1> QED BY <1>1, <1>2 DEF Left

LEMMA HeardLink ==
  ASSUME LinkInv, NEW heard, Left(heard), OnlyHeard(heard), record' \in Contents,
         action' \in {action, "DISCONNECT"}
  PROVE  LinkInv' /\ UNCHANGED <<status, up, down, boardNews>>
<1>1. appNews' = heard /\ UNCHANGED <<status, up, down, boardNews>>
  BY DEF OnlyHeard
<1> QED BY <1>1, LeftNews DEF LinkInv

LEMMA DisconnectLink ==
  ASSUME LinkInv, NEW heard, Left(heard), Disconnect(heard), record' \in Contents,
         action' \in {action, "DISCONNECT"}
  PROVE  LinkInv' /\ status' = "closed"
<1>1. /\ status' = "closed" /\ up' = <<>> /\ down' = <<>>
      /\ appNews' = IF status = "closed" THEN heard ELSE Append(heard, "disconnected")
      /\ boardNews' = IF status = "open" THEN Append(boardNews, "disconnected") ELSE boardNews
  BY DEF Disconnect
<1>2. "disconnected" \in News /\ boardNews \in Seq(News)
  BY DEF News, LinkInv
<1>3. boardNews' \in Seq(News)
  BY <1>1, <1>2, HeldInAppend
<1>4. CASE status = "closed"
  BY <1>1, <1>3, <1>4, LeftNews DEF LinkInv
<1>5. CASE status # "closed"
  <2>1. /\ appNews' \in Seq(News) /\ Holds(appNews', "disconnected")
        /\ \A i \in DOMAIN appNews' : appNews'[i] = "connected" => i = 1
    BY <1>1, <1>2, <1>5, LeftNews, HeldInAppend
  <2> QED BY <1>1, <1>3, <2>1 DEF LinkInv
<1> QED BY <1>4, <1>5

LEMMA InterfaceLink ==
  ASSUME LinkInv, NEW heard, Left(heard), DisconnectInterface(heard), record' \in Contents,
         action' \in {action, "DISCONNECT"}
  PROVE  /\ LinkInv' /\ tasks' = StoppedAll(tasks)
         /\ status' = "closed" \/ UNCHANGED <<status, up, down, boardNews>>
  BY DisconnectLink, HeardLink DEF DisconnectInterface

(* The callback onDisconnected of the application.                         *)
LEMMA DisconnectedLink ==
  ASSUME LinkInv, OnDisconnected
  PROVE  LinkInv' /\ status' # "open"
<1>1. /\ appNews # <<>> /\ Head(appNews) = "disconnected" /\ appNews' = Tail(appNews)
      /\ UNCHANGED <<status, up, down, boardNews, record>> /\ action' = "IDLE"
  BY DEF OnDisconnected, Calls, OnlyHeard
<1>2. status # "open"
  BY <1>1, FirstNews DEF LinkInv
<1>3. \A i \in DOMAIN appNews' : appNews'[i] # "connected"
  BY <1>1, FirstNews DEF Holds
<1> QED BY <1>1, <1>2, <1>3, FirstNews DEF LinkInv, Holds

(* The callback onConnected, and ConnectAction::start.                     *)
LEMMA ConnectedLink ==
  ASSUME LinkInv, OnConnected, IsActionDone
  PROVE  /\ LinkInv' /\ UNCHANGED <<status, down, boardNews>>
         /\ status = "open" => up' = Append(up, Signal("START_CMD", "START"))
<1>1. /\ appNews # <<>> /\ Head(appNews) = "connected" /\ appNews' = Tail(appNews)
      /\ UNCHANGED <<status, down, boardNews, record>> /\ action' = "CONNECT"
      /\ up' = IF status = "open" THEN Append(up, Signal("START_CMD", "START")) ELSE up
  BY DEF OnConnected, Calls
<1>2. up' \in Seq(Messages)
  <2>1. "START_CMD" \in Commands /\ "START" \in Parameters
    BY DEF Commands, Parameters
  <2> QED BY <1>1, <2>1, SignalsAreMessages, AppendProperties DEF LinkInv
<1>3. \A i \in DOMAIN appNews' : appNews'[i] # "connected"
  BY <1>1, FirstNews DEF Holds
<1>4. status = "open" => appNews' = <<>>
  BY <1>1, FirstNews DEF LinkInv
<1>5. status = "closed" => Holds(appNews', "disconnected")
  BY <1>1, FirstNews DEF LinkInv
<1> QED BY <1>1, <1>2, <1>3, <1>4, <1>5, FirstNews DEF LinkInv

LEMMA OpensLink ==
  ASSUME LinkInv, LinkOpens, UNCHANGED app
  PROVE  /\ LinkInv' /\ boardNews' # <<>> /\ up' = <<>>
<1>1. /\ status = "closed" /\ appNews = <<>> /\ status' = "open" /\ UNCHANGED <<up, down, action, record>>
      /\ appNews' = <<"connected">> /\ boardNews' = <<"connected">>
  BY DEF LinkOpens, app
<1>2. up = <<>> /\ down = <<>> /\ action \in {"IDLE", "DISCONNECT"}
  BY <1>1, NothingHeld DEF LinkInv
<1>3. /\ appNews' \in Seq(News) /\ boardNews' \in Seq(News) /\ boardNews' # <<>>
      /\ \A i \in DOMAIN appNews' : i = 1
  BY <1>1 DEF News
<1> QED BY <1>1, <1>2, <1>3 DEF LinkInv

LEMMA FailsLink ==
  ASSUME LinkInv, LinkFails, UNCHANGED app
  PROVE  LinkInv' /\ status' # "open"
<1>1. PICK a \in {"disconnected", "error"}, b \in {"disconnected", "error"} :
        /\ status' = IF a = "error" THEN "broken" ELSE "closed"
        /\ appNews' = Append(appNews, a) /\ boardNews' = Append(boardNews, b)
  BY DEF LinkFails
<1>2. a \in News /\ b \in News /\ a # "connected"
  BY DEF News
<1>3. /\ appNews' \in Seq(News) /\ boardNews' \in Seq(News) /\ Holds(appNews', a)
      /\ \A i \in DOMAIN appNews' : appNews'[i] = "connected" => i = 1
  BY <1>1, <1>2, HeldInAppend DEF LinkInv
<1>4. up' = <<>> /\ down' = <<>> /\ UNCHANGED record
  BY DEF LinkFails, app
<1> QED BY <1>1, <1>3, <1>4 DEF LinkInv

(* A record that is garbled stays the same but for its contents.           *)
LEMMA GarbledMessages ==
  ASSUME NEW s \in Seq(Messages), NEW k \in DOMAIN s, s[k].parameter \in Contents,
         NEW v \in {"invalid", "cut"}
  PROVE  /\ Garbled(s, k, v) \in Seq(Messages)
         /\ \A m \in FlightSignals \cup {Ready} :
              /\ Holds(Garbled(s, k, v), m) <=> Holds(s, m)
              /\ Once(s, m) => Once(Garbled(s, k, v), m)
         /\ InOrder(s) => InOrder(Garbled(s, k, v))
<1> DEFINE t == Garbled(s, k, v)
<1>1. Len(s) \in Nat /\ DOMAIN s = 1..Len(s) /\ s \in [1..Len(s) -> Messages]
  BY LenProperties
<1>2. t = [s EXCEPT ![k] = [s[k] EXCEPT !.parameter = v]]
  BY DEF Garbled
<1>3. [s[k] EXCEPT !.parameter = v] \in Messages
  BY <1>1 DEF Messages, Parameters
<1>4. t \in [1..Len(s) -> Messages] /\ DOMAIN t = DOMAIN s
  BY <1>1, <1>2, <1>3
<1>5. t \in Seq(Messages)
  BY <1>1, <1>4, SeqDef
<1>6. t[k].parameter = v /\ \A i \in DOMAIN s : i # k => t[i] = s[i]
  BY <1>1, <1>2 DEF Messages
<1> HIDE DEF t
<1>7. \A m \in FlightSignals \cup {Ready} : m.parameter \notin {"valid", "invalid", "cut"}
  BY DEF FlightSignals, FlightAck, RouteAllowed, FlightEnds, Ready, Signal
<1>8. \A m \in FlightSignals \cup {Ready} : \A i \in DOMAIN s : t[i] = m <=> s[i] = m
  BY <1>6, <1>7 DEF Contents
<1>9. \A m \in FlightSignals \cup {Ready} :
        /\ Holds(t, m) <=> Holds(s, m)
        /\ Once(s, m) => Once(t, m)
  BY <1>4, <1>8 DEF Holds, Once
<1>10. ASSUME InOrder(s) PROVE InOrder(t)
  <2> SUFFICES ASSUME NEW i \in DOMAIN s, NEW j \in DOMAIN s, i < j,
                      t[i] \in FlightSignals, t[j] \in FlightSignals
               PROVE  Precedes(t[i], t[j])
    BY <1>4 DEF InOrder
  <2>1. t[i] = s[i] /\ t[j] = s[j]
    BY <1>8
  <2> QED BY <1>10, <2>1 DEF InOrder
<1> QED BY <1>5, <1>9, <1>10 DEF t
-----------------------------------------------------------------------------
(***************************************************************************)
(* What the application's steps do to the flight.                          *)
(***************************************************************************)
LEMMA PlainMessages ==
  ASSUME NEW c \in Commands, NEW p \in Parameters
  PROVE  /\ Payload(c, p) \in Messages \ (FlightSignals \cup {Ready})
         /\ Frame(c) \in Messages \ (FlightSignals \cup {Ready})
         /\ c # "FLIGHT_LOOP" \/ p \notin {"ACK", "VIA_ROUTE_ALLOWED", "BREAK_ACK", "READY"} =>
              Signal(c, p) \in Messages \ (FlightSignals \cup {Ready})
  BY SignalsAreMessages, OtherSignals

(* It stays in a flight under way, and comes no nearer to one.             *)
KeepsFlight ==
    /\ Flies => Flies'
    /\ Waits({"WAITING_FOR_CONTROLS", "WAITING_FOR_ROUTE_COMMAND", "WAITING_FOR_ROUTE"})' =>
         UNCHANGED <<action, state>>

LEMMA CalmStep ==
  ASSUME FlightInv, UNCHANGED <<board, stage>>, KeepsFlight, InOrder(down'),
         \A m \in FlightSignals : Holds(down', m) => Holds(down, m),
         Holds(up', Ready) => Holds(up, Ready) /\ Once(up', Ready)
  PROVE  FlightInv'
<1>1. /\ Allowed' = Allowed /\ Acked' = Acked /\ (NoneIn(down) => NoneIn(down)')
      /\ FlightAck \in FlightSignals /\ RouteAllowed \in FlightSignals /\ FlightEnds \in FlightSignals
  BY DEF Allowed, Acked, NoneIn, FlightSignals
<1>2. /\ InOrder(down)' /\ (Holds(down, FlightAck)' => Acked') /\ (Holds(down, RouteAllowed)' => Allowed')
      /\ (Holds(down, FlightEnds)' => Flies')
  BY <1>1 DEF FlightInv, KeepsFlight, FlightAck, RouteAllowed, FlightEnds, Holds, InOrder, FlightSignals,
              Precedes, Signal
<1>3. Waits({"WAITING_FOR_CONTROLS", "WAITING_FOR_ROUTE_COMMAND"})' => Acked' /\ ~Holds(down, FlightAck)'
  <2>1. Holds(down, FlightAck)' => Holds(down, FlightAck)
    BY <1>1 DEF Holds, FlightAck, Signal
  <2> QED BY <1>1, <2>1 DEF FlightInv, KeepsFlight, Waits
<1>4. Waits({"WAITING_FOR_ROUTE"})' => Allowed' /\ NoneIn(down)'
  BY <1>1 DEF FlightInv, KeepsFlight, Waits
<1>5. /\ Holds(up, Ready)' => Flies' /\ Allowed' /\ NoneIn(down)' /\ Once(up, Ready)'
      /\ stage' = "RUNNING" => Flies' /\ NoneIn(down)' /\ ~Holds(up, Ready)'
  <2>1. (Holds(up, Ready)' => Holds(up, Ready)) /\ (Holds(up, Ready)' => Once(up, Ready)')
    BY DEF Holds, Once, Ready, Signal
  <2> QED BY <1>1, <2>1 DEF FlightInv, KeepsFlight
<1> QED BY <1>2, <1>3, <1>4, <1>5 DEF FlightInv

(* A message is handled that is none of the flight's in a state that waits *)
(* for it.                                                                 *)
LEMMA CalmAnswer ==
  ASSUME SessionInv, UNCHANGED boardSide, NEW m, AppHears(m), NEW ms, Plain(ms), AppAnswers(ms),
         record' \in Contents, KeepsFlight
  PROVE  SessionInv'
<1>1. /\ LinkInv' /\ status' = "open" /\ boardNews' = <<>> /\ status = "open" /\ boardNews = <<>>
      /\ down # <<>> /\ down' = Tail(down) /\ up' = up \o ms
      /\ down \in Seq(Messages) /\ up \in Seq(Messages)
  BY AppAnswersLink DEF SessionInv, Plain, LinkInv
<1>2. FlightInv
  BY <1>1 DEF SessionInv, ShareInv
<1>3. InOrder(down') /\ \A n \in FlightSignals : Holds(down', n) => Holds(down, n)
  BY <1>1, <1>2, HeldInTail DEF FlightInv
<1>4. Holds(up', Ready) => Holds(up, Ready) /\ Once(up', Ready)
  BY <1>1, <1>2, HeldInConcat DEF Plain, FlightInv
<1>5. FlightInv'
  BY <1>2, <1>3, <1>4, CalmStep DEF boardSide
<1> QED BY <1>1, <1>5 DEF SessionInv, ShareInv

(* A message is sent unasked.                                              *)
LEMMA CalmSending ==
  ASSUME SessionInv, UNCHANGED boardSide, NEW ms, Plain(ms), AppSends(ms), record' \in Contents,
         action' \in {action, "DISCONNECT"} \/ action = "APP_LOOP", KeepsFlight
  PROVE  SessionInv'
<1>1. LinkInv' /\ UNCHANGED <<status, boardNews, down>> /\ (status = "open" => up' = up \o ms)
  BY AppSendsLink DEF SessionInv, Plain
<1>2. SUFFICES ASSUME status = "open" PROVE ShareInv'
  BY <1>1 DEF SessionInv, ShareInv
<1>3. up \in Seq(Messages) /\ up' = up \o ms
  BY <1>1, <1>2 DEF SessionInv, LinkInv
<1>4. Holds(up', Ready) => Holds(up, Ready)
  BY <1>3, HeldInConcat DEF Plain
<1>5. CASE boardNews = <<>>
  <2>1. FlightInv
    BY <1>2, <1>5 DEF SessionInv, ShareInv
  <2>2. Once(up', Ready) \/ ~Holds(up', Ready)
    BY <1>3, <1>4, <2>1, HeldInConcat DEF Plain, FlightInv
  <2>3. InOrder(down') /\ \A n \in FlightSignals : Holds(down', n) => Holds(down, n)
    BY <1>1, <2>1 DEF FlightInv
  <2>4. FlightInv'
    BY <1>4, <2>1, <2>2, <2>3, CalmStep DEF boardSide
  <2> QED BY <1>1, <1>5, <2>4 DEF ShareInv
<1>6. CASE boardNews # <<>>
  <2>1. ~Holds(up', Ready)
    BY <1>2, <1>4, <1>6 DEF SessionInv, ShareInv
  <2> QED BY <1>1, <1>6, <2>1 DEF ShareInv, Holds, Ready, Signal
<1> QED BY <1>5, <1>6

(* Nothing is sent, and nothing heard.                                     *)
LEMMA CalmState ==
  ASSUME SessionInv, UNCHANGED boardSide, LinkInv', UNCHANGED <<status, up, down, boardNews>>, KeepsFlight
  PROVE  SessionInv'
<1>1. SUFFICES ASSUME status = "open", boardNews = <<>> PROVE FlightInv'
  BY DEF SessionInv, ShareInv, Holds, Ready, Signal
<1>2. FlightInv
  BY <1>1 DEF SessionInv, ShareInv
<1>3. /\ InOrder(down') /\ \A n \in FlightSignals : Holds(down', n) => Holds(down, n)
      /\ Holds(up', Ready) => Holds(up, Ready) /\ Once(up', Ready)
  BY <1>2 DEF FlightInv
<1> QED BY <1>2, <1>3, CalmStep DEF boardSide

(* Without a connection nothing is left to keep.                           *)
LEMMA NoLongerOpen ==
  ASSUME LinkInv', status' # "open"
  PROVE  SessionInv'
  BY DEF SessionInv, ShareInv

LEMMA InterfaceStep ==
  ASSUME SessionInv, UNCHANGED boardSide, NEW heard, Left(heard), DisconnectInterface(heard),
         record' \in Contents, action' \in {action, "DISCONNECT"}, KeepsFlight
  PROVE  SessionInv'
<1>1. LinkInv' /\ (status' = "closed" \/ UNCHANGED <<status, up, down, boardNews>>)
  BY InterfaceLink DEF SessionInv
<1> QED BY <1>1, CalmState, NoLongerOpen

LEMMA OutsideFlight ==
  ASSUME action # "FLIGHT_LOOP", action' # "FLIGHT_LOOP" \/ state' = "INITIAL_COMMAND"
  PROVE  KeepsFlight
  BY DEF KeepsFlight, Flies, Waits

LEMMA SameFlight ==
  ASSUME UNCHANGED <<action, state>>
  PROVE  KeepsFlight
  BY DEF KeepsFlight, Flies
-----------------------------------------------------------------------------
(***************************************************************************)
(* The application's handlers.                                             *)
(***************************************************************************)
LEMMA MovesOn ==
  ASSUME SessionInv, UNCHANGED boardSide, NEW s, NEW m, NEW ms, Plain(ms), NEW t,
         \/ Moves(s, m, ms, t) /\ (action # "FLIGHT_LOOP" \/ s = t)
         \/ Ends(s, m, ms) /\ action # "FLIGHT_LOOP"
  PROVE  SessionInv'
<1>1. AppHears(m) /\ AppAnswers(ms) /\ UNCHANGED record
  BY DEF Moves, Ends, Goto, own, ToAppLoop
<1>2. KeepsFlight
  BY OutsideFlight, SameFlight DEF Moves, Ends, Goto, ToAppLoop
<1>3. record' \in Contents
  BY <1>1 DEF SessionInv, LinkInv
<1> QED BY <1>1, <1>2, <1>3, CalmAnswer

LEMMA RefusesOn ==
  ASSUME SessionInv, UNCHANGED boardSide, NEW s, NEW c \in Commands, Refuses(s, c)
  PROVE  SessionInv'
<1>1. Plain(<<Signal(c, "DATA_INVALID")>>)
  BY PlainMessages, PlainAnswers DEF Parameters
<1> QED BY <1>1, MovesOn DEF Refuses

LEMMA HandlersNames ==
  /\ "START_CMD" \in Commands /\ "APP_LOOP" \in Commands /\ "CALIBRATION_SETTINGS" \in Commands
  /\ "CONTROL_SETTINGS" \in Commands /\ "ROUTE_CONTAINER" \in Commands /\ "PING_VALUE" \in Commands
  /\ "CONTROL" \in Commands /\ "STOP" \in Commands /\ Procedures \subseteq Commands
  /\ "START" \in Parameters /\ "ACK" \in Parameters /\ "READY" \in Parameters /\ "DONE" \in Parameters
  /\ "SKIP" \in Parameters /\ "BREAK" \in Parameters /\ "BREAK_ACK" \in Parameters
  /\ "DATA_INVALID" \in Parameters /\ "TIMEOUT" \in Parameters /\ "VIA_ROUTE_ALLOWED" \in Parameters
  /\ "value" \in Parameters /\ "none" \in Parameters
  /\ Contents \subseteq Parameters /\ Arrivals \subseteq Parameters
  BY DEF Commands, Parameters, Contents, Arrivals

LEMMA PlainParts ==
  /\ \A c \in Commands : \A p \in Parameters :
       Plain(<<Payload(c, p)>>) /\ Plain(<<Frame(c)>>)
  /\ \A c \in Commands : \A p \in Parameters :
       c # "FLIGHT_LOOP" \/ p \notin {"ACK", "VIA_ROUTE_ALLOWED", "BREAK_ACK", "READY"} =>
         Plain(<<Signal(c, p)>>)
  /\ Plain(<<>>)
  /\ Plain(<<Signal("CALIBRATION_SETTINGS", "ACK"), Signal("APP_LOOP", "START")>>)
<1>1. ASSUME NEW c \in Commands, NEW p \in Parameters
      PROVE  /\ Plain(<<Payload(c, p)>>) /\ Plain(<<Frame(c)>>) /\ Plain(<<>>)
             /\ c # "FLIGHT_LOOP" \/ p \notin {"ACK", "VIA_ROUTE_ALLOWED", "BREAK_ACK", "READY"} =>
                  Plain(<<Signal(c, p)>>)
  BY PlainMessages, PlainAnswers
<1>2. Plain(<<Signal("CALIBRATION_SETTINGS", "ACK"), Signal("APP_LOOP", "START")>>)
  <2>1. /\ Signal("CALIBRATION_SETTINGS", "ACK") \in Messages \ (FlightSignals \cup {Ready})
        /\ Signal("APP_LOOP", "START") \in Messages \ (FlightSignals \cup {Ready})
    BY PlainMessages, HandlersNames
  <2> QED BY <2>1, PlainAnswers
<1>3. Plain(<<>>)
  BY <1>1, HandlersNames
<1> QED BY <1>1, <1>2, <1>3

LEMMA ConnectKeepsSession ==
  ASSUME SessionInv, UNCHANGED boardSide, HandleConnect
  PROVE  SessionInv'
<1>1. action # "FLIGHT_LOOP"
  BY DEF HandleConnect
<1>2. CASE /\ state = "INITIAL_COMMAND" /\ AppHears(Signal("START_CMD", "ACK")) /\ AppAnswers(<<>>)
           /\ UNCHANGED <<action, record>>
  <2>1. KeepsFlight /\ record' \in Contents
    BY <1>1, <1>2, OutsideFlight DEF SessionInv, LinkInv
  <2> QED BY <1>2, <2>1, PlainParts, CalmAnswer
<1>3. CASE Refuses("WAITING_FOR_CALIBRATION_DATA", "CALIBRATION_SETTINGS")
  BY <1>3, RefusesOn, HandlersNames
<1>4. CASE Moves("WAITING_FOR_CALIBRATION", Signal("CALIBRATION_SETTINGS", "READY"), <<>>,
                 "WAITING_FOR_CALIBRATION_DATA")
  BY <1>1, <1>4, MovesOn, PlainParts
<1>5. CASE Moves("WAITING_FOR_CALIBRATION_DATA", Payload("CALIBRATION_SETTINGS", "valid"),
                 <<Signal("CALIBRATION_SETTINGS", "ACK"), Signal("APP_LOOP", "START")>>, "FINAL_COMMAND")
  BY <1>1, <1>5, MovesOn, PlainParts
<1>6. CASE Ends("FINAL_COMMAND", Signal("APP_LOOP", "ACK"), <<>>)
  BY <1>1, <1>6, MovesOn, PlainParts
<1> QED BY <1>2, <1>3, <1>4, <1>5, <1>6 DEF HandleConnect

LEMMA DisconnectKeepsSession ==
  ASSUME SessionInv, UNCHANGED boardSide, HandleDisconnect
  PROVE  SessionInv'
<1>1. AppHears(Signal("APP_LOOP", "BREAK_ACK")) /\ action = "DISCONNECT" /\ UNCHANGED <<action, record>>
  BY DEF HandleDisconnect
<1>2. KeepsFlight /\ record' \in Contents
  BY <1>1, OutsideFlight DEF SessionInv, LinkInv
<1>3. CASE AppAnswers(<<>>)
  BY <1>1, <1>2, <1>3, PlainParts, CalmAnswer
<1>4. CASE Disconnect(appNews)
  <2>1. LinkInv' /\ status' = "closed"
    BY <1>1, <1>2, <1>4, DisconnectLink DEF SessionInv, Left
  <2> QED BY <2>1, NoLongerOpen
<1> QED BY <1>3, <1>4 DEF HandleDisconnect

LEMMA CalibrationsKeepSession ==
  ASSUME SessionInv, UNCHANGED boardSide, HandleAccel \/ HandleMagnet
  PROVE  SessionInv'
<1>1. action # "FLIGHT_LOOP"
  BY DEF HandleAccel, HandleMagnet
<1>2. /\ Plain(<<>>) /\ Plain(<<Signal("CALIBRATION_SETTINGS", "ACK")>>)
      /\ Plain(<<Signal("CALIBRATION_SETTINGS", "DATA_INVALID")>>)
      /\ "CALIBRATION_SETTINGS" \in Commands
  BY PlainParts, HandlersNames
<1>3. CASE HandleAccel
  BY <1>1, <1>2, <1>3, MovesOn, RefusesOn DEF HandleAccel
<1>4. CASE HandleMagnet
  <2>1. CASE /\ AppHears(Payload("CALIBRATION_SETTINGS", "invalid"))
             /\ AppAnswers(<<Signal("CALIBRATION_SETTINGS", "DATA_INVALID")>>) /\ ToAppLoop
    <3>1. KeepsFlight /\ record' \in Contents
      BY <1>1, <2>1, OutsideFlight DEF SessionInv, LinkInv, ToAppLoop
    <3> QED BY <1>2, <2>1, <3>1, CalmAnswer
  <2>2. CASE \/ Moves("INITIAL_COMMAND", Signal("CALIBRATE_MAGNET", "ACK"), <<>>, "WAITING_FOR_USER_COMMAND")
             \/ Moves("WAITING_FOR_CALIBRATION", Signal("CALIBRATE_MAGNET", "DONE"), <<>>,
                      "WAITING_FOR_CALIBRATION_DATA")
             \/ Ends("WAITING_FOR_CALIBRATION_DATA", Payload("CALIBRATION_SETTINGS", "valid"),
                     <<Signal("CALIBRATION_SETTINGS", "ACK")>>)
             \/ Ends("WAITING_FOR_CANCEL_ACK", Signal("CALIBRATE_MAGNET", "ACK"), <<>>)
    BY <1>1, <1>2, <2>2, MovesOn
  <2> QED BY <1>4, <2>1, <2>2 DEF HandleMagnet
<1> QED BY <1>3, <1>4

LEMMA TransfersKeepSession ==
  ASSUME SessionInv, UNCHANGED boardSide,
         \/ HandleDownloadSettings \/ HandleDownloadRoute
         \/ HandleUploadSettings \/ HandleUploadRoute
  PROVE  SessionInv'
<1>1. action # "FLIGHT_LOOP" /\ record \in Contents
  BY DEF HandleDownloadSettings, HandleDownloadRoute, HandleUploadSettings, HandleUploadRoute,
         SessionInv, LinkInv
<1>2. /\ Plain(<<>>) /\ Plain(<<Signal("CONTROL_SETTINGS", "ACK")>>)
      /\ Plain(<<Payload("CONTROL_SETTINGS", record)>>) /\ Plain(<<Payload("ROUTE_CONTAINER", record)>>)
      /\ "CONTROL_SETTINGS" \in Commands
  BY <1>1, PlainParts, HandlersNames
<1>3. Plain(<<Signal("DOWNLOAD_SETTINGS", "ACK")>>) /\ Plain(<<Signal("DOWNLOAD_SETTINGS", "DATA_INVALID")>>)
  BY PlainParts, HandlersNames DEF Procedures
<1>4. CASE HandleDownloadSettings
  BY <1>1, <1>2, <1>4, MovesOn, RefusesOn DEF HandleDownloadSettings
<1>5. CASE HandleDownloadRoute
  <2>1. \A v : Plain(<<Signal("DOWNLOAD_SETTINGS", IF v = "valid" THEN "ACK" ELSE "DATA_INVALID")>>)
    BY <1>3
  <2> QED BY <1>1, <1>2, <1>5, <2>1, MovesOn DEF HandleDownloadRoute
<1>6. CASE HandleUploadSettings
  BY <1>1, <1>2, <1>6, MovesOn DEF HandleUploadSettings
<1>7. CASE HandleUploadRoute
  BY <1>1, <1>2, <1>7, MovesOn DEF HandleUploadRoute
<1> QED BY <1>4, <1>5, <1>6, <1>7
-----------------------------------------------------------------------------
(***************************************************************************)
(* The application in flight.                                              *)
(***************************************************************************)
LEMMA NextFlight ==
  ASSUME InOrder(down'),
         Holds(down', FlightAck) => Acked',
         Holds(down', RouteAllowed) => Allowed',
         Holds(down', FlightEnds) => Flies',
         Waits({"WAITING_FOR_CONTROLS", "WAITING_FOR_ROUTE_COMMAND"})' =>
           Acked' /\ ~Holds(down', FlightAck),
         Waits({"WAITING_FOR_ROUTE"})' => Allowed' /\ NoneIn(down'),
         Holds(up', Ready) => Flies' /\ Allowed' /\ NoneIn(down') /\ Once(up', Ready),
         stage' = "RUNNING" => Flies' /\ NoneIn(down') /\ ~Holds(up', Ready)
  PROVE  FlightInv'
<1>1. InOrder(down)' /\ (NoneIn(down') => NoneIn(down)')
  BY DEF InOrder, NoneIn, FlightSignals, FlightAck, RouteAllowed, FlightEnds, Signal, Precedes, Holds
<1>2. /\ Holds(down, FlightAck)' => Holds(down', FlightAck)
      /\ Holds(down, RouteAllowed)' => Holds(down', RouteAllowed)
      /\ Holds(down, FlightEnds)' => Holds(down', FlightEnds)
      /\ Holds(up, Ready)' => Holds(up', Ready)
      /\ Once(up', Ready) => Once(up, Ready)'
  BY DEF Holds, Once, FlightAck, RouteAllowed, FlightEnds, Ready, Signal
<1> QED BY <1>1, <1>2 DEF FlightInv

LEMMA InFlight ==
  ASSUME SessionInv, UNCHANGED boardSide, NEW m, AppHears(m), NEW ms \in Seq(Messages), AppAnswers(ms),
         record' \in Contents
  PROVE  /\ FlightInv /\ (FlightInv' => SessionInv')
         /\ InOrder(down') /\ Holds(down, m)
         /\ \A n : Holds(down', n) => Holds(down, n)
         /\ m \in FlightSignals => \A n \in FlightSignals : Holds(down', n) => Precedes(m, n)
         /\ Holds(up', Ready) => Holds(up, Ready) \/ Holds(ms, Ready)
         /\ ~Holds(up, Ready) /\ Once(ms, Ready) => Once(up', Ready)
         /\ Acked' = Acked /\ Allowed' = Allowed
<1>1. /\ LinkInv' /\ status' = "open" /\ boardNews' = <<>> /\ status = "open" /\ boardNews = <<>>
      /\ down # <<>> /\ m = Head(down) /\ down' = Tail(down) /\ up' = up \o ms
      /\ down \in Seq(Messages) /\ up \in Seq(Messages)
  BY AppAnswersLink DEF SessionInv, LinkInv
<1>2. FlightInv
  BY <1>1 DEF SessionInv, ShareInv
<1>3. FlightInv' => SessionInv'
  BY <1>1 DEF SessionInv, ShareInv
<1>4. /\ InOrder(down') /\ Holds(down, m)
      /\ \A n : Holds(down', n) => Holds(down, n)
      /\ m \in FlightSignals => \A n \in FlightSignals : Holds(down', n) => Precedes(m, n)
  BY <1>1, <1>2, HeldInTail DEF FlightInv
<1>5. /\ Holds(up', Ready) => Holds(up, Ready) \/ Holds(ms, Ready)
      /\ ~Holds(up, Ready) /\ Once(ms, Ready) => Once(up', Ready)
  BY <1>1, HeldInConcat
<1>6. Acked' = Acked /\ Allowed' = Allowed
  BY DEF boardSide, Acked, Allowed
<1> QED BY <1>2, <1>3, <1>4, <1>5, <1>6

LEMMA FlightKeepsSession ==
  ASSUME SessionInv, UNCHANGED boardSide, HandleFlight
  PROVE  SessionInv'
<1>1. action = "FLIGHT_LOOP" /\ record \in Contents /\ UNCHANGED stage
  BY DEF HandleFlight, SessionInv, LinkInv, boardSide
<1>2. /\ Plain(<<>>) /\ Plain(<<Signal("CONTROL_SETTINGS", "ACK")>>) /\ <<>> \in Seq(Messages)
      /\ <<Signal("CONTROL_SETTINGS", "ACK")>> \in Seq(Messages)
      /\ ~Holds(<<>>, Ready) /\ ~Holds(<<Signal("CONTROL_SETTINGS", "ACK")>>, Ready)
  BY PlainParts, HandlersNames DEF Plain
<1>3. CASE Moves("INITIAL_COMMAND", Signal("FLIGHT_LOOP", "ACK"), <<>>, "WAITING_FOR_CONTROLS")
  <2>1. /\ AppHears(FlightAck) /\ AppAnswers(<<>>) /\ record' \in Contents
        /\ action' = "FLIGHT_LOOP" /\ state' = "WAITING_FOR_CONTROLS" /\ ~Flies
    BY <1>1, <1>3 DEF Moves, Goto, own, FlightAck, Flies
  <2>2. ~Waits({"WAITING_FOR_ROUTE"})'
    BY <2>1 DEF Waits
  <2>3. /\ FlightInv /\ (FlightInv' => SessionInv') /\ InOrder(down') /\ Holds(down, FlightAck)
        /\ \A n : Holds(down', n) => Holds(down, n)
        /\ \A n \in FlightSignals : Holds(down', n) => Precedes(FlightAck, n)
        /\ Holds(up', Ready) => Holds(up, Ready)
        /\ Acked' = Acked /\ Allowed' = Allowed
    BY <1>2, <2>1, InFlight DEF FlightSignals
  <2>4. ~Holds(down', FlightAck)
    BY <2>3, FlightSignalsDiffer DEF Precedes, FlightSignals
  <2> QED BY <1>1, <2>1, <2>2, <2>3, <2>4, NextFlight DEF FlightInv
<1>4. CASE Moves("WAITING_FOR_CONTROLS", Payload("CONTROL_SETTINGS", "valid"),
                 <<Signal("CONTROL_SETTINGS", "ACK")>>, "WAITING_FOR_ROUTE_COMMAND")
  <2>1. /\ AppHears(Payload("CONTROL_SETTINGS", "valid")) /\ AppAnswers(<<Signal("CONTROL_SETTINGS", "ACK")>>)
        /\ record' \in Contents /\ ~Flies
        /\ action' = "FLIGHT_LOOP" /\ state' = "WAITING_FOR_ROUTE_COMMAND"
        /\ Waits({"WAITING_FOR_CONTROLS", "WAITING_FOR_ROUTE_COMMAND"})
    BY <1>1, <1>4 DEF Moves, Goto, own, Flies, Waits
  <2>2. ~Waits({"WAITING_FOR_ROUTE"})'
    BY <2>1 DEF Waits
  <2>3. /\ FlightInv /\ (FlightInv' => SessionInv') /\ InOrder(down')
        /\ \A n : Holds(down', n) => Holds(down, n)
        /\ Holds(up', Ready) => Holds(up, Ready)
        /\ Acked' = Acked /\ Allowed' = Allowed
    BY <1>2, <2>1, InFlight
  <2> QED BY <1>1, <2>1, <2>2, <2>3, NextFlight DEF FlightInv
<1>5. CASE Moves("WAITING_FOR_ROUTE_COMMAND", Signal("FLIGHT_LOOP", "VIA_ROUTE_ALLOWED"), <<>>,
                 "WAITING_FOR_ROUTE")
  <2>1. /\ AppHears(RouteAllowed) /\ AppAnswers(<<>>) /\ record' \in Contents /\ ~Flies
        /\ action' = "FLIGHT_LOOP" /\ state' = "WAITING_FOR_ROUTE"
        /\ Waits({"WAITING_FOR_CONTROLS", "WAITING_FOR_ROUTE_COMMAND"})
    BY <1>1, <1>5 DEF Moves, Goto, own, Flies, Waits, RouteAllowed
  <2>2. ~Waits({"WAITING_FOR_CONTROLS", "WAITING_FOR_ROUTE_COMMAND"})'
    BY <2>1 DEF Waits
  <2>3. /\ FlightInv /\ (FlightInv' => SessionInv') /\ InOrder(down') /\ Holds(down, RouteAllowed)
        /\ \A n : Holds(down', n) => Holds(down, n)
        /\ \A n \in FlightSignals : Holds(down', n) => Precedes(RouteAllowed, n)
        /\ Holds(up', Ready) => Holds(up, Ready)
        /\ Acked' = Acked /\ Allowed' = Allowed
    BY <1>2, <2>1, InFlight DEF FlightSignals
  <2>4. Allowed /\ ~Holds(down, FlightAck) /\ ~Holds(down, FlightEnds) /\ ~Holds(up, Ready) /\ stage # "RUNNING"
    BY <2>1, <2>3 DEF FlightInv
  <2>5. NoneIn(down')
    BY <2>3, <2>4, FlightSignalsDiffer DEF Precedes, FlightSignals, NoneIn
  <2> QED BY <1>1, <2>2, <2>3, <2>4, <2>5, NextFlight DEF NoneIn, FlightSignals
<1>6. CASE /\ state = "WAITING_FOR_ROUTE" /\ AppHears(Payload("ROUTE_CONTAINER", "valid"))
           /\ AppAnswers(<<Signal("ROUTE_CONTAINER", "ACK"), Ready>>)
           /\ state' = "FLING" /\ UNCHANGED <<action, record>>
  <2> DEFINE ms == <<Signal("ROUTE_CONTAINER", "ACK"), Ready>>
  <2>1. ms \in Seq(Messages) /\ Once(ms, Ready)
    <3>1. Signal("ROUTE_CONTAINER", "ACK") \in Messages /\ Signal("ROUTE_CONTAINER", "ACK") # Ready
      BY PlainMessages, HandlersNames
    <3>2. Ready \in Messages
      BY SignalsAreMessages, HandlersNames DEF Ready, Procedures
    <3> QED BY <3>1, <3>2, HeldInAnswers
  <2>2. Flies' /\ ~Flies /\ Waits({"WAITING_FOR_ROUTE"}) /\ record' \in Contents
    BY <1>1, <1>6 DEF Flies, Waits
  <2>3. ~Waits({"WAITING_FOR_ROUTE"})' /\ ~Waits({"WAITING_FOR_CONTROLS", "WAITING_FOR_ROUTE_COMMAND"})'
    BY <1>6 DEF Waits
  <2>4. /\ FlightInv /\ (FlightInv' => SessionInv') /\ InOrder(down')
        /\ \A n : Holds(down', n) => Holds(down, n)
        /\ ~Holds(up, Ready) => Once(up', Ready)
        /\ Acked' = Acked /\ Allowed' = Allowed
    BY <1>6, <2>1, <2>2, InFlight
  <2>5. Allowed /\ NoneIn(down) /\ ~Holds(up, Ready) /\ stage # "RUNNING"
    BY <2>2, <2>4 DEF FlightInv
  <2>6. NoneIn(down')
    BY <2>4, <2>5 DEF NoneIn
  <2> QED BY <1>1, <2>2, <2>3, <2>4, <2>5, <2>6, NextFlight DEF NoneIn, FlightSignals
<1>7. CASE Refuses("WAITING_FOR_CONTROLS", "CONTROL_SETTINGS") \/ Refuses("WAITING_FOR_ROUTE", "ROUTE_CONTAINER")
  BY <1>7, RefusesOn, HandlersNames
<1>8. CASE HandleSignalWhileFlying
  <2>1. PICK p \in {"ACK", "VIA_ROUTE_ALLOWED", "BREAK_ACK"} : AppHears(Signal("FLIGHT_LOOP", p))
    BY <1>8 DEF HandleSignalWhileFlying
  <2> DEFINE m == Signal("FLIGHT_LOOP", p)
  <2>2. m \in FlightSignals /\ AppAnswers(<<>>)
    BY <1>8 DEF FlightSignals, FlightAck, RouteAllowed, FlightEnds, HandleSignalWhileFlying
  <2>3. CASE UNCHANGED app
    BY <1>1, <1>2, <2>1, <2>2, <2>3, SameFlight, CalmAnswer DEF app
  <2>4. CASE action' = "APP_LOOP" /\ UNCHANGED record
    <3> HIDE DEF m
    <3>1. /\ FlightInv /\ (FlightInv' => SessionInv') /\ InOrder(down') /\ Holds(down, m)
          /\ \A n : Holds(down', n) => Holds(down, n)
          /\ \A n \in FlightSignals : Holds(down', n) => Precedes(m, n)
          /\ Holds(up', Ready) => Holds(up, Ready)
          /\ Acked' = Acked /\ Allowed' = Allowed
      <4>1. AppHears(m) /\ record' \in Contents
        BY <1>1, <2>1, <2>4 DEF m
      <4> QED BY <1>2, <2>2, <4>1, InFlight
    <3>2. ~Holds(up, Ready) /\ stage # "RUNNING"
      BY <2>2, <3>1 DEF FlightInv, NoneIn
    <3>3. ~Holds(down', FlightEnds)
      BY <3>1 DEF Precedes, FlightSignals
    <3>4. ~Waits({"WAITING_FOR_ROUTE"})' /\ ~Waits({"WAITING_FOR_CONTROLS", "WAITING_FOR_ROUTE_COMMAND"})'
      BY <2>4 DEF Waits
    <3> QED BY <1>1, <3>1, <3>2, <3>3, <3>4, NextFlight DEF FlightInv
  <2> QED BY <1>8, <2>3, <2>4 DEF HandleSignalWhileFlying
<1> QED BY <1>1, <1>3, <1>4, <1>5, <1>6, <1>7, <1>8 DEF HandleFlight, Ready

LEMMA DropKeepsSession ==
  ASSUME SessionInv, UNCHANGED boardSide, DropEvent
  PROVE  SessionInv'
<1>1. AppHears(Head(down)) /\ AppAnswers(<<>>) /\ record' \in Contents /\ UNCHANGED <<action, state>>
  BY DEF DropEvent, app, SessionInv, LinkInv
<1> QED BY <1>1, PlainParts, SameFlight, CalmAnswer

LEMMA EventKeepsSession ==
  ASSUME SessionInv, UNCHANGED boardSide, HandleCommEvent
  PROVE  SessionInv'
  BY ConnectKeepsSession, DisconnectKeepsSession, FlightKeepsSession, CalibrationsKeepSession,
     TransfersKeepSession, DropKeepsSession DEF HandleCommEvent
-----------------------------------------------------------------------------
(***************************************************************************)
(* The user, the callbacks and the timers of the application.              *)
(***************************************************************************)
LEMMA UserKeepsSession ==
  ASSUME SessionInv, UNCHANGED boardSide, UserCalls
  PROVE  SessionInv'
<1>1. LinkInv /\ record \in Contents /\ Left(appNews)
  BY DEF SessionInv, LinkInv, Left
<1>2. CASE ConnectInterface
  <2>1. LinkInv' /\ boardNews' # <<>> /\ up' = <<>>
    BY <1>1, <1>2, OpensLink DEF ConnectInterface
  <2> QED BY <2>1, NothingHeld DEF SessionInv, ShareInv, Holds, Ready, Signal
<1>3. CASE DisconnectApplicationLoop
  <2>1. action' \in {action, "DISCONNECT"} /\ record' \in Contents
    BY <1>1, <1>3 DEF DisconnectApplicationLoop
  <2>2. KeepsFlight
    <3>1. CASE IsActionDone
      BY <1>3, <3>1, OutsideFlight DEF IsActionDone, DisconnectApplicationLoop
    <3>2. CASE ~IsActionDone
      BY <1>3, <3>2, SameFlight DEF DisconnectApplicationLoop
    <3> QED BY <3>1, <3>2
  <2>3. CASE AppSends(<<Signal("APP_LOOP", "BREAK")>>)
    <3>1. Plain(<<Signal("APP_LOOP", "BREAK")>>)
      BY PlainParts, HandlersNames
    <3> QED BY <2>1, <2>2, <2>3, <3>1, CalmSending
  <2>4. CASE DisconnectInterface(appNews)
    BY <1>1, <2>1, <2>2, <2>4, InterfaceStep
  <2> QED BY <1>3, <2>3, <2>4 DEF DisconnectApplicationLoop
<1>4. ASSUME NEW p \in Procedures, StartProcedure(p) PROVE SessionInv'
  <2>1. record' \in Contents /\ AppSends(<<Signal(p, "START")>>) /\ action = "APP_LOOP" /\ KeepsFlight
    BY <1>4, OutsideFlight DEF StartProcedure, Contents
  <2>2. Plain(<<Signal(p, "START")>>)
    BY PlainParts, HandlersNames
  <2> QED BY <2>1, <2>2, CalmSending
<1>5. CASE EndFlightLoop
  <2>1. UNCHANGED <<status, up, down, appNews, boardNews, action, record>> /\ state' = "BREAKING"
        /\ action = "FLIGHT_LOOP"
    BY <1>5 DEF EndFlightLoop, own, link
  <2>2. LinkInv'
    BY <1>1, <2>1 DEF LinkInv
  <2>3. KeepsFlight
    BY <2>1 DEF KeepsFlight, Flies, Waits
  <2> QED BY <2>1, <2>2, <2>3, CalmState
<1>6. ASSUME NEW p \in {"DONE", "SKIP"}, NEW s, UserCommand(p, s) PROVE SessionInv'
  <2>1. /\ action # "FLIGHT_LOOP" /\ UNCHANGED <<action, record>>
        /\ AppSends(<<Signal("CALIBRATE_MAGNET", p)>>)
    BY <1>6 DEF UserCommand, Goto, own
  <2>2. Plain(<<Signal("CALIBRATE_MAGNET", p)>>)
    BY PlainParts, HandlersNames DEF Procedures
  <2>3. KeepsFlight
    BY <2>1, OutsideFlight
  <2> QED BY <1>1, <2>1, <2>2, <2>3, CalmSending
<1> QED BY <1>2, <1>3, <1>4, <1>5, <1>6 DEF UserCalls

LEMMA ConnectedKeepsSession ==
  ASSUME SessionInv, UNCHANGED boardSide, OnConnected, IsActionDone
  PROVE  SessionInv'
<1> DEFINE ms == <<Signal("START_CMD", "START")>>
<1>1. /\ LinkInv' /\ UNCHANGED <<status, down, boardNews>>
      /\ status = "open" => up' = Append(up, Signal("START_CMD", "START"))
  BY ConnectedLink DEF SessionInv
<1>2. Plain(ms) /\ Signal("START_CMD", "START") \in Messages
  BY PlainParts, PlainMessages, HandlersNames
<1>3. SUFFICES ASSUME status = "open" PROVE ShareInv'
  BY <1>1 DEF SessionInv, ShareInv
<1>4. up \in Seq(Messages) /\ up' = up \o ms
  <2>1. up \in Seq(Messages)
    BY DEF SessionInv, LinkInv
  <2> QED BY <1>1, <1>2, <1>3, <2>1, AppendIsConcat
<1> HIDE DEF ms
<1>5. Holds(up', Ready) => Holds(up, Ready)
  BY <1>2, <1>4, HeldInConcat DEF Plain
<1>6. KeepsFlight
  BY OutsideFlight DEF IsActionDone, OnConnected
<1>7. CASE boardNews = <<>>
  <2>1. FlightInv
    BY <1>3, <1>7 DEF SessionInv, ShareInv
  <2>2. /\ Once(up', Ready) \/ ~Holds(up', Ready)
        /\ InOrder(down') /\ \A n \in FlightSignals : Holds(down', n) => Holds(down, n)
    BY <1>1, <1>2, <1>4, <1>5, <2>1, HeldInConcat DEF Plain, FlightInv
  <2>3. FlightInv'
    BY <1>5, <1>6, <2>1, <2>2, CalmStep DEF boardSide
  <2> QED BY <1>1, <1>7, <2>3 DEF ShareInv
<1>8. CASE boardNews # <<>>
  <2>1. ~Holds(up', Ready)
    BY <1>3, <1>5, <1>8 DEF SessionInv, ShareInv
  <2> QED BY <1>1, <1>8, <2>1 DEF ShareInv, Holds, Ready, Signal
<1> QED BY <1>7, <1>8

LEMMA CallbacksKeepSession ==
  ASSUME SessionInv, UNCHANGED boardSide, Callbacks
  PROVE  SessionInv'
<1>1. LinkInv /\ record \in Contents
  BY DEF SessionInv, LinkInv
<1>2. CASE OnConnected /\ ~IsActionDone
  <2>1. Left(Tail(appNews)) /\ DisconnectInterface(Tail(appNews)) /\ UNCHANGED <<action, state, record>>
    BY <1>2 DEF OnConnected, Calls, Left
  <2> QED BY <1>1, <2>1, SameFlight, InterfaceStep
<1>3. CASE OnDisconnected
  BY <1>1, <1>3, DisconnectedLink, NoLongerOpen
<1>4. CASE OnError
  <2>1. /\ Left(Tail(appNews)) /\ UNCHANGED <<action, state, record>>
        /\ Disconnect(Tail(appNews)) \/ OnlyHeard(Tail(appNews))
    BY <1>4 DEF OnError, Calls, Left
  <2>2. CASE Disconnect(Tail(appNews))
    <3>1. LinkInv' /\ status' = "closed"
      BY <1>1, <2>1, <2>2, DisconnectLink
    <3> QED BY <3>1, NoLongerOpen
  <2>3. CASE OnlyHeard(Tail(appNews))
    <3>1. LinkInv' /\ UNCHANGED <<status, up, down, boardNews>>
      BY <1>1, <2>1, <2>3, HeardLink
    <3> QED BY <2>1, <3>1, SameFlight, CalmState
  <2> QED BY <2>1, <2>2, <2>3
<1> QED BY <1>2, <1>3, <1>4, ConnectedKeepsSession DEF Callbacks

LEMMA TicksKeepSession ==
  ASSUME SessionInv, UNCHANGED boardSide, Ticks
  PROVE  SessionInv'
<1>1. LinkInv /\ record \in Contents /\ Left(appNews)
  BY DEF SessionInv, LinkInv, Left
<1>2. UNCHANGED <<action, state, record>>
  BY DEF Ticks, PingTick, ControlTick, ConnectTimeout, app
<1>3. KeepsFlight
  BY <1>2, SameFlight
<1>4. ASSUME NEW ms, Plain(ms), AppSends(ms) PROVE SessionInv'
  BY <1>1, <1>2, <1>3, <1>4, CalmSending
<1>5. Plain(<<Ping>>) /\ Plain(<<Frame("CONTROL")>>) /\ Plain(<<Frame("STOP")>>)
  BY PlainParts, HandlersNames DEF Ping
<1>6. CASE PingTick
  BY <1>4, <1>5, <1>6 DEF PingTick, SendsOnce
<1>7. CASE ControlTick
  <2>1. CASE SendsOnce(Frame(IF state = "BREAKING" THEN "STOP" ELSE "CONTROL"))
    BY <1>4, <1>5, <2>1 DEF SendsOnce
  <2>2. CASE UNCHANGED link
    <3>1. LinkInv' /\ UNCHANGED <<status, up, down, boardNews>>
      BY <1>1, <1>2, <2>2 DEF LinkInv, link
    <3> QED BY <1>3, <3>1, CalmState
  <2> QED BY <1>7, <2>1, <2>2 DEF ControlTick
<1>8. CASE ConnectTimeout
  BY <1>1, <1>2, <1>3, <1>8, InterfaceStep DEF ConnectTimeout
<1> QED BY <1>6, <1>7, <1>8 DEF Ticks

LEMMA AppKeepsSession ==
  ASSUME SessionInv, UNCHANGED boardSide, AppNext
  PROVE  SessionInv'
  BY EventKeepsSession, UserKeepsSession, CallbacksKeepSession, TicksKeepSession DEF AppNext
-----------------------------------------------------------------------------
(***************************************************************************)
(* The board's handlers.                                                   *)
(***************************************************************************)
LEMMA BoardsNames ==
  /\ \A c, p : B!Signal(c, p) = Signal(c, p) /\ B!Payload(c, p) = Payload(c, p)
  /\ \A c : B!Frame(c) = Frame(c) /\ B!Ack(c) = <<Signal(c, "ACK")>>
  /\ B!Contents = Contents /\ B!Requests = Procedures
  BY DEF B!Signal, Signal, B!Payload, Payload, B!Frame, Frame, B!Ack, B!Contents, Contents,
         B!Requests, Procedures

LEMMA AtBoard ==
  ASSUME SessionInv, UNCHANGED app, NEW m, B!BoardHears(m), NEW ms \in Seq(Messages), B!BoardAnswers(ms)
  PROVE  /\ FlightInv /\ (FlightInv' => SessionInv')
         /\ Holds(up, m) /\ (Holds(up', Ready) => Holds(up, Ready))
         /\ Once(up, Ready) => Once(up', Ready) /\ (m = Ready => ~Holds(up', Ready))
         /\ down \in Seq(Messages) /\ down' = down \o ms
         /\ \A n : Holds(down', n) <=> Holds(down, n) \/ Holds(ms, n)
         /\ Flies' = Flies
         /\ Waits({"WAITING_FOR_CONTROLS", "WAITING_FOR_ROUTE_COMMAND"})'
              = Waits({"WAITING_FOR_CONTROLS", "WAITING_FOR_ROUTE_COMMAND"})
         /\ Waits({"WAITING_FOR_ROUTE"})' = Waits({"WAITING_FOR_ROUTE"})
<1>1. LinkInv /\ UNCHANGED <<action, state, record>>
  BY DEF SessionInv, app
<1>2. /\ LinkInv' /\ status = "open" /\ status' = "open" /\ boardNews = <<>> /\ boardNews' = <<>>
      /\ up # <<>> /\ m = Head(up) /\ up' = Tail(up) /\ down' = down \o ms
      /\ up \in Seq(Messages) /\ down \in Seq(Messages)
  BY <1>1, BoardAnswersLink DEF LinkInv
<1>3. FlightInv /\ (FlightInv' => SessionInv')
  BY <1>2 DEF SessionInv, ShareInv
<1>4. /\ Holds(up, m) /\ (Holds(up', Ready) => Holds(up, Ready))
      /\ Once(up, Ready) => Once(up', Ready) /\ (m = Ready => ~Holds(up', Ready))
  BY <1>2, HeldInTail
<1>5. \A n : Holds(down', n) <=> Holds(down, n) \/ Holds(ms, n)
  BY <1>2, HeldInConcat
<1> QED BY <1>1, <1>2, <1>3, <1>4, <1>5 DEF Flies, Waits

LEMMA CalmBoard ==
  ASSUME SessionInv, UNCHANGED app, NEW m, B!BoardHears(m), NEW ms, Plain(ms), B!BoardAnswers(ms),
         Acked => Acked', Allowed => Allowed', stage' = "RUNNING" => stage = "RUNNING"
  PROVE  SessionInv'
<1>1. ms \in Seq(Messages) /\ ~Holds(ms, Ready) /\ \A n \in FlightSignals : ~Holds(ms, n)
  BY DEF Plain, NoneIn
<1>2. /\ FlightInv /\ (FlightInv' => SessionInv') /\ (Holds(up', Ready) => Holds(up, Ready))
      /\ Once(up, Ready) => Once(up', Ready)
      /\ down \in Seq(Messages) /\ down' = down \o ms
      /\ \A n : Holds(down', n) <=> Holds(down, n) \/ Holds(ms, n)
      /\ Flies' = Flies
      /\ Waits({"WAITING_FOR_CONTROLS", "WAITING_FOR_ROUTE_COMMAND"})'
           = Waits({"WAITING_FOR_CONTROLS", "WAITING_FOR_ROUTE_COMMAND"})
      /\ Waits({"WAITING_FOR_ROUTE"})' = Waits({"WAITING_FOR_ROUTE"})
  BY <1>1, AtBoard
<1>3. InOrder(down')
  BY <1>2, PlainIsInOrder DEF FlightInv
<1>4. /\ \A n \in FlightSignals : Holds(down', n) => Holds(down, n)
      /\ NoneIn(down) => NoneIn(down')
  BY <1>1, <1>2 DEF NoneIn
<1>5. /\ Holds(down', FlightAck) => Holds(down, FlightAck)
      /\ Holds(down', RouteAllowed) => Holds(down, RouteAllowed)
      /\ Holds(down', FlightEnds) => Holds(down, FlightEnds)
  BY <1>4 DEF FlightSignals
<1> QED BY <1>2, <1>3, <1>4, <1>5, NextFlight DEF FlightInv

LEMMA BoardOutsideFlight ==
  ASSUME SessionInv, UNCHANGED app, NEW m, B!BoardReceives(m), NEW ms, Plain(ms), B!BoardAnswers(ms),
         \/ board # "FLIGHT_LOOP" /\ stage' # "RUNNING"
         \/ UNCHANGED <<board, stage>>
  PROVE  SessionInv'
<1>1. (Acked => Acked') /\ (Allowed => Allowed') /\ (stage' = "RUNNING" => stage = "RUNNING")
  BY DEF Acked, Allowed
<1> QED BY <1>1, CalmBoard DEF B!BoardReceives

(* A signal of the flight, and what the board sends after it.              *)
LEMMA FlightAnswer ==
  ASSUME NEW a \in FlightSignals, NEW c \in Commands, NEW v \in Arrivals
  PROVE  /\ <<a>> \in Seq(Messages) /\ InOrder(<<a>>)
         /\ \A n \in FlightSignals : Holds(<<a>>, n) <=> n = a
         /\ <<a>> \o <<Payload(c, v)>> \in Seq(Messages)
         /\ InOrder(<<a>> \o <<Payload(c, v)>>)
         /\ \A n \in FlightSignals : Holds(<<a>> \o <<Payload(c, v)>>, n) <=> n = a
<1> DEFINE b == Payload(c, v)
<1>1. a \in Messages
  BY SignalsAreMessages, HandlersNames DEF FlightSignals, FlightAck, RouteAllowed, FlightEnds, Procedures
<1>2. <<a>> \in Seq(Messages) /\ \A n : Holds(<<a>>, n) <=> n = a
  BY <1>1, HeldInAnswers
<1>3. InOrder(<<a>>)
  <2>1. DOMAIN <<a>> = 1..1
    OBVIOUS
  <2> QED BY <2>1 DEF InOrder
<1>4. Plain(<<b>>)
  BY PlainParts, HandlersNames DEF b
<1>5. <<a>> \o <<b>> \in Seq(Messages) /\ \A n : Holds(<<a>> \o <<b>>, n) <=> n = a \/ Holds(<<b>>, n)
  BY <1>2, <1>4, HeldInConcat DEF Plain
<1>6. InOrder(<<a>> \o <<b>>)
  BY <1>2, <1>3, <1>4, PlainIsInOrder
<1> QED BY <1>2, <1>3, <1>4, <1>5, <1>6 DEF b, Plain, NoneIn
-----------------------------------------------------------------------------
(***************************************************************************)
(* The flight at the board.                                                *)
(***************************************************************************)
LEMMA FlightBegins ==
  ASSUME SessionInv, UNCHANGED app, board = "APP_LOOP",
         B!Begin("FLIGHT_LOOP", "CONTROLS_ACK"), NEW v \in Arrivals,
         B!BoardAnswers(<<FlightAck>> \o <<Payload("CONTROL_SETTINGS", v)>>)
  PROVE  SessionInv'
<1> DEFINE ms == <<FlightAck>> \o <<Payload("CONTROL_SETTINGS", v)>>
<1>1. B!BoardHears(B!Signal("FLIGHT_LOOP", "START")) /\ B!BoardAnswers(ms)
  BY BoardsNames DEF B!Begin, B!BoardReceives, FlightAck
<1>2. board' = "FLIGHT_LOOP" /\ stage' = "CONTROLS_ACK"
  BY DEF B!Begin, B!Stage
<1>3. FlightAck \in FlightSignals /\ RouteAllowed \in FlightSignals /\ FlightEnds \in FlightSignals
  BY DEF FlightSignals
<1>4. /\ ms \in Seq(Messages) /\ InOrder(ms)
      /\ \A n \in FlightSignals : Holds(ms, n) <=> n = FlightAck
  BY <1>3, HandlersNames, FlightAnswer
<1> HIDE DEF ms
<1>5. /\ FlightInv /\ (FlightInv' => SessionInv') /\ (Holds(up', Ready) => Holds(up, Ready))
      /\ down \in Seq(Messages) /\ down' = down \o ms
      /\ \A n : Holds(down', n) <=> Holds(down, n) \/ Holds(ms, n)
      /\ Flies' = Flies
      /\ Waits({"WAITING_FOR_CONTROLS", "WAITING_FOR_ROUTE_COMMAND"})'
           = Waits({"WAITING_FOR_CONTROLS", "WAITING_FOR_ROUTE_COMMAND"})
      /\ Waits({"WAITING_FOR_ROUTE"})' = Waits({"WAITING_FOR_ROUTE"})
  BY <1>1, <1>4, AtBoard
<1>6. ~Acked /\ ~Allowed /\ Acked'
  BY <1>2 DEF Acked, Allowed
<1>7. ~Holds(down, FlightAck) /\ ~Holds(down, RouteAllowed) /\ ~Holds(up, Ready)
  BY <1>5, <1>6 DEF FlightInv
<1>8. InOrder(down')
  <2>1. ASSUME NEW m \in FlightSignals, NEW n \in FlightSignals, Holds(down, m), Holds(ms, n)
        PROVE  Precedes(m, n)
    <3>1. m = FlightEnds /\ n = FlightAck
      BY <1>4, <1>7, <2>1 DEF FlightSignals
    <3> QED BY <3>1, FlightSignalsDiffer DEF Precedes
  <2> QED BY <1>4, <1>5, <2>1, HeldInConcat DEF FlightInv
<1>9. /\ Holds(down', FlightEnds) => Flies' /\ ~Holds(down', RouteAllowed)
      /\ ~Holds(down', RouteAllowed)
  BY <1>3, <1>4, <1>5, <1>7, FlightSignalsDiffer DEF FlightInv
<1> QED BY <1>2, <1>5, <1>6, <1>7, <1>8, <1>9, NextFlight DEF FlightInv

LEMMA RouteIsAllowed ==
  ASSUME SessionInv, UNCHANGED app, board = "FLIGHT_LOOP", stage = "CONTROLS_ACK",
         B!Acknowledged("CONTROL_SETTINGS"), B!Stage(board, "ROUTE_ACK"), NEW v \in Arrivals,
         B!BoardAnswers(<<RouteAllowed>> \o <<Payload("ROUTE_CONTAINER", v)>>)
  PROVE  SessionInv'
<1> DEFINE ms == <<RouteAllowed>> \o <<Payload("ROUTE_CONTAINER", v)>>
<1>1. B!BoardHears(B!Signal("CONTROL_SETTINGS", "ACK")) /\ B!BoardAnswers(ms)
  BY BoardsNames DEF B!Acknowledged, B!BoardReceives, RouteAllowed
<1>2. board' = "FLIGHT_LOOP" /\ stage' = "ROUTE_ACK"
  BY DEF B!Stage
<1>3. FlightAck \in FlightSignals /\ RouteAllowed \in FlightSignals /\ FlightEnds \in FlightSignals
  BY DEF FlightSignals
<1>4. /\ ms \in Seq(Messages) /\ InOrder(ms)
      /\ \A n \in FlightSignals : Holds(ms, n) <=> n = RouteAllowed
  BY <1>3, HandlersNames, FlightAnswer
<1> HIDE DEF ms
<1>5. /\ FlightInv /\ (FlightInv' => SessionInv') /\ (Holds(up', Ready) => Holds(up, Ready))
      /\ down \in Seq(Messages) /\ down' = down \o ms
      /\ \A n : Holds(down', n) <=> Holds(down, n) \/ Holds(ms, n)
      /\ Flies' = Flies
      /\ Waits({"WAITING_FOR_CONTROLS", "WAITING_FOR_ROUTE_COMMAND"})'
           = Waits({"WAITING_FOR_CONTROLS", "WAITING_FOR_ROUTE_COMMAND"})
      /\ Waits({"WAITING_FOR_ROUTE"})' = Waits({"WAITING_FOR_ROUTE"})
  BY <1>1, <1>4, AtBoard
<1>6. ~Allowed /\ Acked' /\ Allowed'
  BY <1>2 DEF Acked, Allowed
<1>7. ~Holds(down, RouteAllowed) /\ ~Holds(up, Ready) /\ ~Waits({"WAITING_FOR_ROUTE"})
  BY <1>5, <1>6 DEF FlightInv
<1>8. InOrder(down')
  <2>1. ASSUME NEW m \in FlightSignals, NEW n \in FlightSignals, Holds(down, m), Holds(ms, n)
        PROVE  Precedes(m, n)
    <3>1. n = RouteAllowed /\ m # RouteAllowed
      BY <1>4, <1>7, <2>1
    <3> QED BY <3>1, FlightSignalsDiffer DEF Precedes
  <2> QED BY <1>4, <1>5, <2>1, HeldInConcat DEF FlightInv
<1>9. /\ Holds(down', FlightEnds) => Flies'
      /\ Holds(down', FlightAck) => Holds(down, FlightAck)
  BY <1>3, <1>4, <1>5, FlightSignalsDiffer DEF FlightInv
<1> QED BY <1>2, <1>5, <1>6, <1>7, <1>8, <1>9, NextFlight DEF FlightInv

LEMMA FlightStarts ==
  ASSUME SessionInv, UNCHANGED app, board = "FLIGHT_LOOP",
         B!BoardReceives(B!Signal("FLIGHT_LOOP", "READY")), B!BoardAnswers(<<>>), B!Stage(board, "RUNNING")
  PROVE  SessionInv'
<1>1. B!BoardHears(Ready) /\ <<>> \in Seq(Messages) /\ board' = "FLIGHT_LOOP" /\ stage' = "RUNNING"
  BY BoardsNames, PlainParts DEF B!BoardReceives, B!Stage, Ready, Plain
<1>2. /\ FlightInv /\ (FlightInv' => SessionInv') /\ Holds(up, Ready)
      /\ Once(up, Ready) => ~Holds(up', Ready)
      /\ \A n : Holds(down', n) <=> Holds(down, n) \/ Holds(<<>>, n)
      /\ Flies' = Flies
      /\ Waits({"WAITING_FOR_CONTROLS", "WAITING_FOR_ROUTE_COMMAND"})'
           = Waits({"WAITING_FOR_CONTROLS", "WAITING_FOR_ROUTE_COMMAND"})
      /\ Waits({"WAITING_FOR_ROUTE"})' = Waits({"WAITING_FOR_ROUTE"})
  BY <1>1, AtBoard
<1>3. Flies /\ NoneIn(down) /\ ~Holds(up', Ready)
  BY <1>2 DEF FlightInv
<1>4. NoneIn(down')
  BY <1>2, <1>3, NothingHeld DEF NoneIn
<1>5. InOrder(down')
  BY <1>4 DEF InOrder, NoneIn, Holds
<1>6. ~Waits({"WAITING_FOR_CONTROLS", "WAITING_FOR_ROUTE_COMMAND"}) /\ ~Waits({"WAITING_FOR_ROUTE"})
  BY <1>3 DEF Flies, Waits
<1> QED BY <1>2, <1>3, <1>4, <1>5, <1>6, NextFlight DEF NoneIn, FlightSignals

LEMMA FlightStops ==
  ASSUME SessionInv, UNCHANGED app, board = "FLIGHT_LOOP", stage = "RUNNING",
         B!BoardReceives(B!Frame("STOP")), B!BoardAnswers(<<B!Signal("FLIGHT_LOOP", "BREAK_ACK")>>),
         B!Stage("APP_LOOP", "NONE")
  PROVE  SessionInv'
<1> DEFINE ms == <<FlightEnds>>
<1>1. /\ B!BoardHears(B!Frame("STOP")) /\ B!BoardAnswers(ms)
      /\ board' = "APP_LOOP" /\ stage' = "NONE"
  BY BoardsNames DEF B!BoardReceives, B!Stage, FlightEnds
<1>2. FlightAck \in FlightSignals /\ RouteAllowed \in FlightSignals /\ FlightEnds \in FlightSignals
  BY DEF FlightSignals
<1>3. /\ ms \in Seq(Messages) /\ InOrder(ms)
      /\ \A n \in FlightSignals : Holds(ms, n) <=> n = FlightEnds
  <2>1. "valid" \in Arrivals /\ "STOP" \in Commands
    BY HandlersNames DEF Arrivals, Contents
  <2> QED BY <1>2, <2>1, FlightAnswer
<1> HIDE DEF ms
<1>4. /\ FlightInv /\ (FlightInv' => SessionInv') /\ (Holds(up', Ready) => Holds(up, Ready))
      /\ down \in Seq(Messages) /\ down' = down \o ms
      /\ \A n : Holds(down', n) <=> Holds(down, n) \/ Holds(ms, n)
      /\ Flies' = Flies
      /\ Waits({"WAITING_FOR_CONTROLS", "WAITING_FOR_ROUTE_COMMAND"})'
           = Waits({"WAITING_FOR_CONTROLS", "WAITING_FOR_ROUTE_COMMAND"})
      /\ Waits({"WAITING_FOR_ROUTE"})' = Waits({"WAITING_FOR_ROUTE"})
  BY <1>1, <1>3, AtBoard
<1>5. Flies /\ NoneIn(down) /\ ~Holds(up, Ready)
  BY <1>4 DEF FlightInv
<1>6. InOrder(down')
  BY <1>3, <1>4, <1>5, HeldInConcat DEF FlightInv, NoneIn
<1>7. ~Holds(down', FlightAck) /\ ~Holds(down', RouteAllowed)
  BY <1>2, <1>3, <1>4, <1>5, FlightSignalsDiffer DEF NoneIn
<1>8. ~Waits({"WAITING_FOR_CONTROLS", "WAITING_FOR_ROUTE_COMMAND"}) /\ ~Waits({"WAITING_FOR_ROUTE"})
  BY <1>5 DEF Flies, Waits
<1> QED BY <1>1, <1>4, <1>5, <1>6, <1>7, <1>8, NextFlight
-----------------------------------------------------------------------------
(***************************************************************************)
(* The board's other steps.                                                *)
(***************************************************************************)
LEMMA PlainBoard ==
  /\ Plain(<<>>)
  /\ \A c \in Commands : \A p \in Parameters :
       c # "FLIGHT_LOOP" \/ p \notin {"ACK", "VIA_ROUTE_ALLOWED", "BREAK_ACK", "READY"} =>
         Plain(<<B!Signal(c, p)>>)
  /\ \A c \in Commands : \A v \in Arrivals : Plain(<<B!Payload(c, v)>>)
  /\ Plain(<<B!Signal("START_CMD", "ACK"), B!Signal("CALIBRATION_SETTINGS", "READY")>>)
<1>1. /\ Plain(<<>>)
      /\ \A c \in Commands : \A p \in Parameters :
           c # "FLIGHT_LOOP" \/ p \notin {"ACK", "VIA_ROUTE_ALLOWED", "BREAK_ACK", "READY"} =>
             Plain(<<B!Signal(c, p)>>)
  BY PlainParts, BoardsNames
<1>2. \A c \in Commands : \A v \in Arrivals : Plain(<<B!Payload(c, v)>>)
  BY PlainParts, BoardsNames, HandlersNames
<1>3. /\ B!Signal("START_CMD", "ACK") \in Messages \ (FlightSignals \cup {Ready})
      /\ B!Signal("CALIBRATION_SETTINGS", "READY") \in Messages \ (FlightSignals \cup {Ready})
  BY PlainMessages, BoardsNames, HandlersNames
<1>4. Plain(<<B!Signal("START_CMD", "ACK"), B!Signal("CALIBRATION_SETTINGS", "READY")>>)
  BY <1>3, PlainAnswers
<1> QED BY <1>1, <1>2, <1>4

(* A record after messages without the flight's signals.                   *)
LEMMA PlainSending ==
  ASSUME NEW ms, Plain(ms), NEW c \in Commands, NEW v \in Arrivals
  PROVE  Plain(ms \o <<B!Payload(c, v)>>)
  BY PlainBoard, PlainConcat

LEMMA CutOrValid == {"valid", "cut"} \subseteq Arrivals
  BY DEF Arrivals, Contents

(* A request other than for a flight.                                      *)
LEMMA OtherBegins ==
  ASSUME SessionInv, UNCHANGED app, board = "APP_LOOP", NEW p \in Procedures \ {"FLIGHT_LOOP"},
         NEW s \in {"NONE", "USER_COMMAND"}, B!Begin(p, s), NEW ms, Plain(ms), B!BoardAnswers(ms)
  PROVE  SessionInv'
<1>1. B!BoardReceives(B!Signal(p, "START")) /\ stage' # "RUNNING"
  BY DEF B!Begin, B!Stage
<1> QED BY <1>1, BoardOutsideFlight

LEMMA SendAgainKeepsSession ==
  ASSUME SessionInv, UNCHANGED app, NEW c \in Commands, B!SendAgain(c)
  PROVE  SessionInv'
<1>1. PICK v \in {"valid", "cut"} : B!BoardAnswers(<<>> \o <<B!Payload(c, v)>>)
  BY DEF B!SendAgain, B!Sends
<1>2. Plain(<<>> \o <<B!Payload(c, v)>>)
  BY CutOrValid, PlainBoard, PlainSending
<1>3. B!BoardReceives(B!Signal(c, "DATA_INVALID")) /\ UNCHANGED <<board, stage>>
  BY DEF B!SendAgain, B!boardVars
<1> QED BY <1>1, <1>2, <1>3, BoardOutsideFlight

LEMMA DeliversKeepsSession ==
  ASSUME SessionInv, UNCHANGED app, board # "FLIGHT_LOOP", NEW c \in Commands, B!Delivers(c)
  PROVE  SessionInv'
<1>1. CASE B!Acknowledged(c) /\ B!BoardAnswers(<<>>) /\ B!ToAppLoop
  BY <1>1, PlainBoard, BoardOutsideFlight DEF B!Acknowledged, B!ToAppLoop, B!Stage
<1> QED BY <1>1, SendAgainKeepsSession DEF B!Delivers

LEMMA BoardConnectKeepsSession ==
  ASSUME SessionInv, UNCHANGED app, B!HandleEventConnectingAppLoop
  PROVE  SessionInv'
<1>1. board # "FLIGHT_LOOP"
  BY DEF B!HandleEventConnectingAppLoop
<1>2. ASSUME NEW m, NEW ms, B!BoardReceives(m), B!BoardAnswers(ms), Plain(ms), stage' # "RUNNING"
      PROVE  SessionInv'
  BY <1>1, <1>2, BoardOutsideFlight
<1>3. CASE /\ B!BoardReceives(B!Signal("START_CMD", "START"))
           /\ B!Sends(<<B!Signal("START_CMD", "ACK"), B!Signal("CALIBRATION_SETTINGS", "READY")>>,
                      "CALIBRATION_SETTINGS", B!Ticking)
           /\ B!Stage(board, "CALIBRATION_ACK")
  <2> DEFINE ms == <<B!Signal("START_CMD", "ACK"), B!Signal("CALIBRATION_SETTINGS", "READY")>>
  <2>1. PICK v \in {"valid", "cut"} : B!BoardAnswers(ms \o <<B!Payload("CALIBRATION_SETTINGS", v)>>)
    BY <1>3 DEF B!Sends
  <2>2. Plain(ms \o <<B!Payload("CALIBRATION_SETTINGS", v)>>)
    BY CutOrValid, PlainBoard, PlainSending, HandlersNames
  <2>3. stage' # "RUNNING"
    BY <1>3 DEF B!Stage
  <2> QED BY <1>2, <1>3, <2>1, <2>2, <2>3
<1>4. CASE /\ B!Acknowledged("CALIBRATION_SETTINGS") /\ B!BoardAnswers(<<>>)
           /\ B!Stage(board, "FINAL_COMMAND")
  <2>1. stage' # "RUNNING"
    BY <1>4 DEF B!Stage
  <2> QED BY <1>2, <1>4, <2>1, PlainBoard DEF B!Acknowledged
<1>5. CASE B!SendAgain("CALIBRATION_SETTINGS")
  BY <1>5, SendAgainKeepsSession, HandlersNames
<1>6. CASE /\ B!BoardReceives(B!Signal("APP_LOOP", "START"))
           /\ B!BoardAnswers(<<B!Signal("APP_LOOP", "ACK")>>) /\ B!ToAppLoop
  <2>1. stage' # "RUNNING" /\ Plain(<<B!Signal("APP_LOOP", "ACK")>>)
    BY <1>6, PlainBoard, HandlersNames DEF B!ToAppLoop, B!Stage
  <2> QED BY <1>2, <1>6, <2>1
<1> QED BY <1>3, <1>4, <1>5, <1>6 DEF B!HandleEventConnectingAppLoop

LEMMA BoardLoopKeepsSession ==
  ASSUME SessionInv, UNCHANGED app, B!HandleEventAppLoop
  PROVE  SessionInv'
<1>1. board = "APP_LOOP"
  BY DEF B!HandleEventAppLoop
<1>2. CASE /\ B!BoardReceives(B!Signal("APP_LOOP", "BREAK"))
           /\ B!BoardAnswers(<<B!Signal("APP_LOOP", "BREAK_ACK")>>) /\ UNCHANGED <<board, stage>>
  BY <1>2, PlainBoard, HandlersNames, BoardOutsideFlight
<1>3. ASSUME NEW p \in Procedures \ {"FLIGHT_LOOP"}, NEW s \in {"NONE", "USER_COMMAND"},
             B!Begin(p, s), NEW ms, Plain(ms), B!BoardAnswers(ms)
      PROVE  SessionInv'
  BY <1>1, <1>3, OtherBegins
<1>4. /\ \A p \in Procedures \ {"FLIGHT_LOOP"} : Plain(B!Ack(p))
      /\ Procedures \ {"FLIGHT_LOOP"} = {"CALIBRATE_ACCEL", "CALIBRATE_MAGNET", "UPLOAD_SETTINGS",
                                         "DOWNLOAD_SETTINGS", "UPLOAD_ROUTE", "DOWNLOAD_ROUTE"}
  BY PlainBoard, HandlersNames DEF B!Ack, Procedures
<1>5. CASE \/ B!Begin("CALIBRATE_MAGNET", "USER_COMMAND") /\ B!BoardAnswers(B!Ack("CALIBRATE_MAGNET"))
           \/ B!Begin("UPLOAD_SETTINGS", "NONE") /\ B!BoardAnswers(B!Ack("UPLOAD_SETTINGS"))
           \/ B!Begin("UPLOAD_ROUTE", "NONE") /\ B!BoardAnswers(B!Ack("UPLOAD_ROUTE"))
  BY <1>3, <1>4, <1>5
<1>6. CASE /\ B!Begin("CALIBRATE_ACCEL", "NONE")
           /\ B!Sends(B!Ack("CALIBRATE_ACCEL") \o <<B!Signal("CALIBRATE_ACCEL", "DONE")>>,
                      "CALIBRATION_SETTINGS", runaway > 0)
  <2> DEFINE ms == B!Ack("CALIBRATE_ACCEL") \o <<B!Signal("CALIBRATE_ACCEL", "DONE")>>
  <2>1. PICK v \in {"valid", "cut"} : B!BoardAnswers(ms \o <<B!Payload("CALIBRATION_SETTINGS", v)>>)
    BY <1>6 DEF B!Sends
  <2>2. Plain(ms)
    BY <1>4, PlainBoard, HandlersNames, PlainConcat
  <2>3. Plain(ms \o <<B!Payload("CALIBRATION_SETTINGS", v)>>)
    BY <2>2, CutOrValid, PlainSending, HandlersNames
  <2> QED BY <1>3, <1>4, <1>6, <2>1, <2>3
<1>7. ASSUME NEW p \in {"DOWNLOAD_SETTINGS", "DOWNLOAD_ROUTE"}, NEW c \in Commands, B!Begin(p, "NONE"),
             B!Sends(B!Ack(p), c, B!Ticking)
      PROVE  SessionInv'
  <2>1. PICK v \in {"valid", "cut"} : B!BoardAnswers(B!Ack(p) \o <<B!Payload(c, v)>>)
    BY <1>7 DEF B!Sends
  <2>2. Plain(B!Ack(p) \o <<B!Payload(c, v)>>)
    BY <1>4, CutOrValid, PlainSending
  <2> QED BY <1>3, <1>4, <1>7, <2>1, <2>2
<1>8. CASE /\ B!Begin("FLIGHT_LOOP", "CONTROLS_ACK")
           /\ B!Sends(B!Ack("FLIGHT_LOOP"), "CONTROL_SETTINGS", B!Ticking)
  <2>1. PICK v \in {"valid", "cut"} : B!BoardAnswers(B!Ack("FLIGHT_LOOP") \o <<B!Payload("CONTROL_SETTINGS", v)>>)
    BY <1>8 DEF B!Sends
  <2>2. B!BoardAnswers(<<FlightAck>> \o <<Payload("CONTROL_SETTINGS", v)>>)
    BY <2>1, BoardsNames DEF FlightAck
  <2> QED BY <1>1, <1>8, <2>2, CutOrValid, FlightBegins
<1> QED BY <1>1, <1>2, <1>5, <1>6, <1>7, <1>8, HandlersNames DEF B!HandleEventAppLoop

LEMMA BoardFlightKeepsSession ==
  ASSUME SessionInv, UNCHANGED app, B!HandleEventFlightLoop
  PROVE  SessionInv'
<1>1. board = "FLIGHT_LOOP"
  BY DEF B!HandleEventFlightLoop
<1>2. CASE B!SendAgain("CONTROL_SETTINGS") \/ B!SendAgain("ROUTE_CONTAINER")
  BY <1>2, SendAgainKeepsSession, HandlersNames
<1>3. CASE /\ stage = "ROUTE_ACK" /\ B!Acknowledged("ROUTE_CONTAINER") /\ B!BoardAnswers(<<>>)
           /\ B!Stage(board, "FINAL_COMMAND")
  <2>1. (Acked => Acked') /\ (Allowed => Allowed') /\ stage' # "RUNNING"
    BY <1>3 DEF B!Stage, Acked, Allowed
  <2> QED BY <1>3, <2>1, PlainBoard, CalmBoard DEF B!Acknowledged, B!BoardReceives
<1>4. CASE /\ stage = "CONTROLS_ACK" /\ B!Acknowledged("CONTROL_SETTINGS")
           /\ B!Sends(<<B!Signal("FLIGHT_LOOP", "VIA_ROUTE_ALLOWED")>>, "ROUTE_CONTAINER", B!Ticking)
           /\ B!Stage(board, "ROUTE_ACK")
  <2>1. PICK v \in {"valid", "cut"} :
          B!BoardAnswers(<<B!Signal("FLIGHT_LOOP", "VIA_ROUTE_ALLOWED")>> \o <<B!Payload("ROUTE_CONTAINER", v)>>)
    BY <1>4 DEF B!Sends
  <2>2. B!BoardAnswers(<<RouteAllowed>> \o <<Payload("ROUTE_CONTAINER", v)>>)
    BY <2>1, BoardsNames DEF RouteAllowed
  <2> QED BY <1>1, <1>4, <2>2, CutOrValid, RouteIsAllowed
<1> QED BY <1>1, <1>2, <1>3, <1>4, FlightStarts, FlightStops DEF B!HandleEventFlightLoop

LEMMA BoardCalibrationsKeepSession ==
  ASSUME SessionInv, UNCHANGED app,
         B!HandleEventCalibrationAccelerometer \/ B!HandleEventCalibrationMagnetometer
  PROVE  SessionInv'
<1>1. board # "FLIGHT_LOOP"
  BY DEF B!HandleEventCalibrationAccelerometer, B!HandleEventCalibrationMagnetometer
<1>2. ASSUME NEW m, NEW ms, B!BoardReceives(m), B!BoardAnswers(ms), Plain(ms), stage' # "RUNNING"
      PROVE  SessionInv'
  BY <1>1, <1>2, BoardOutsideFlight
<1>3. CASE /\ B!BoardReceives(B!Signal("CALIBRATE_MAGNET", "SKIP"))
           /\ B!BoardAnswers(<<B!Signal("CALIBRATE_MAGNET", "ACK")>>) /\ B!ToAppLoop
  <2>1. stage' # "RUNNING" /\ Plain(<<B!Signal("CALIBRATE_MAGNET", "ACK")>>)
    BY <1>3, PlainBoard, HandlersNames DEF B!ToAppLoop, B!Stage, Procedures
  <2> QED BY <1>2, <1>3, <2>1
<1>4. CASE /\ B!BoardReceives(B!Signal("CALIBRATE_MAGNET", "DONE"))
           /\ B!Sends(<<B!Signal("CALIBRATE_MAGNET", "DONE")>>, "CALIBRATION_SETTINGS", B!Ticking)
           /\ B!Stage(board, "CALIBRATION_ACK")
  <2> DEFINE ms == <<B!Signal("CALIBRATE_MAGNET", "DONE")>>
  <2>1. PICK v \in {"valid", "cut"} : B!BoardAnswers(ms \o <<B!Payload("CALIBRATION_SETTINGS", v)>>)
    BY <1>4 DEF B!Sends
  <2>2. Plain(ms \o <<B!Payload("CALIBRATION_SETTINGS", v)>>)
    BY CutOrValid, PlainBoard, PlainSending, HandlersNames DEF Procedures
  <2>3. stage' # "RUNNING"
    BY <1>4 DEF B!Stage
  <2> QED BY <1>2, <1>4, <2>1, <2>2, <2>3
<1>5. CASE B!Delivers("CALIBRATION_SETTINGS")
  BY <1>1, <1>5, DeliversKeepsSession, HandlersNames
<1> QED BY <1>3, <1>4, <1>5 DEF B!HandleEventCalibrationAccelerometer, B!HandleEventCalibrationMagnetometer

LEMMA BoardTransfersKeepSession ==
  ASSUME SessionInv, UNCHANGED app,
         \/ B!HandleEventUploadControlSettings \/ B!HandleEventDownloadControlSettings
         \/ B!HandleEventUploadRouteContainer \/ B!HandleEventDownloadRouteContainer
  PROVE  SessionInv'
<1>1. board # "FLIGHT_LOOP"
  BY DEF B!HandleEventUploadControlSettings, B!HandleEventDownloadControlSettings,
         B!HandleEventUploadRouteContainer, B!HandleEventDownloadRouteContainer
<1>2. CASE B!HandleEventDownloadControlSettings \/ B!HandleEventDownloadRouteContainer
  BY <1>1, <1>2, DeliversKeepsSession, HandlersNames
  DEF B!HandleEventDownloadControlSettings, B!HandleEventDownloadRouteContainer
<1>3. ASSUME NEW c \in {"CONTROL_SETTINGS", "ROUTE_CONTAINER"}, NEW m, B!BoardReceives(m),
             B!Taken(c) \/ B!GivenUp(c) \/ B!Refused(c)
      PROVE  SessionInv'
  <2>1. /\ Plain(<<B!Signal(c, "ACK")>>) /\ Plain(<<B!Signal(c, "TIMEOUT")>>)
        /\ Plain(<<B!Signal(c, "DATA_INVALID")>>)
    BY PlainBoard, HandlersNames
  <2>2. CASE B!Taken(c) \/ B!GivenUp(c)
    <3>1. stage' # "RUNNING"
      BY <2>2 DEF B!Taken, B!GivenUp, B!ToAppLoop, B!Stage
    <3> QED BY <1>1, <1>3, <2>1, <2>2, <3>1, BoardOutsideFlight DEF B!Taken, B!GivenUp
  <2>3. CASE B!Refused(c)
    BY <1>3, <2>1, <2>3, BoardOutsideFlight DEF B!Refused
  <2> QED BY <1>3, <2>2, <2>3
<1>4. ASSUME NEW c, B!Broken(c) PROVE SessionInv'
  <2>1. B!BoardReceives(Head(up)) /\ B!BoardAnswers(<<>>) /\ stage' # "RUNNING"
    BY <1>4 DEF B!Broken, B!ToAppLoop, B!Stage
  <2> QED BY <1>1, <2>1, PlainBoard, BoardOutsideFlight
<1>5. CASE B!HandleEventUploadControlSettings
  BY <1>3, <1>4, <1>5 DEF B!HandleEventUploadControlSettings
<1>6. CASE B!HandleEventUploadRouteContainer
  BY <1>3, <1>4, <1>6 DEF B!HandleEventUploadRouteContainer
<1> QED BY <1>2, <1>5, <1>6

(* What the board learns of the connection.                                *)
LEMMA BoardHeard ==
  ASSUME SessionInv, UNCHANGED app, NEW callback, B!Called(callback)
  PROVE  /\ LinkInv' /\ UNCHANGED <<status, up, down, action>>
         /\ status = "open" => /\ callback = "connected" /\ boardNews = <<"connected">> /\ boardNews' = <<>>
                               /\ down = <<>> /\ action # "FLIGHT_LOOP"
<1>1. /\ LinkInv /\ UNCHANGED <<action, record>>
      /\ boardNews # <<>> /\ callback = Head(boardNews) /\ boardNews' = Tail(boardNews)
      /\ UNCHANGED <<status, up, down, appNews>>
  BY DEF SessionInv, app, B!Called
<1>2. boardNews' \in Seq(News)
  BY <1>1, HeadTailProperties DEF LinkInv
<1>3. boardNews = <<"connected">> => callback = "connected" /\ boardNews' = <<>>
  BY <1>1
<1>4. LinkInv'
  BY <1>1, <1>2, <1>3 DEF LinkInv
<1> QED BY <1>1, <1>3, <1>4 DEF LinkInv

LEMMA BoardCallbacksKeepSession ==
  ASSUME SessionInv, UNCHANGED app, B!OnConnected \/ B!OnDisconnected \/ B!OnError
  PROVE  SessionInv'
<1>1. CASE B!OnConnected
  <2>1. /\ LinkInv' /\ UNCHANGED <<status, up, down, action>> /\ stage' = "INITIAL_COMMAND"
        /\ status = "open" => boardNews # <<>> /\ boardNews' = <<>> /\ down = <<>> /\ action # "FLIGHT_LOOP"
    BY <1>1, BoardHeard DEF B!OnConnected, B!Stage
  <2>2. ASSUME status = "open" PROVE FlightInv'
    <3>1. /\ down' = <<>> /\ ~Holds(up', Ready)
          /\ ~Waits({"WAITING_FOR_CONTROLS", "WAITING_FOR_ROUTE_COMMAND"})' /\ ~Waits({"WAITING_FOR_ROUTE"})'
      BY <2>1, <2>2 DEF SessionInv, ShareInv, Waits
    <3> QED BY <2>1, <3>1, NothingHeld, NextFlight
  <2> QED BY <2>1, <2>2 DEF SessionInv, ShareInv
<1>2. CASE B!OnDisconnected \/ B!OnError
  <2>1. LinkInv' /\ UNCHANGED status /\ status # "open"
    BY <1>2, BoardHeard DEF B!OnDisconnected, B!OnError
  <2> QED BY <2>1, NoLongerOpen
<1> QED BY <1>1, <1>2

LEMMA BoardKeepsSession ==
  ASSUME SessionInv, UNCHANGED app, B!BoardNext
  PROVE  SessionInv'
<1>1. CASE B!BoardDrops
  <2>1. B!BoardReceives(Head(up)) /\ B!BoardAnswers(<<>>) /\ UNCHANGED <<board, stage>>
    BY <1>1 DEF B!BoardDrops, B!boardVars
  <2> QED BY <2>1, PlainBoard, BoardOutsideFlight
<1>2. CASE B!HandleCommEvent
  BY <1>1, <1>2, BoardConnectKeepsSession, BoardLoopKeepsSession, BoardFlightKeepsSession,
     BoardCalibrationsKeepSession, BoardTransfersKeepSession DEF B!HandleCommEvent
<1>3. CASE B!BoardCloses
  <2>1. B!Disconnect(appNews) /\ UNCHANGED <<action, record>>
    BY <1>3 DEF B!BoardCloses, app
  <2>2. Disconnect(appNews)
    BY <2>1 DEF B!Disconnect, Disconnect
  <2>3. LinkInv' /\ status' = "closed"
    BY <2>1, <2>2, DisconnectLink DEF SessionInv, LinkInv, Left
  <2> QED BY <2>3, NoLongerOpen
<1> QED BY <1>2, <1>3, BoardCallbacksKeepSession DEF B!BoardNext

LEMMA CorruptionKeepsSession ==
  ASSUME SessionInv, UNCHANGED <<app, boardSide>>, CorruptRecord
  PROVE  SessionInv'
<1>1. /\ LinkInv /\ UNCHANGED <<status, appNews, boardNews, action, state, record, board, stage>>
      /\ up \in Seq(Messages) /\ down \in Seq(Messages)
  BY DEF SessionInv, LinkInv, CorruptRecord, app, boardSide
<1>2. KeepsFlight
  BY <1>1, SameFlight
<1>0. PICK v \in {"invalid", "cut"} :
        \/ (\E i \in DOMAIN up : up[i].parameter \in Contents /\ up' = Garbled(up, i, v)) /\ UNCHANGED down
        \/ (\E i \in DOMAIN down : down[i].parameter \in Contents /\ down' = Garbled(down, i, v)) /\ UNCHANGED up
  BY DEF CorruptRecord
<1>3. /\ up' \in Seq(Messages) /\ down' \in Seq(Messages)
      /\ up = <<>> => up' = <<>>
      /\ down = <<>> => down' = <<>>
      /\ \A m \in FlightSignals : Holds(down', m) => Holds(down, m)
      /\ InOrder(down) => InOrder(down')
      /\ Holds(up', Ready) => Holds(up, Ready)
      /\ Once(up, Ready) => Once(up', Ready)
  <2>1. CASE (\E i \in DOMAIN up : up[i].parameter \in Contents /\ up' = Garbled(up, i, v)) /\ UNCHANGED down
    <3>1. PICK i \in DOMAIN up : up[i].parameter \in Contents /\ up' = Garbled(up, i, v)
      BY <2>1
    <3>2. up # <<>>
      BY <3>1
    <3> QED BY <1>1, <2>1, <3>1, <3>2, GarbledMessages
  <2>2. CASE (\E i \in DOMAIN down : down[i].parameter \in Contents /\ down' = Garbled(down, i, v)) /\ UNCHANGED up
    <3>1. PICK i \in DOMAIN down : down[i].parameter \in Contents /\ down' = Garbled(down, i, v)
      BY <2>2
    <3>2. down # <<>>
      BY <3>1
    <3> QED BY <1>1, <2>2, <3>1, <3>2, GarbledMessages
  <2> QED BY <1>0, <2>1, <2>2
<1>4. LinkInv'
  BY <1>1, <1>3 DEF LinkInv
<1>5. ASSUME status = "open", boardNews = <<>> PROVE FlightInv'
  <2>1. FlightInv
    BY <1>5 DEF SessionInv, ShareInv
  <2>2. /\ InOrder(down')
        /\ Holds(up', Ready) => Holds(up, Ready) /\ Once(up', Ready)
    BY <1>3, <2>1 DEF FlightInv
  <2> QED BY <1>1, <1>2, <1>3, <2>1, <2>2, CalmStep
<1>6. status = "open" /\ boardNews # <<>> => ~Holds(up, Ready)'
  <2>1. Holds(up, Ready)' => Holds(up', Ready)
    BY DEF Holds, Ready, Signal
  <2> QED BY <1>3, <2>1 DEF SessionInv, ShareInv
<1> QED BY <1>1, <1>4, <1>5, <1>6 DEF SessionInv, ShareInv

LEMMA NextKeepsSession == SessionInv /\ [Next]_vars => SessionInv'
<1> SUFFICES ASSUME SessionInv, [Next]_vars PROVE SessionInv'
  OBVIOUS
<1>1. CASE AppNext /\ UNCHANGED boardSide
  BY <1>1, AppKeepsSession
<1>2. CASE B!BoardNext /\ UNCHANGED app
  BY <1>2, BoardKeepsSession
<1>3. CASE LinkFails /\ UNCHANGED <<app, boardSide>>
  BY <1>3, FailsLink, NoLongerOpen DEF SessionInv
<1>4. CASE CorruptRecord /\ UNCHANGED <<app, boardSide>>
  BY <1>4, CorruptionKeepsSession
<1>5. CASE UNCHANGED vars
  <2>1. LinkInv' /\ UNCHANGED boardSide /\ UNCHANGED <<status, up, down, boardNews>> /\ KeepsFlight
    BY <1>5, SameFlight DEF vars, link, app, SessionInv, LinkInv
  <2> QED BY <2>1, CalmState
<1> QED BY <1>1, <1>2, <1>3, <1>4, <1>5 DEF Next

LEMMA InitIsSession == Init => SessionInv
<1> SUFFICES ASSUME Init PROVE SessionInv
  OBVIOUS
<1>1. /\ status = "closed" /\ up = <<>> /\ down = <<>> /\ appNews = <<>> /\ boardNews = <<>>
      /\ action = "IDLE" /\ record \in Contents
  BY DEF Init, LinkInit, AppInit, Contents
<1>2. LinkInv
  BY <1>1, NothingHeld DEF LinkInv
<1> QED BY <1>1, <1>2 DEF SessionInv, ShareInv

(* The board never flies under an application that is not in flight.       *)
THEOREM SessionIsShared == Spec => []FlightIsShared
<1>1. SessionInv => FlightIsShared
  BY DEF SessionInv, ShareInv, FlightInv, FlightIsShared, Flies
<1> QED BY <1>1, InitIsSession, NextKeepsSession, PTL DEF Spec
-----------------------------------------------------------------------------
(***************************************************************************)
(* The board's debug data.  A timer that runs is the one of the loops, or  *)
(* the board is still to be told that the connection is over, or an error  *)
(* has left it: a start over it pays for the timer it forgets with that    *)
(* error.                                                                  *)
(***************************************************************************)
Told == Holds(boardNews, "disconnected") \/ Holds(boardNews, "error")

(* The connection is over, and the board is to hear of it.                 *)
GoesDown == status' # "open" /\ IF status = "open" THEN Told' ELSE boardNews' = boardNews

LEMMA ToldByAppend ==
  ASSUME LinkInv, NEW n \in {"disconnected", "error"}, boardNews' = Append(boardNews, n)
  PROVE  Told'
<1>1. Holds(Append(boardNews, n), n)
  BY HeldInAppend DEF LinkInv, News
<1>2. Holds(boardNews', n)
  BY <1>1
<1>3. Holds(boardNews, "disconnected")' = Holds(boardNews', "disconnected")
      /\ Holds(boardNews, "error")' = Holds(boardNews', "error")
  BY DEF Holds
<1> QED BY <1>2, <1>3 DEF Told

(* No step but the board's own, and the opening of a connection, changes   *)
(* what DebugMatchesState is about while the connection is open.           *)
LEMMA LinkOfOthers ==
  ASSUME LinkInv, AppNext \/ LinkFails \/ CorruptRecord
  PROVE  \/ UNCHANGED <<status, boardNews>>
         \/ status = "closed" /\ boardNews = <<>> /\ boardNews' = <<"connected">>
         \/ GoesDown
<1>0. \A n \in {"disconnected", "error"} : boardNews' = Append(boardNews, n) => Told'
  BY ToldByAppend
<1>1. \A heard : DisconnectInterface(heard) \/ Disconnect(heard) \/ OnlyHeard(heard) =>
        UNCHANGED <<status, boardNews>> \/ GoesDown
  BY <1>0 DEF DisconnectInterface, Disconnect, OnlyHeard, GoesDown
<1>2. \A ms : AppAnswers(ms) \/ AppSends(ms) => UNCHANGED <<status, boardNews>>
  BY DEF AppAnswers, AppSends, channel
<1>3. CASE HandleCommEvent
  <2>1. /\ \A s, m, ms, t : Moves(s, m, ms, t) => UNCHANGED <<status, boardNews>>
        /\ \A s, m, ms : Ends(s, m, ms) => UNCHANGED <<status, boardNews>>
        /\ \A s, c : Refuses(s, c) => UNCHANGED <<status, boardNews>>
    BY <1>2 DEF Moves, Ends, Refuses
  <2>2. HandleConnect \/ HandleDisconnect \/ DropEvent => UNCHANGED <<status, boardNews>> \/ GoesDown
    BY <1>1, <1>2, <2>1 DEF HandleConnect, HandleDisconnect, DropEvent
  <2>3. HandleFlight => UNCHANGED <<status, boardNews>>
    BY <1>2, <2>1 DEF HandleFlight, HandleSignalWhileFlying
  <2>4. HandleAccel \/ HandleMagnet => UNCHANGED <<status, boardNews>>
    BY <1>2, <2>1 DEF HandleAccel, HandleMagnet
  <2>5. \/ HandleDownloadSettings \/ HandleDownloadRoute \/ HandleUploadSettings \/ HandleUploadRoute
        => UNCHANGED <<status, boardNews>>
    BY <2>1 DEF HandleDownloadSettings, HandleDownloadRoute, HandleUploadSettings, HandleUploadRoute
  <2> QED BY <1>3, <2>2, <2>3, <2>4, <2>5 DEF HandleCommEvent
<1>4. CASE UserCalls
  BY <1>1, <1>2, <1>4 DEF UserCalls, ConnectInterface, LinkOpens, DisconnectApplicationLoop,
                          StartProcedure, EndFlightLoop, UserCommand, link
<1>5. CASE Callbacks
  BY <1>1, <1>5 DEF Callbacks, OnConnected, OnDisconnected, OnError
<1>6. CASE Ticks
  BY <1>1, <1>2, <1>6 DEF Ticks, PingTick, ControlTick, ConnectTimeout, SendsOnce, link
<1>7. CASE LinkFails \/ CorruptRecord
  BY <1>0, <1>7 DEF LinkFails, CorruptRecord, GoesDown
<1> QED BY <1>3, <1>4, <1>5, <1>6, <1>7 DEF AppNext

(* The debug task as DebugMatchesState wants it, and what it owes.         *)
Matches ==
    /\ board = "APP_LOOP" \/ stage = "RUNNING" => debug = "live"
    /\ board \in Procedures /\ stage # "RUNNING" => debug # "live"

Counted ==
    /\ runaway \in Nat /\ erred \in Nat /\ runaway <= erred
    /\ stage = "RUNNING" => board = "FLIGHT_LOOP"
    /\ debug = "live" => runaway < erred \/ board = "APP_LOOP" \/ stage = "RUNNING"

DebugInv ==
    /\ runaway \in Nat /\ erred \in Nat /\ runaway <= erred
    /\ stage = "RUNNING" => board = "FLIGHT_LOOP"
    /\ debug = "live" =>
         \/ runaway < erred \/ Told
         \/ status = "open" /\ boardNews = <<>> /\ (board = "APP_LOOP" \/ stage = "RUNNING")
    /\ status = "open" /\ boardNews = <<>> /\ ~closing => Matches

LEMMA BoardMatches ==
  ASSUME Matches, Counted, B!HandleCommEvent
  PROVE  Counted' /\ (Matches' \/ closing')
<1>0. runaway \in Int /\ erred \in Int /\ runaway + 1 \in Nat /\ (runaway < erred => runaway + 1 <= erred)
  BY DEF Counted
<1>1. CASE B!ToAppLoop /\ board \notin {"APP_LOOP", "FLIGHT_LOOP"}
  <2>1. board' = "APP_LOOP" /\ stage' = "NONE" /\ debug' = "live" /\ UNCHANGED erred
    BY <1>1 DEF B!ToAppLoop, B!Stage, B!StartDebug
  <2>2. runaway' \in Nat /\ runaway' <= erred
    BY <1>0, <1>1 DEF B!ToAppLoop, B!StartDebug, Counted
  <2> QED BY <2>1, <2>2 DEF Matches, Counted, Procedures
<1>2. CASE UNCHANGED <<board, stage, debug, runaway, erred>>
  BY <1>2 DEF Matches, Counted
<1>3. /\ \A c : B!SendAgain(c) => UNCHANGED <<board, stage, debug, runaway, erred>>
      /\ \A c : B!Taken(c) \/ B!GivenUp(c) \/ B!Broken(c) => B!ToAppLoop
      /\ \A c : B!Refused(c) => UNCHANGED <<board, stage, debug, runaway, erred>>
      /\ \A c : B!Delivers(c) => B!ToAppLoop \/ UNCHANGED <<board, stage, debug, runaway, erred>>
  BY DEF B!SendAgain, B!boardVars, B!timers, B!Taken, B!GivenUp, B!Broken, B!Refused, B!Delivers
<1>4. \A p \in Procedures, s \in {"NONE", "USER_COMMAND", "CONTROLS_ACK"} :
        B!Begin(p, s) => Counted' /\ Matches'
  BY DEF B!Begin, B!Stage, B!StopDebug, Matches, Counted, Procedures
<1>5. CASE B!HandleEventConnectingAppLoop
  <2>1. CASE /\ board = "CONNECTING_APP_LOOP" /\ stage' \in {"CALIBRATION_ACK", "FINAL_COMMAND"}
             /\ UNCHANGED <<board, debug, runaway, erred>>
    BY <2>1 DEF Matches, Counted, Procedures
  <2> QED BY <1>1, <1>2, <1>3, <1>5, <2>1 DEF B!HandleEventConnectingAppLoop, B!Stage, B!timers
<1>6. CASE B!HandleEventAppLoop
  <2>1. /\ "FLIGHT_LOOP" \in Procedures /\ "CALIBRATE_ACCEL" \in Procedures
        /\ "CALIBRATE_MAGNET" \in Procedures /\ "UPLOAD_SETTINGS" \in Procedures
        /\ "UPLOAD_ROUTE" \in Procedures /\ "DOWNLOAD_SETTINGS" \in Procedures
        /\ "DOWNLOAD_ROUTE" \in Procedures
    BY DEF Procedures
  <2>2. CASE closing' /\ B!StopDebug /\ UNCHANGED <<board, stage>>
    BY <2>2 DEF B!StopDebug, Counted
  <2> QED BY <1>4, <1>6, <2>1, <2>2 DEF B!HandleEventAppLoop
<1>7. CASE B!HandleEventFlightLoop
  <2>1. CASE /\ board = "FLIGHT_LOOP" /\ stage \in {"CONTROLS_ACK", "ROUTE_ACK"}
             /\ stage' \in {"ROUTE_ACK", "FINAL_COMMAND"} /\ UNCHANGED <<board, debug, runaway, erred>>
    BY <2>1 DEF Matches, Counted, Procedures
  <2>2. CASE /\ board = "FLIGHT_LOOP" /\ stage = "FINAL_COMMAND" /\ B!StartDebug
             /\ board' = "FLIGHT_LOOP" /\ stage' = "RUNNING"
    <3>1. debug # "live"
      BY <2>2 DEF Matches, Procedures
    <3> QED BY <2>2, <3>1 DEF B!StartDebug, Matches, Counted
  <2>3. CASE stage = "RUNNING" /\ board' = "APP_LOOP" /\ stage' = "NONE" /\ UNCHANGED <<debug, runaway, erred>>
    BY <2>3 DEF Matches, Counted, Procedures
  <2> QED BY <1>2, <1>3, <1>7, <2>1, <2>2, <2>3 DEF B!HandleEventFlightLoop, B!Stage, B!timers
<1>8. CASE B!HandleEventCalibrationMagnetometer
  <2>1. CASE /\ board = "CALIBRATE_MAGNET" /\ stage = "USER_COMMAND"
             /\ stage' = "CALIBRATION_ACK" /\ UNCHANGED <<board, debug, runaway, erred>>
    BY <2>1 DEF Matches, Counted, Procedures
  <2> QED BY <1>1, <1>2, <1>3, <1>8, <2>1 DEF B!HandleEventCalibrationMagnetometer, B!Stage, B!timers
<1>9. CASE \/ B!HandleEventCalibrationAccelerometer \/ B!HandleEventDownloadControlSettings
           \/ B!HandleEventDownloadRouteContainer
  BY <1>1, <1>2, <1>3, <1>9 DEF B!HandleEventCalibrationAccelerometer,
     B!HandleEventDownloadControlSettings, B!HandleEventDownloadRouteContainer
<1>10. CASE B!HandleEventUploadControlSettings \/ B!HandleEventUploadRouteContainer
  BY <1>1, <1>2, <1>3, <1>10 DEF B!HandleEventUploadControlSettings, B!HandleEventUploadRouteContainer
<1>11. CASE B!BoardDrops
  BY <1>2, <1>11 DEF B!BoardDrops, B!boardVars, B!timers
<1> QED BY <1>5, <1>6, <1>7, <1>8, <1>9, <1>10, <1>11 DEF B!HandleCommEvent

LEMMA SomeMessage ==
  ASSUME B!HandleCommEvent
  PROVE  (\E m : B!BoardReceives(m)) /\ UNCHANGED <<status, boardNews>>
<1>1. /\ \A c : B!SendAgain(c) \/ B!Delivers(c) \/ B!Broken(c) => \E m : B!BoardReceives(m)
      /\ \A c : B!Acknowledged(c) => \E m : B!BoardReceives(m)
      /\ \A p, s : B!Begin(p, s) => \E m : B!BoardReceives(m)
  BY DEF B!SendAgain, B!Delivers, B!Acknowledged, B!Broken, B!Begin
<1>2. /\ \A ms : B!BoardAnswers(ms) => UNCHANGED <<status, boardNews>>
      /\ \A ms, c : B!Sends(ms, c, B!Ticking) \/ B!Sends(ms, c, runaway > 0) => UNCHANGED <<status, boardNews>>
  BY DEF B!BoardAnswers, B!channel, B!Sends
<1>3. \A c : B!SendAgain(c) \/ B!Delivers(c) \/ B!Broken(c) \/ B!Taken(c) \/ B!GivenUp(c) \/ B!Refused(c) =>
        UNCHANGED <<status, boardNews>>
  BY <1>2 DEF B!SendAgain, B!Delivers, B!Broken, B!Taken, B!GivenUp, B!Refused
<1>4. CASE \/ B!HandleEventConnectingAppLoop \/ B!HandleEventFlightLoop
           \/ B!HandleEventCalibrationMagnetometer
  BY <1>1, <1>2, <1>3, <1>4 DEF B!HandleEventConnectingAppLoop, B!HandleEventFlightLoop,
                    B!HandleEventCalibrationMagnetometer
<1>5. CASE B!HandleEventAppLoop
  BY <1>1, <1>2, <1>5 DEF B!HandleEventAppLoop
<1>6. CASE \/ B!HandleEventCalibrationAccelerometer \/ B!HandleEventDownloadControlSettings
           \/ B!HandleEventDownloadRouteContainer \/ B!HandleEventUploadControlSettings
           \/ B!HandleEventUploadRouteContainer \/ B!BoardDrops
  BY <1>1, <1>2, <1>3, <1>6 DEF B!HandleEventCalibrationAccelerometer, B!HandleEventDownloadControlSettings,
     B!HandleEventDownloadRouteContainer, B!HandleEventUploadControlSettings,
     B!HandleEventUploadRouteContainer, B!BoardDrops
<1> QED BY <1>4, <1>5, <1>6 DEF B!HandleCommEvent

(* The callbacks of the board's interface, and its own disconnection.      *)
LEMMA CallbacksKeepDebug ==
  ASSUME SessionInv, DebugInv, UNCHANGED app,
         B!BoardCloses \/ B!OnConnected \/ B!OnDisconnected \/ B!OnError
  PROVE  DebugInv'
<1>0. LinkInv /\ runaway \in Nat /\ erred \in Nat /\ erred + 1 \in Nat /\ runaway < erred + 1 /\ runaway <= erred + 1
  BY DEF SessionInv, DebugInv
<1>1. CASE B!BoardCloses
  <2>1. /\ status' = "closed" /\ UNCHANGED <<board, stage, debug, runaway, erred>>
        /\ boardNews' = IF status = "open" THEN Append(boardNews, "disconnected") ELSE boardNews
    BY <1>1 DEF B!BoardCloses, B!Disconnect, B!timers
  <2>2. IF status = "open" THEN Told' ELSE Told' = Told
    BY <1>0, <2>1, ToldByAppend DEF Told, Holds
  <2> QED BY <2>1, <2>2 DEF DebugInv
<1>2. CASE B!OnConnected
  <2>1. /\ boardNews # <<>> /\ Head(boardNews) = "connected" /\ boardNews' = Tail(boardNews)
        /\ board' = "CONNECTING_APP_LOOP" /\ stage' = "INITIAL_COMMAND" /\ UNCHANGED <<debug, runaway, erred>>
    BY <1>2 DEF B!OnConnected, B!Called, B!Stage, B!timers
  <2>2. \A m : Holds(boardNews, m) => m = Head(boardNews) \/ Holds(Tail(boardNews), m)
    BY <1>0, <2>1, HeldInTail DEF LinkInv
  <2>3. Told => Told'
    BY <2>1, <2>2 DEF Told, Holds
  <2> QED BY <2>1, <2>3 DEF DebugInv, Matches, Procedures
<1>3. CASE B!OnDisconnected
  <2>1. status # "open" /\ UNCHANGED status
    BY <1>3, BoardHeard DEF B!OnDisconnected
  <2>2. debug' # "live" /\ UNCHANGED <<board, stage, runaway, erred>>
    BY <1>3 DEF B!OnDisconnected
  <2> QED BY <2>1, <2>2 DEF DebugInv
<1>4. CASE B!OnError
  <2>1. status # "open" /\ UNCHANGED status
    BY <1>4, BoardHeard DEF B!OnError
  <2>2. erred' = erred + 1 /\ UNCHANGED <<board, stage, debug, runaway>>
    BY <1>4 DEF B!OnError
  <2>3. erred' \in Nat /\ runaway' < erred' /\ runaway' <= erred' /\ runaway' \in Nat
    BY <1>0, <2>2
  <2> QED BY <2>1, <2>2, <2>3 DEF DebugInv
<1> QED BY <1>1, <1>2, <1>3, <1>4

LEMMA NextKeepsDebug ==
  ASSUME SessionInv, DebugInv, [Next]_vars
  PROVE  DebugInv'
<1>1. CASE UNCHANGED boardSide /\ (AppNext \/ LinkFails \/ CorruptRecord \/ UNCHANGED vars)
  <2>1. UNCHANGED <<board, stage, debug, runaway, erred, closing>>
    BY <1>1 DEF boardSide
  <2>2. \/ UNCHANGED <<status, boardNews>>
        \/ status = "closed" /\ boardNews = <<>> /\ boardNews' = <<"connected">>
        \/ GoesDown
    BY <1>1, LinkOfOthers DEF vars, link, SessionInv
  <2>3. CASE UNCHANGED <<status, boardNews>>
    BY <2>1, <2>3 DEF DebugInv, Matches, Told, Holds
  <2>4. CASE status = "closed" /\ boardNews = <<>> /\ boardNews' = <<"connected">>
    <3>1. ~Told /\ boardNews' # <<>>
      BY <2>4, NothingHeld DEF Told
    <3> QED BY <2>1, <2>4, <3>1 DEF DebugInv
  <2>5. CASE GoesDown
    BY <2>1, <2>5 DEF DebugInv, GoesDown, Told, Holds
  <2> QED BY <2>2, <2>3, <2>4, <2>5
<1>2. CASE B!HandleCommEvent
  <2>1. /\ status = "open" /\ boardNews = <<>> /\ ~closing
        /\ status' = "open" /\ boardNews' = <<>>
    BY <1>2, SomeMessage DEF B!BoardReceives, B!BoardHears
  <2>2. ~Told
    BY <2>1, NothingHeld DEF Told
  <2>3. Matches /\ Counted
    BY <2>1, <2>2 DEF DebugInv, Counted
  <2>4. Counted' /\ (Matches' \/ closing')
    BY <1>2, <2>3, BoardMatches
  <2> QED BY <2>1, <2>4 DEF DebugInv, Counted
<1> QED BY <1>1, <1>2, CallbacksKeepDebug DEF Next, vars, B!BoardNext

(* Debug data are sent in the loops, and in another procedure by no timer  *)
(* but those an error has left, no more of them than there were errors.    *)
THEOREM DebugMatches == Spec => []DebugMatchesState
<1>1. Init => DebugInv
  BY DEF Init, LinkInit, B!BoardInit, DebugInv
<1>2. SessionInv /\ DebugInv /\ [Next]_vars => DebugInv'
  BY NextKeepsDebug
<1>3. DebugInv => DebugMatchesState
  BY DEF DebugInv, Matches, DebugMatchesState, B!Requests, Procedures
<1> QED BY <1>1, <1>2, <1>3, InitIsSession, NextKeepsSession, PTL DEF Spec
-----------------------------------------------------------------------------
(***************************************************************************)
(* Both ends in step.  The pings and the control frames may lie anywhere   *)
(* among the messages on their way up; what the application wants of the   *)
(* board is the rest, q, and it is never more than two messages.  With     *)
(* what is on its way down, which is known to the last message, it says    *)
(* how far the two have come.                                              *)
(***************************************************************************)
Noise == {Ping, Frame("CONTROL"), Frame("STOP")}

(* Without the noise s is q.                                               *)
Reads(s, q) ==
    \E f \in [DOMAIN q -> DOMAIN s] :
      /\ \A i, j \in DOMAIN q : i < j => f[i] < f[j]
      /\ \A i \in DOMAIN q : q[i] = s[f[i]] /\ q[i] \notin Noise
      /\ \A k \in DOMAIN s : s[k] \in Noise \/ \E i \in DOMAIN q : k = f[i]

Break == Signal("APP_LOOP", "BREAK")

At(s, b, g)      == state = s /\ board = b /\ stage = g
Between(q, u, d) == q = u /\ down = d

(* The board has sent a record, or is to send it again; or the record came *)
(* cut.                                                                    *)
Offered(q, c) ==
    \/ \E v \in Arrivals : Between(q, <<>>, <<Payload(c, v)>>)
    \/ Between(q, <<Signal(c, "DATA_INVALID")>>, <<>>)
    \/ cut /\ Between(q, <<>>, <<>>)

(* The board is in the application loop once it has read what is before    *)
(* rest, the acknowledgement of a record.                                  *)
Settles(q, rest) ==
    /\ down = <<>>
    /\ \/ board = "APP_LOOP" /\ q = rest
       \/ /\ board = "CALIBRATE_ACCEL" \/ (board = "CALIBRATE_MAGNET" /\ stage = "CALIBRATION_ACK")
          /\ q = <<Signal("CALIBRATION_SETTINGS", "ACK")>> \o rest
       \/ /\ board = "DOWNLOAD_SETTINGS"
          /\ q = <<Signal("CONTROL_SETTINGS", "ACK")>> \o rest

(* The board is about to be told of the connection, or was just told.      *)
Fresh == boardNews = <<"connected">>
         \/ (boardNews = <<>> /\ board = "CONNECTING_APP_LOOP" /\ stage = "INITIAL_COMMAND")

(* A disconnection that met the next connection.                           *)
Lost(q) == action = "DISCONNECT" /\ state = "WAITING" /\ q \in {<<>>, <<Break>>}

Opening(q) == Fresh /\ down = <<>> /\ ((IsActionDone /\ q = <<>>) \/ Lost(q))

Greets(q) == action = "CONNECT" /\ state = "INITIAL_COMMAND" /\ q = <<Signal("START_CMD", "START")>>

Connects(q) ==
    LET data  == "CALIBRATION_SETTINGS"
        ready == Signal(data, "READY")
        start == Signal("APP_LOOP", "START")
    IN \/ /\ At("INITIAL_COMMAND", "CONNECTING_APP_LOOP", "CALIBRATION_ACK")
          /\ \E v \in Arrivals : Between(q, <<>>, <<Signal("START_CMD", "ACK"), ready, Payload(data, v)>>)
       \/ /\ At("WAITING_FOR_CALIBRATION", "CONNECTING_APP_LOOP", "CALIBRATION_ACK")
          /\ \E v \in Arrivals : Between(q, <<>>, <<ready, Payload(data, v)>>)
       \/ At("WAITING_FOR_CALIBRATION_DATA", "CONNECTING_APP_LOOP", "CALIBRATION_ACK") /\ Offered(q, data)
       \/ /\ At("FINAL_COMMAND", "CONNECTING_APP_LOOP", "CALIBRATION_ACK")
          /\ Between(q, <<Signal(data, "ACK"), start>>, <<>>)
       \/ At("FINAL_COMMAND", "CONNECTING_APP_LOOP", "FINAL_COMMAND") /\ Between(q, <<start>>, <<>>)
       \/ state = "FINAL_COMMAND" /\ board = "APP_LOOP" /\ Between(q, <<>>, <<Signal("APP_LOOP", "ACK")>>)

(* A procedure is asked for, and the board has not read it.                *)
Asks(q) ==
    /\ state = "INITIAL_COMMAND" /\ Settles(q, <<Signal(action, "START")>>)
    /\ action \in Uploads /\ tasks.strays["ping"] = 0 =>
         up # <<>> /\ up[Len(up)] = Signal(action, "START")

InFlightWith(q) ==
    \/ /\ At("INITIAL_COMMAND", "FLIGHT_LOOP", "CONTROLS_ACK")
       /\ \E v \in Arrivals : Between(q, <<>>, <<FlightAck, Payload("CONTROL_SETTINGS", v)>>)
    \/ At("WAITING_FOR_CONTROLS", "FLIGHT_LOOP", "CONTROLS_ACK") /\ Offered(q, "CONTROL_SETTINGS")
    \/ /\ At("WAITING_FOR_ROUTE_COMMAND", "FLIGHT_LOOP", "CONTROLS_ACK")
       /\ Between(q, <<Signal("CONTROL_SETTINGS", "ACK")>>, <<>>)
    \/ /\ At("WAITING_FOR_ROUTE_COMMAND", "FLIGHT_LOOP", "ROUTE_ACK")
       /\ \E v \in Arrivals : Between(q, <<>>, <<RouteAllowed, Payload("ROUTE_CONTAINER", v)>>)
    \/ At("WAITING_FOR_ROUTE", "FLIGHT_LOOP", "ROUTE_ACK") /\ Offered(q, "ROUTE_CONTAINER")
    \/ /\ state \in {"FLING", "BREAKING"}
       /\ \/ /\ board = "FLIGHT_LOOP" /\ stage = "ROUTE_ACK"
             /\ Between(q, <<Signal("ROUTE_CONTAINER", "ACK"), Ready>>, <<>>)
          \/ board = "FLIGHT_LOOP" /\ stage = "FINAL_COMMAND" /\ Between(q, <<Ready>>, <<>>)
          \/ board = "FLIGHT_LOOP" /\ stage = "RUNNING" /\ Between(q, <<>>, <<>>)
          \/ board = "APP_LOOP" /\ Between(q, <<>>, <<FlightEnds>>)

CalibratesAccel(q) ==
    LET data == "CALIBRATION_SETTINGS"
        done == Signal("CALIBRATE_ACCEL", "DONE")
    IN /\ board = "CALIBRATE_ACCEL"
       /\ \/ /\ state = "INITIAL_COMMAND"
             /\ \E v \in Arrivals :
                  Between(q, <<>>, <<Signal("CALIBRATE_ACCEL", "ACK"), done, Payload(data, v)>>)
          \/ /\ state = "WAITING_FOR_CALIBRATION"
             /\ \E v \in Arrivals : Between(q, <<>>, <<done, Payload(data, v)>>)
          \/ state = "WAITING_FOR_CALIBRATION_DATA" /\ Offered(q, data)

CalibratesMagnet(q) ==
    LET data == "CALIBRATION_SETTINGS"
        ack  == Signal("CALIBRATE_MAGNET", "ACK")
        done == Signal("CALIBRATE_MAGNET", "DONE")
    IN \/ At("INITIAL_COMMAND", "CALIBRATE_MAGNET", "USER_COMMAND") /\ Between(q, <<>>, <<ack>>)
       \/ At("WAITING_FOR_USER_COMMAND", "CALIBRATE_MAGNET", "USER_COMMAND") /\ Between(q, <<>>, <<>>)
       \/ At("WAITING_FOR_CALIBRATION", "CALIBRATE_MAGNET", "USER_COMMAND") /\ Between(q, <<done>>, <<>>)
       \/ /\ At("WAITING_FOR_CALIBRATION", "CALIBRATE_MAGNET", "CALIBRATION_ACK")
          /\ \E v \in Arrivals : Between(q, <<>>, <<done, Payload(data, v)>>)
       \/ /\ At("WAITING_FOR_CALIBRATION_DATA", "CALIBRATE_MAGNET", "CALIBRATION_ACK")
          /\ (\E v \in Arrivals : Between(q, <<>>, <<Payload(data, v)>>)) \/ (cut /\ Between(q, <<>>, <<>>))
       \/ /\ At("WAITING_FOR_CANCEL_ACK", "CALIBRATE_MAGNET", "USER_COMMAND")
          /\ Between(q, <<Signal("CALIBRATE_MAGNET", "SKIP")>>, <<>>)
       \/ state = "WAITING_FOR_CANCEL_ACK" /\ board = "APP_LOOP" /\ Between(q, <<>>, <<ack>>)

Downloads(q, c) ==
    /\ board = action
    /\ \/ /\ state = "INITIAL_COMMAND"
          /\ \E v \in Arrivals : Between(q, <<>>, <<Signal(action, "ACK"), Payload(c, v)>>)
       \/ state = "DOWNLOADING_DATA" /\ action = "DOWNLOAD_SETTINGS" /\ Offered(q, c)
       \/ /\ state = "DOWNLOADING_DATA" /\ action = "DOWNLOAD_ROUTE"
          /\ \/ \E v \in Arrivals : Between(q, <<>>, <<Payload(c, v)>>)
             \/ /\ down = <<>>
                /\ q \in {<<>>} \cup {<<Signal("DOWNLOAD_SETTINGS", p)>> : p \in {"ACK", "DATA_INVALID"}}

(* Under way, taken, or given up: for good, or at a stray ping.            *)
UploadsRecord(q, c) ==
    \/ /\ board = action /\ fails \in 0 .. 3 /\ (tasks.strays["ping"] = 0 => up = q)
       /\ \/ state = "INITIAL_COMMAND" /\ Between(q, <<>>, <<Signal(action, "ACK")>>)
          \/ state = "UPLOADING_DATA" /\ \E v \in Arrivals : Between(q, <<Payload(c, v)>>, <<>>)
          \/ state = "UPLOADING_DATA" /\ Between(q, <<>>, <<Signal(c, "DATA_INVALID")>>)
          \/ state = "UPLOADING_DATA" /\ cut /\ Between(q, <<>>, <<>>)
    \/ board = "APP_LOOP" /\ state = "UPLOADING_DATA" /\ Between(q, <<>>, <<Signal(c, "ACK")>>)
    \/ /\ board = "APP_LOOP" /\ (fails = 3 \/ tasks.strays["ping"] > 0)
       /\ \/ state = "INITIAL_COMMAND" /\ Between(q, <<>>, <<Signal(action, "ACK")>>)
          \/ /\ state = "UPLOADING_DATA"
             /\ \/ \E v \in Arrivals : Between(q, <<Payload(c, v)>>, <<>>)
                \/ q = <<>> /\ down \in {<<>>, <<Signal(c, "DATA_INVALID")>>, <<Signal(c, "TIMEOUT")>>}

Phase(q) ==
    \/ Fresh /\ down = <<>> /\ (Lost(q) \/ Greets(q))
    \/ /\ boardNews = <<>>
       /\ \/ action = "CONNECT" /\ Connects(q)
          \/ action = "APP_LOOP" /\ Settles(q, <<>>)
          \/ action = "DISCONNECT" /\ state = "WAITING" /\ Settles(q, <<Break>>)
          \/ action \in Procedures /\ Asks(q)
          \/ action = "FLIGHT_LOOP" /\ InFlightWith(q)
          \/ action = "CALIBRATE_ACCEL" /\ CalibratesAccel(q)
          \/ action = "CALIBRATE_MAGNET" /\ CalibratesMagnet(q)
          \/ action = "DOWNLOAD_SETTINGS" /\ Downloads(q, "CONTROL_SETTINGS")
          \/ action = "DOWNLOAD_ROUTE" /\ Downloads(q, "ROUTE_CONTAINER")
          \/ action = "UPLOAD_SETTINGS" /\ UploadsRecord(q, "CONTROL_SETTINGS")
          \/ action = "UPLOAD_ROUTE" /\ UploadsRecord(q, "ROUTE_CONTAINER")

PhaseInv ==
    status = "open" /\ ~closing =>
      /\ appNews # <<>> => \E q \in Seq(Messages) : Reads(up, q) /\ Opening(q)
      /\ appNews = <<>> /\ ~astray => \E q \in Seq(Messages) : Reads(up, q) /\ Phase(q)

Timers == {"null", "live", "cancelled"}

TasksTyped(ts) ==
    /\ DOMAIN ts = {"running", "timer", "strays"}
    /\ ts.timer \in [Tasks -> Timers] /\ ts.strays \in [Tasks -> Nat]

TaskInv ==
    /\ TasksTyped(tasks)
    /\ action \notin {"IDLE", "CONNECT", "DISCONNECT"} => tasks.timer["ping"] # "null"
    /\ action \in Uploads => tasks.timer["ping"] # "live"
    /\ Flies /\ ~astray => tasks.timer["control"] # "null"
    /\ action = "DISCONNECT" => state \in {"WAITING", "DONE"}

(* The board that is about to close hears nothing of the connection.       *)
CloseInv ==
    closing => IF status = "open" THEN boardNews = <<>> ELSE boardNews # <<>>

StepInv == SessionInv /\ TaskInv /\ CloseInv /\ PhaseInv
-----------------------------------------------------------------------------
(***************************************************************************)
(* Reading.                                                                *)
(***************************************************************************)
LEMMA MessagesDiffer ==
  /\ \A c, p, d, r : Signal(c, p) = Signal(d, r) <=> c = d /\ p = r
  /\ \A c, p, d, r : Payload(c, p) = Payload(d, r) <=> c = d /\ p = r
  /\ \A c, d : Frame(c) = Frame(d) <=> c = d
  /\ \A c, p, d, r : Signal(c, p) # Payload(d, r) /\ Signal(c, p) # Frame(d) /\ Payload(c, p) # Frame(d)
<1>1. \A c, p : /\ Signal(c, p).kind = "signal" /\ Signal(c, p).command = c /\ Signal(c, p).parameter = p
                /\ Payload(c, p).kind = "payload" /\ Payload(c, p).command = c /\ Payload(c, p).parameter = p
                /\ Frame(c).kind = "frame" /\ Frame(c).command = c
  BY DEF Signal, Payload, Frame
<1> QED BY <1>1

LEMMA NoiseIsKnown ==
  /\ Noise \subseteq Messages
  /\ \A c, p : c # "PING_VALUE" => Signal(c, p) \notin Noise
  /\ \A c, p : Payload(c, p) \notin Noise
  /\ \A m \in Noise : m.parameter \notin Arrivals
<1>1. Ping = Signal("PING_VALUE", "value")
  BY DEF Ping
<1>2. /\ "PING_VALUE" \in Commands /\ "CONTROL" \in Commands /\ "STOP" \in Commands
      /\ "value" \in Parameters
  BY DEF Commands, Parameters
<1>3. Noise \subseteq Messages
  BY <1>1, <1>2, SignalsAreMessages DEF Noise
<1>4. Ping.parameter \notin Arrivals /\ \A f : Frame(f).parameter \notin Arrivals
  BY DEF Ping, Signal, Frame, Arrivals, Contents
<1>5. \A m \in Noise : m.parameter \notin Arrivals
  BY <1>4 DEF Noise
<1> QED BY <1>1, <1>3, <1>5, MessagesDiffer DEF Noise

LEMMA ReadsNothing ==
  /\ Reads(<<>>, <<>>)
  /\ \A q \in Seq(Messages) : Reads(<<>>, q) => q = <<>>
<1>1. Reads(<<>>, <<>>)
  <2> DEFINE f == [i \in {} |-> 0]
  <2>1. DOMAIN <<>> = {} /\ f \in [{} -> {}]
    OBVIOUS
  <2> QED BY <2>1 DEF Reads
<1>2. ASSUME NEW q \in Seq(Messages), Reads(<<>>, q) PROVE q = <<>>
  <2>1. PICK f \in [DOMAIN q -> DOMAIN <<>>] : TRUE
    BY <1>2 DEF Reads
  <2>2. DOMAIN <<>> = {}
    OBVIOUS
  <2>3. DOMAIN q = {}
    BY <2>1, <2>2
  <2> QED BY <2>3
<1> QED BY <1>1, <1>2

(* Nothing but noise.                                                      *)
LEMMA ReadsNoiseOnly ==
  ASSUME NEW s \in Seq(Messages), NEW q \in Seq(Messages), Reads(s, q),
         \A k \in DOMAIN s : s[k] \in Noise
  PROVE  q = <<>>
<1>1. PICK f \in [DOMAIN q -> DOMAIN s] : \A i \in DOMAIN q : q[i] = s[f[i]] /\ q[i] \notin Noise
  BY DEF Reads
<1>2. DOMAIN q = {}
  BY <1>1
<1> QED BY <1>2

LEMMA ReadsWithNoise ==
  ASSUME NEW s \in Seq(Messages), NEW q \in Seq(Messages), NEW n \in Noise, Reads(s, q)
  PROVE  Reads(s \o <<n>>, q)
<1> DEFINE r == s \o <<n>>
<1>1. /\ Len(s) \in Nat /\ DOMAIN s = 1..Len(s) /\ DOMAIN r = 1..(Len(s) + 1)
      /\ \A k \in 1..Len(s) : r[k] = s[k]
      /\ r[Len(s) + 1] = n
  BY NoiseIsKnown
<1>2. PICK f \in [DOMAIN q -> DOMAIN s] :
        /\ \A i, j \in DOMAIN q : i < j => f[i] < f[j]
        /\ \A i \in DOMAIN q : q[i] = s[f[i]] /\ q[i] \notin Noise
        /\ \A k \in DOMAIN s : s[k] \in Noise \/ \E i \in DOMAIN q : k = f[i]
  BY DEF Reads
<1> HIDE DEF r
<1>3. f \in [DOMAIN q -> DOMAIN r]
  BY <1>1, <1>2
<1>4. \A i \in DOMAIN q : q[i] = r[f[i]]
  BY <1>1, <1>2
<1>5. \A k \in DOMAIN r : r[k] \in Noise \/ \E i \in DOMAIN q : k = f[i]
  BY <1>1, <1>2
<1>6. Reads(r, q)
  BY <1>2, <1>3, <1>4, <1>5 DEF Reads
<1> QED BY <1>6 DEF r

LEMMA ReadsWithMore ==
  ASSUME NEW s \in Seq(Messages), NEW q \in Seq(Messages), NEW a \in Messages, a \notin Noise, Reads(s, q)
  PROVE  Reads(s \o <<a>>, q \o <<a>>)
<1> DEFINE r == s \o <<a>>
           u == q \o <<a>>
<1>1. /\ Len(s) \in Nat /\ DOMAIN s = 1..Len(s) /\ DOMAIN r = 1..(Len(s) + 1)
      /\ \A k \in 1..Len(s) : r[k] = s[k]
      /\ r[Len(s) + 1] = a
  OBVIOUS
<1>2. /\ Len(q) \in Nat /\ DOMAIN q = 1..Len(q) /\ DOMAIN u = 1..(Len(q) + 1)
      /\ \A k \in 1..Len(q) : u[k] = q[k]
      /\ u[Len(q) + 1] = a
  OBVIOUS
<1>3. PICK f \in [DOMAIN q -> DOMAIN s] :
        /\ \A i, j \in DOMAIN q : i < j => f[i] < f[j]
        /\ \A i \in DOMAIN q : q[i] = s[f[i]] /\ q[i] \notin Noise
        /\ \A k \in DOMAIN s : s[k] \in Noise \/ \E i \in DOMAIN q : k = f[i]
  BY DEF Reads
<1> HIDE DEF r, u
<1> DEFINE g == [i \in DOMAIN u |-> IF i <= Len(q) THEN f[i] ELSE Len(s) + 1]
<1>4. /\ \A i \in 1..Len(q) : i \in DOMAIN u /\ g[i] = f[i] /\ f[i] \in 1..Len(s)
      /\ Len(q) + 1 \in DOMAIN u /\ g[Len(q) + 1] = Len(s) + 1
      /\ \A i \in DOMAIN u : i \in 1..Len(q) \/ i = Len(q) + 1
  <2>1. \A i \in 1..Len(q) : i \in DOMAIN u /\ i <= Len(q) /\ i \in DOMAIN q
    BY <1>2
  <2>2. Len(q) + 1 \in DOMAIN u /\ ~(Len(q) + 1 <= Len(q))
    BY <1>2
  <2>3. \A i \in DOMAIN u : i \in 1..Len(q) \/ i = Len(q) + 1
    BY <1>2
  <2>4. \A i \in 1..Len(q) : g[i] = f[i]
    BY <2>1
  <2>5. g[Len(q) + 1] = Len(s) + 1
    BY <2>2
  <2> QED BY <1>1, <1>3, <2>1, <2>2, <2>3, <2>4, <2>5
<1> HIDE DEF g
<1>5. g \in [DOMAIN u -> DOMAIN r]
  <2>1. 1..Len(s) \subseteq DOMAIN r /\ Len(s) + 1 \in DOMAIN r
    BY <1>1
  <2>2. \A i \in DOMAIN u : g[i] \in DOMAIN r
    BY <1>4, <2>1
  <2>3. g = [i \in DOMAIN u |-> g[i]]
    BY DEF g
  <2> QED BY <2>2, <2>3
<1>6. ASSUME NEW i \in DOMAIN u, NEW j \in DOMAIN u, i < j PROVE g[i] < g[j]
  <2>1. i \in 1..Len(q) /\ i \in DOMAIN q
    BY <1>2, <1>6
  <2>2. CASE j = Len(q) + 1
    <3>1. g[i] \in 1..Len(s) /\ g[j] = Len(s) + 1
      BY <1>4, <2>1, <2>2
    <3> QED BY <1>1, <3>1
  <2>3. CASE j \in 1..Len(q)
    <3>1. g[i] = f[i] /\ g[j] = f[j] /\ j \in DOMAIN q
      BY <1>2, <1>4, <2>1, <2>3
    <3> QED BY <1>3, <1>6, <2>1, <3>1
  <2> QED BY <1>4, <2>2, <2>3
<1>7. \A i \in DOMAIN u : u[i] = r[g[i]] /\ u[i] \notin Noise
  BY <1>1, <1>2, <1>3, <1>4
<1>8. ASSUME NEW k \in DOMAIN r PROVE r[k] \in Noise \/ \E i \in DOMAIN u : k = g[i]
  <2>1. CASE k = Len(s) + 1
    BY <1>4, <2>1
  <2>2. CASE k \in 1..Len(s) /\ r[k] \notin Noise
    <3>1. PICK i \in DOMAIN q : k = f[i]
      BY <1>1, <1>3, <2>2
    <3> QED BY <1>2, <1>4, <3>1
  <2> QED BY <1>1, <2>1, <2>2
<1>9. Reads(r, u)
  BY <1>5, <1>6, <1>7, <1>8 DEF Reads
<1> QED BY <1>9 DEF r, u

(* The first is heard: noise, or the first of q.                           *)
LEMMA ReadsNoiseFirst ==
  ASSUME NEW s \in Seq(Messages), NEW q \in Seq(Messages), Reads(s, q), s # <<>>, Head(s) \in Noise
  PROVE  Reads(Tail(s), q)
<1> DEFINE t == Tail(s)
<1>1. /\ Len(s) \in Nat /\ Len(s) >= 1 /\ DOMAIN s = 1..Len(s) /\ Head(s) = s[1]
      /\ DOMAIN t = 1..(Len(s) - 1)
      /\ \A k \in 1..(Len(s) - 1) : t[k] = s[k + 1]
  BY HeadTailProperties, EmptySeq, LenProperties
<1>2. PICK f \in [DOMAIN q -> DOMAIN s] :
        /\ \A i, j \in DOMAIN q : i < j => f[i] < f[j]
        /\ \A i \in DOMAIN q : q[i] = s[f[i]] /\ q[i] \notin Noise
        /\ \A k \in DOMAIN s : s[k] \in Noise \/ \E i \in DOMAIN q : k = f[i]
  BY DEF Reads
<1> HIDE DEF t
<1> DEFINE g == [i \in DOMAIN q |-> f[i] - 1]
<1>3. \A i \in DOMAIN q : f[i] \in 2..Len(s)
  BY <1>1, <1>2
<1>4. g \in [DOMAIN q -> DOMAIN t] /\ \A i \in DOMAIN q : g[i] + 1 = f[i]
  BY <1>1, <1>3
<1> HIDE DEF g
<1>5. \A i, j \in DOMAIN q : i < j => g[i] < g[j]
  <2>1. \A i \in DOMAIN q : g[i] = f[i] - 1 /\ f[i] \in Nat
    BY <1>1, <1>3 DEF g
  <2> QED BY <1>2, <2>1
<1>6. \A i \in DOMAIN q : q[i] = t[g[i]] /\ q[i] \notin Noise
  BY <1>1, <1>2, <1>4
<1>7. ASSUME NEW k \in DOMAIN t PROVE t[k] \in Noise \/ \E i \in DOMAIN q : k = g[i]
  <2>1. k + 1 \in DOMAIN s /\ t[k] = s[k + 1] /\ k \in Nat
    BY <1>1
  <2>2. CASE \E i \in DOMAIN q : k + 1 = f[i]
    <3>1. PICK i \in DOMAIN q : k + 1 = f[i]
      BY <2>2
    <3>2. g[i] = k
      BY <1>4, <2>1, <3>1 DEF g
    <3> QED BY <3>2
  <2> QED BY <1>2, <2>1, <2>2
<1>8. Reads(t, q)
  BY <1>4, <1>5, <1>6, <1>7 DEF Reads
<1> QED BY <1>8 DEF t

LEMMA ReadsFirst ==
  ASSUME NEW s \in Seq(Messages), NEW q \in Seq(Messages), Reads(s, q), s # <<>>, Head(s) \notin Noise
  PROVE  q # <<>> /\ Head(q) = Head(s) /\ Reads(Tail(s), Tail(q))
<1> DEFINE t == Tail(s)
           u == Tail(q)
<1>1. /\ Len(s) \in Nat /\ Len(s) >= 1 /\ DOMAIN s = 1..Len(s) /\ Head(s) = s[1]
      /\ DOMAIN t = 1..(Len(s) - 1)
      /\ \A k \in 1..(Len(s) - 1) : t[k] = s[k + 1]
  BY HeadTailProperties, EmptySeq, LenProperties
<1>2. PICK f \in [DOMAIN q -> DOMAIN s] :
        /\ \A i, j \in DOMAIN q : i < j => f[i] < f[j]
        /\ \A i \in DOMAIN q : q[i] = s[f[i]] /\ q[i] \notin Noise
        /\ \A k \in DOMAIN s : s[k] \in Noise \/ \E i \in DOMAIN q : k = f[i]
  BY DEF Reads
<1>3. PICK e \in DOMAIN q : f[e] = 1
  BY <1>1, <1>2
<1>4. q # <<>>
  BY <1>3
<1>5. /\ Len(q) \in Nat /\ Len(q) >= 1 /\ DOMAIN q = 1..Len(q) /\ Head(q) = q[1]
      /\ DOMAIN u = 1..(Len(q) - 1)
      /\ \A k \in 1..(Len(q) - 1) : u[k] = q[k + 1]
  BY <1>4, HeadTailProperties, EmptySeq, LenProperties
<1>6. f[1] = 1
  <2>1. 1 \in DOMAIN q /\ e \in Nat /\ f[1] \in Nat /\ f[1] >= 1 /\ e >= 1
    BY <1>1, <1>2, <1>5
  <2>2. e > 1 => f[1] < f[e]
    BY <1>2, <2>1
  <2> QED BY <1>3, <2>1, <2>2
<1> HIDE DEF t, u
<1> DEFINE g == [i \in DOMAIN u |-> f[i + 1] - 1]
<1>7. \A i \in DOMAIN u : i + 1 \in DOMAIN q /\ f[i + 1] \in 2..Len(s) /\ g[i] = f[i + 1] - 1
  <2> TAKE i \in DOMAIN u
  <2>1. i + 1 \in DOMAIN q /\ 1 \in DOMAIN q /\ 1 < i + 1
    BY <1>5
  <2>2. f[1] < f[i + 1] /\ f[i + 1] \in 1..Len(s)
    BY <1>1, <1>2, <2>1
  <2> QED BY <1>1, <1>6, <2>1, <2>2
<1>8. g \in [DOMAIN u -> DOMAIN t]
  <2>1. \A i \in DOMAIN u : f[i + 1] - 1 \in DOMAIN t
    BY <1>1, <1>7
  <2> QED BY <2>1
<1> HIDE DEF g
<1>9. ASSUME NEW i \in DOMAIN u, NEW j \in DOMAIN u, i < j PROVE g[i] < g[j]
  <2>1. i + 1 < j + 1
    BY <1>5, <1>9
  <2>2. f[i + 1] < f[j + 1]
    BY <1>2, <1>7, <2>1
  <2> QED BY <1>1, <1>7, <2>2
<1>10. \A i \in DOMAIN u : u[i] = t[g[i]] /\ u[i] \notin Noise
  <2> TAKE i \in DOMAIN u
  <2>1. u[i] = q[i + 1] /\ q[i + 1] = s[f[i + 1]] /\ q[i + 1] \notin Noise
    BY <1>2, <1>5, <1>7
  <2>2. g[i] \in 1..(Len(s) - 1) /\ g[i] + 1 = f[i + 1]
    <3>1. \A z \in 2..Len(s) : z - 1 \in 1..(Len(s) - 1) /\ (z - 1) + 1 = z
      BY <1>1
    <3> QED BY <1>7, <3>1
  <2>3. t[g[i]] = s[g[i] + 1]
    BY <1>1, <2>2
  <2> QED BY <2>1, <2>2, <2>3
<1>11. ASSUME NEW k \in DOMAIN t PROVE t[k] \in Noise \/ \E i \in DOMAIN u : k = g[i]
  <2>1. k + 1 \in DOMAIN s /\ t[k] = s[k + 1] /\ k \in Nat /\ k >= 1
    BY <1>1
  <2>2. CASE \E j \in DOMAIN q : k + 1 = f[j]
    <3>1. PICK j \in DOMAIN q : k + 1 = f[j]
      BY <2>2
    <3>2. j \in Nat /\ j # 1 /\ j >= 1
      BY <1>5, <1>6, <2>1, <3>1
    <3>3. j - 1 \in DOMAIN u /\ (j - 1) + 1 = j
      BY <1>5, <3>2
    <3>4. g[j - 1] = k
      BY <1>7, <2>1, <3>1, <3>3
    <3> QED BY <3>3, <3>4
  <2> QED BY <1>2, <2>1, <2>2
<1>12. Reads(t, u)
  BY <1>8, <1>9, <1>10, <1>11 DEF Reads
<1>13. Head(q) = Head(s)
  BY <1>1, <1>2, <1>5, <1>6
<1> QED BY <1>4, <1>12, <1>13 DEF t, u

(* A record that arrives garbled is one of q.                              *)
LEMMA ReadsGarbled ==
  ASSUME NEW s \in Seq(Messages), NEW q \in Seq(Messages), Reads(s, q),
         NEW k \in DOMAIN s, s[k].parameter \in Contents, NEW v \in {"invalid", "cut"}
  PROVE  \E e \in DOMAIN q : q[e].parameter \in Contents /\ Reads(Garbled(s, k, v), Garbled(q, e, v))
<1> DEFINE t == Garbled(s, k, v)
<1>1. PICK f \in [DOMAIN q -> DOMAIN s] :
        /\ \A i, j \in DOMAIN q : i < j => f[i] < f[j]
        /\ \A i \in DOMAIN q : q[i] = s[f[i]] /\ q[i] \notin Noise
        /\ \A h \in DOMAIN s : s[h] \in Noise \/ \E i \in DOMAIN q : h = f[i]
  BY DEF Reads
<1>2. s[k] \notin Noise
  BY NoiseIsKnown DEF Arrivals
<1>3. PICK e \in DOMAIN q : k = f[e]
  BY <1>1, <1>2
<1> DEFINE u == Garbled(q, e, v)
           x == [s[k] EXCEPT !.parameter = v]
<1>4. /\ q[e] = s[k]
      /\ t = [s EXCEPT ![k] = x] /\ u = [q EXCEPT ![e] = x]
      /\ DOMAIN t = DOMAIN s /\ DOMAIN u = DOMAIN q
      /\ DOMAIN s \subseteq Nat /\ DOMAIN q \subseteq Nat
  <2>1. q[e] = s[k]
    BY <1>1, <1>3
  <2>2. t = [s EXCEPT ![k] = x] /\ u = [q EXCEPT ![e] = x]
    BY <2>1 DEF Garbled
  <2>3. DOMAIN s = 1..Len(s) /\ DOMAIN q = 1..Len(q)
    BY LenProperties
  <2> QED BY <2>1, <2>2, <2>3
<1>5. x \notin Noise
  <2>1. x.kind = s[k].kind /\ x.command = s[k].command /\ x.parameter = v
    BY DEF Messages
  <2>2. Ping.parameter = "value" /\ \A h : Frame(h).parameter = "none"
    BY DEF Ping, Signal, Frame
  <2> QED BY <2>1, <2>2 DEF Noise
<1>6. \A i \in DOMAIN q : f[i] = k <=> i = e
  BY <1>1, <1>3, <1>4
<1>7. \A h \in DOMAIN s : t[h] = IF h = k THEN x ELSE s[h]
  BY <1>4
<1>8. \A i \in DOMAIN q : u[i] = IF i = e THEN x ELSE q[i]
  BY <1>4
<1> HIDE DEF t, u, x
<1>9. f \in [DOMAIN u -> DOMAIN t] /\ \A i, j \in DOMAIN u : i < j => f[i] < f[j]
  BY <1>1, <1>4
<1>10. \A i \in DOMAIN u : u[i] = t[f[i]] /\ u[i] \notin Noise
  BY <1>1, <1>3, <1>4, <1>5, <1>6, <1>7, <1>8
<1>11. \A h \in DOMAIN t : t[h] \in Noise \/ \E i \in DOMAIN u : h = f[i]
  BY <1>1, <1>3, <1>4, <1>7
<1>12. Reads(t, u)
  BY <1>9, <1>10, <1>11 DEF Reads
<1>13. q[e].parameter \in Contents
  BY <1>4
<1> QED BY <1>12, <1>13 DEF t, u
-----------------------------------------------------------------------------
(***************************************************************************)
(* The application's steps.                                                *)
(***************************************************************************)
LEMMA ShortQueues ==
  ASSUME NEW a \in Messages, NEW b \in Messages, NEW c \in Messages
  PROVE  /\ Head(<<a>>) = a /\ Head(<<a, b>>) = a /\ Head(<<a, b, c>>) = a
         /\ Tail(<<a>>) = <<>> /\ Tail(<<a, b>>) = <<b>> /\ Tail(<<a, b, c>>) = <<b, c>>
         /\ <<>> \o <<a>> = <<a>> /\ <<a>> \o <<b>> = <<a, b>> /\ <<>> \o <<a, b>> = <<a, b>>
         /\ <<>> \o <<a, b, c>> = <<a, b, c>> /\ <<a>> \o <<b, c>> = <<a, b, c>>
         /\ <<a, b>> \o <<c>> = <<a, b, c>>
         /\ <<>> \o <<>> = <<>> /\ <<a>> \o <<>> = <<a>> /\ <<a, b>> \o <<>> = <<a, b>>
         /\ <<a>> # <<>> /\ <<a, b>> # <<>> /\ <<a, b, c>> # <<>>
         /\ <<a>> # <<b, c>>
<1>1. /\ Head(<<a>>) = a /\ Head(<<a, b>>) = a /\ Head(<<a, b, c>>) = a
      /\ Tail(<<a>>) = <<>> /\ Tail(<<a, b>>) = <<b>> /\ Tail(<<a, b, c>>) = <<b, c>>
  OBVIOUS
<1>2. /\ <<>> \o <<a>> = <<a>> /\ <<>> \o <<a, b>> = <<a, b>> /\ <<>> \o <<a, b, c>> = <<a, b, c>>
      /\ <<>> \o <<>> = <<>> /\ <<a>> \o <<>> = <<a>> /\ <<a, b>> \o <<>> = <<a, b>>
  OBVIOUS
<1>3. <<a>> \o <<b>> = <<a, b>> /\ <<a>> \o <<b, c>> = <<a, b, c>> /\ <<a, b>> \o <<c>> = <<a, b, c>>
  <2> DEFINE s == <<a>> \o <<b>>
             t == <<a>> \o <<b, c>>
             u == <<a, b>> \o <<c>>
  <2>1. /\ s \in Seq(Messages) /\ Len(s) = 2 /\ s[1] = a /\ s[2] = b
        /\ t \in Seq(Messages) /\ Len(t) = 3 /\ t[1] = a /\ t[2] = b /\ t[3] = c
    OBVIOUS
  <2>0. u \in Seq(Messages) /\ Len(u) = 3 /\ u[1] = a /\ u[2] = b /\ u[3] = c
    OBVIOUS
  <2>2. /\ <<a, b>> \in Seq(Messages) /\ Len(<<a, b>>) = 2
        /\ <<a, b, c>> \in Seq(Messages) /\ Len(<<a, b, c>>) = 3
    OBVIOUS
  <2>3. 1..2 = {1, 2} /\ 1..3 = {1, 2, 3}
    OBVIOUS
  <2> HIDE DEF s, t, u
  <2>4. \A i \in 1..Len(s) : s[i] = <<a, b>>[i]
    BY <2>1, <2>3
  <2>5. \A i \in 1..Len(t) : t[i] = <<a, b, c>>[i]
    BY <2>1, <2>3
  <2>6. s = <<a, b>>
    BY <2>1, <2>2, <2>4, SeqEqual
  <2>7. t = <<a, b, c>>
    BY <2>1, <2>2, <2>5, SeqEqual
  <2>8. \A i \in 1..Len(u) : u[i] = <<a, b, c>>[i]
    BY <2>0, <2>3
  <2>9. u = <<a, b, c>>
    BY <2>0, <2>2, <2>8, SeqEqual
  <2> QED BY <2>6, <2>7, <2>9 DEF s, t, u
<1>5. /\ <<a>> # <<>> /\ <<a, b>> # <<>> /\ <<a, b, c>> # <<>>
      /\ <<a>> # <<b, c>>
  OBVIOUS
<1> QED BY <1>1, <1>2, <1>3, <1>5

(* What the application sends is read after what it has sent before.       *)
LEMMA ReadsAnswers ==
  ASSUME NEW s \in Seq(Messages), NEW q \in Seq(Messages), Reads(s, q),
         NEW a \in Messages \ Noise, NEW b \in Messages \ Noise,
         NEW ms \in {<<>>, <<a>>, <<a, b>>}
  PROVE  q \o ms \in Seq(Messages) /\ Reads(s \o ms, q \o ms)
<1>1. CASE ms = <<>>
  <2>1. s \o <<>> = s /\ q \o <<>> = q
    BY ConcatEmptySeq
  <2> QED BY <1>1, <2>1
<1>2. CASE ms = <<a>>
  BY <1>2, ReadsWithMore
<1>3. CASE ms = <<a, b>>
  <2>1. s \o <<a>> \in Seq(Messages) /\ q \o <<a>> \in Seq(Messages) /\ Reads(s \o <<a>>, q \o <<a>>)
    BY ReadsWithMore
  <2>2. Reads((s \o <<a>>) \o <<b>>, (q \o <<a>>) \o <<b>>)
    BY <2>1, ReadsWithMore
  <2>3. (s \o <<a>>) \o <<b>> = s \o <<a, b>> /\ (q \o <<a>>) \o <<b>> = q \o <<a, b>>
    <3>1. <<a>> \o <<b>> = <<a, b>>
      BY ShortQueues
    <3>2. <<a>> \in Seq(Messages) /\ <<b>> \in Seq(Messages)
      OBVIOUS
    <3>3. (s \o <<a>>) \o <<b>> = s \o (<<a>> \o <<b>>)
      BY <3>2, ConcatAssociative
    <3>4. (q \o <<a>>) \o <<b>> = q \o (<<a>> \o <<b>>)
      BY <3>2, ConcatAssociative
    <3> QED BY <3>1, <3>3, <3>4
  <2>4. q \o <<a, b>> \in Seq(Messages)
    OBVIOUS
  <2> QED BY <1>3, <2>2, <2>3, <2>4
<1> QED BY <1>1, <1>2, <1>3

(* An application that hears something is in the middle of something.      *)
Midway(q) ==
    \/ action = "CONNECT" /\ Connects(q)
    \/ action = "FLIGHT_LOOP" /\ InFlightWith(q)
    \/ action = "CALIBRATE_ACCEL" /\ CalibratesAccel(q)
    \/ action = "CALIBRATE_MAGNET" /\ CalibratesMagnet(q)
    \/ action = "DOWNLOAD_SETTINGS" /\ Downloads(q, "CONTROL_SETTINGS")
    \/ action = "DOWNLOAD_ROUTE" /\ Downloads(q, "ROUTE_CONTAINER")
    \/ action = "UPLOAD_SETTINGS" /\ UploadsRecord(q, "CONTROL_SETTINGS")
    \/ action = "UPLOAD_ROUTE" /\ UploadsRecord(q, "ROUTE_CONTAINER")

LEMMA HearsMidway ==
  ASSUME NEW q
  PROVE  /\ Phase(q) /\ down # <<>> => boardNews = <<>> /\ Midway(q)
         /\ boardNews = <<>> /\ Midway(q) => Phase(q)
  BY DEF Phase, Midway, Asks, Settles

(* Answering, it stays in it or goes to the application loop.              *)
LEMMA AnswerKeepsPhase ==
  ASSUME LinkInv, PhaseInv, NEW m, AppHears(m), NEW a \in Messages \ Noise, NEW b \in Messages \ Noise,
         NEW ms \in {<<>>, <<a>>, <<a, b>>}, AppAnswers(ms), UNCHANGED boardSide,
         \/ astray'
         \/ /\ astray' = astray
            /\ \A q \in Seq(Messages) : boardNews = <<>> /\ Midway(q) => Midway(q \o ms)' \/ Phase(q \o ms)'
  PROVE  PhaseInv'
<1>1. /\ status = "open" /\ appNews = <<>> /\ down # <<>> /\ status' = status /\ appNews' = appNews
      /\ boardNews' = boardNews /\ closing' = closing /\ up' = up \o ms /\ up \in Seq(Messages)
  BY DEF AppHears, AppAnswers, channel, boardSide, LinkInv
<1>2. SUFFICES ASSUME ~closing, ~astray', astray' = astray
               PROVE  \E q \in Seq(Messages) : Reads(up', q) /\ Phase(q)'
  BY <1>1 DEF PhaseInv
<1>3. PICK q \in Seq(Messages) : Reads(up, q) /\ Phase(q)
  BY <1>1, <1>2 DEF PhaseInv
<1>4. boardNews = <<>> /\ Midway(q)
  BY <1>1, <1>3, HearsMidway
<1>5. q \o ms \in Seq(Messages) /\ Reads(up \o ms, q \o ms)
  BY <1>1, <1>3, ReadsAnswers
<1>6. (boardNews = <<>>)' /\ Midway(q \o ms)' => Phase(q \o ms)'
  BY DEF Phase, Midway
<1>7. Phase(q \o ms)'
  BY <1>1, <1>2, <1>3, <1>4, <1>6
<1> QED BY <1>1, <1>5, <1>7

(* The names the messages have.                                            *)
LEMMA NamesAreKnown ==
  /\ {"ACK", "READY", "DONE", "SKIP", "START", "BREAK", "DATA_INVALID", "TIMEOUT",
      "BREAK_ACK", "VIA_ROUTE_ALLOWED", "valid", "invalid", "cut"} \subseteq Parameters
  /\ Contents \subseteq Parameters /\ Arrivals \subseteq Parameters
  /\ {"START_CMD", "APP_LOOP", "CALIBRATION_SETTINGS", "CONTROL_SETTINGS", "ROUTE_CONTAINER"}
       \cup Procedures \subseteq Commands \ {"PING_VALUE"}
  /\ {"FLIGHT_LOOP", "CALIBRATE_ACCEL", "CALIBRATE_MAGNET", "UPLOAD_SETTINGS",
      "DOWNLOAD_SETTINGS", "UPLOAD_ROUTE", "DOWNLOAD_ROUTE"} \subseteq Procedures
  BY DEF Parameters, Contents, Arrivals, Commands, Procedures

(* All of them but the pings count.                                        *)
LEMMA Significant ==
  /\ \A c \in Commands \ {"PING_VALUE"}, p \in Parameters : Signal(c, p) \in Messages \ Noise
  /\ \A c \in Commands, p \in Parameters : Payload(c, p) \in Messages \ Noise
  BY SignalsAreMessages, NoiseIsKnown

LEMMA ConnectKeepsPhase ==
  ASSUME LinkInv, PhaseInv, HandleConnect, UNCHANGED boardSide
  PROVE  PhaseInv'
<1> USE DEF boardSide, own, channel, AppHears, AppAnswers, Moves, Goto, Refuses, Ends, ToAppLoop,
        Midway, Connects, At, Between
<1>1. CASE /\ state = "INITIAL_COMMAND" /\ AppHears(Signal("START_CMD", "ACK")) /\ AppAnswers(<<>>)
           /\ state' = "WAITING_FOR_CALIBRATION" /\ connectTimer' = FALSE
           /\ UNCHANGED <<action, astray, record, tasks, abandoned>>
  <2>1. ASSUME NEW q \in Seq(Messages), boardNews = <<>>, Midway(q) PROVE Midway(q \o <<>>)'
    <3>1. PICK v \in Arrivals :
            Between(q, <<>>, <<Signal("START_CMD", "ACK"), Signal("CALIBRATION_SETTINGS", "READY"),
                               Payload("CALIBRATION_SETTINGS", v)>>)
      BY <1>1, <2>1, MessagesDiffer DEF HandleConnect, Offered
    <3> QED BY <1>1, <2>1, <3>1 DEF HandleConnect, Offered
  <2> QED BY <1>1, <2>1, AnswerKeepsPhase, Significant, NamesAreKnown DEF HandleConnect
<1>2. CASE Moves("WAITING_FOR_CALIBRATION", Signal("CALIBRATION_SETTINGS", "READY"),
                <<>>, "WAITING_FOR_CALIBRATION_DATA")
  <2>1. ASSUME NEW q \in Seq(Messages), boardNews = <<>>, Midway(q) PROVE Midway(q \o <<>>)'
    <3>1. PICK v \in Arrivals :
            Between(q, <<>>, <<Signal("CALIBRATION_SETTINGS", "READY"),
                               Payload("CALIBRATION_SETTINGS", v)>>)
      BY <1>2, <2>1, MessagesDiffer DEF HandleConnect, Offered
    <3> QED BY <1>2, <2>1, <3>1 DEF HandleConnect, Offered
  <2> QED BY <1>2, <2>1, AnswerKeepsPhase, Significant, NamesAreKnown DEF HandleConnect
<1>3. CASE Moves("WAITING_FOR_CALIBRATION_DATA", Payload("CALIBRATION_SETTINGS", "valid"),
                <<Signal("CALIBRATION_SETTINGS", "ACK"), Signal("APP_LOOP", "START")>>, "FINAL_COMMAND")
  <2>1. ASSUME NEW q \in Seq(Messages), boardNews = <<>>, Midway(q)
        PROVE  Midway(q \o <<Signal("CALIBRATION_SETTINGS", "ACK"), Signal("APP_LOOP", "START")>>)'
    <3>1. PICK v \in Arrivals : Between(q, <<>>, <<Payload("CALIBRATION_SETTINGS", v)>>)
      BY <1>3, <2>1, MessagesDiffer DEF HandleConnect, Offered
    <3> QED BY <1>3, <2>1, <3>1 DEF HandleConnect, Offered
  <2> QED BY <1>3, <2>1, AnswerKeepsPhase, Significant, NamesAreKnown DEF HandleConnect
<1>4. CASE Refuses("WAITING_FOR_CALIBRATION_DATA", "CALIBRATION_SETTINGS")
  <2>1. ASSUME NEW q \in Seq(Messages), boardNews = <<>>, Midway(q)
        PROVE  Midway(q \o <<Signal("CALIBRATION_SETTINGS", "DATA_INVALID")>>)'
    <3>1. PICK v \in Arrivals : Between(q, <<>>, <<Payload("CALIBRATION_SETTINGS", v)>>)
      BY <1>4, <2>1, MessagesDiffer DEF HandleConnect, Offered
    <3> QED BY <1>4, <2>1, <3>1 DEF HandleConnect, Offered
  <2> QED BY <1>4, <2>1, AnswerKeepsPhase, Significant, NamesAreKnown DEF HandleConnect
<1>5. CASE Ends("FINAL_COMMAND", Signal("APP_LOOP", "ACK"), <<>>)
  <2>1. ASSUME NEW q \in Seq(Messages), boardNews = <<>>, Midway(q) PROVE Phase(q \o <<>>)'
    <3>1. Between(q, <<>>, <<Signal("APP_LOOP", "ACK")>>) /\ board = "APP_LOOP"
      BY <1>5, <2>1, MessagesDiffer DEF HandleConnect, Offered
    <3> QED BY <1>5, <2>1, <3>1 DEF HandleConnect, Phase, Settles
  <2> QED BY <1>5, <2>1, AnswerKeepsPhase, Significant, NamesAreKnown DEF HandleConnect
<1> QED BY <1>1, <1>2, <1>3, <1>4, <1>5 DEF HandleConnect

LEMMA AccelKeepsPhase ==
  ASSUME LinkInv, PhaseInv, HandleAccel, UNCHANGED boardSide
  PROVE  PhaseInv'
<1> USE DEF boardSide, own, channel, AppHears, AppAnswers, Moves, Goto, Refuses, Ends, ToAppLoop,
        Midway, CalibratesAccel, At, Between
<1>1. CASE Moves("INITIAL_COMMAND", Signal("CALIBRATE_ACCEL", "ACK"),
                <<>>, "WAITING_FOR_CALIBRATION")
  <2>1. ASSUME NEW q \in Seq(Messages), boardNews = <<>>, Midway(q) PROVE Midway(q \o <<>>)'
    <3>1. PICK v \in Arrivals :
            Between(q, <<>>, <<Signal("CALIBRATE_ACCEL", "ACK"), Signal("CALIBRATE_ACCEL", "DONE"),
                               Payload("CALIBRATION_SETTINGS", v)>>)
      BY <1>1, <2>1, MessagesDiffer DEF HandleAccel, Offered
    <3> QED BY <1>1, <2>1, <3>1 DEF HandleAccel, Offered
  <2> QED BY <1>1, <2>1, AnswerKeepsPhase, Significant, NamesAreKnown DEF HandleAccel
<1>2. CASE Moves("WAITING_FOR_CALIBRATION", Signal("CALIBRATE_ACCEL", "DONE"),
                <<>>, "WAITING_FOR_CALIBRATION_DATA")
  <2>1. ASSUME NEW q \in Seq(Messages), boardNews = <<>>, Midway(q) PROVE Midway(q \o <<>>)'
    <3>1. PICK v \in Arrivals :
            Between(q, <<>>, <<Signal("CALIBRATE_ACCEL", "DONE"), Payload("CALIBRATION_SETTINGS", v)>>)
      BY <1>2, <2>1, MessagesDiffer DEF HandleAccel, Offered
    <3> QED BY <1>2, <2>1, <3>1 DEF HandleAccel, Offered
  <2> QED BY <1>2, <2>1, AnswerKeepsPhase, Significant, NamesAreKnown DEF HandleAccel
<1>3. CASE Ends("WAITING_FOR_CALIBRATION_DATA", Payload("CALIBRATION_SETTINGS", "valid"),
               <<Signal("CALIBRATION_SETTINGS", "ACK")>>)
  <2>1. ASSUME NEW q \in Seq(Messages), boardNews = <<>>, Midway(q)
        PROVE  Phase(q \o <<Signal("CALIBRATION_SETTINGS", "ACK")>>)'
    <3>1. PICK v \in Arrivals : Between(q, <<>>, <<Payload("CALIBRATION_SETTINGS", v)>>)
      BY <1>3, <2>1, MessagesDiffer DEF HandleAccel, Offered
    <3> QED BY <1>3, <2>1, <3>1 DEF HandleAccel, Phase, Settles
  <2> QED BY <1>3, <2>1, AnswerKeepsPhase, Significant, NamesAreKnown DEF HandleAccel
<1>4. CASE Refuses("WAITING_FOR_CALIBRATION_DATA", "CALIBRATION_SETTINGS")
  <2>1. ASSUME NEW q \in Seq(Messages), boardNews = <<>>, Midway(q)
        PROVE  Midway(q \o <<Signal("CALIBRATION_SETTINGS", "DATA_INVALID")>>)'
    <3>1. PICK v \in Arrivals : Between(q, <<>>, <<Payload("CALIBRATION_SETTINGS", v)>>)
      BY <1>4, <2>1, MessagesDiffer DEF HandleAccel, Offered
    <3> QED BY <1>4, <2>1, <3>1 DEF HandleAccel, Offered
  <2> QED BY <1>4, <2>1, AnswerKeepsPhase, Significant, NamesAreKnown DEF HandleAccel
<1> QED BY <1>1, <1>2, <1>3, <1>4 DEF HandleAccel

LEMMA MagnetKeepsPhase ==
  ASSUME LinkInv, PhaseInv, HandleMagnet, UNCHANGED boardSide
  PROVE  PhaseInv'
<1> USE DEF boardSide, own, channel, AppHears, AppAnswers, Moves, Goto, Refuses, Ends, ToAppLoop,
        Midway, CalibratesMagnet, At, Between
<1>1. CASE Moves("INITIAL_COMMAND", Signal("CALIBRATE_MAGNET", "ACK"),
                <<>>, "WAITING_FOR_USER_COMMAND")
  <2>1. ASSUME NEW q \in Seq(Messages), boardNews = <<>>, Midway(q) PROVE Midway(q \o <<>>)'
    <3>1. Between(q, <<>>, <<Signal("CALIBRATE_MAGNET", "ACK")>>)
      BY <1>1, <2>1, MessagesDiffer DEF HandleMagnet, Offered
    <3> QED BY <1>1, <2>1, <3>1 DEF HandleMagnet, Offered
  <2> QED BY <1>1, <2>1, AnswerKeepsPhase, Significant, NamesAreKnown DEF HandleMagnet
<1>2. CASE Moves("WAITING_FOR_CALIBRATION", Signal("CALIBRATE_MAGNET", "DONE"),
                <<>>, "WAITING_FOR_CALIBRATION_DATA")
  <2>1. ASSUME NEW q \in Seq(Messages), boardNews = <<>>, Midway(q) PROVE Midway(q \o <<>>)'
    <3>1. PICK v \in Arrivals :
            Between(q, <<>>, <<Signal("CALIBRATE_MAGNET", "DONE"), Payload("CALIBRATION_SETTINGS", v)>>)
      BY <1>2, <2>1, MessagesDiffer DEF HandleMagnet, Offered
    <3> QED BY <1>2, <2>1, <3>1 DEF HandleMagnet, Offered
  <2> QED BY <1>2, <2>1, AnswerKeepsPhase, Significant, NamesAreKnown DEF HandleMagnet
<1>3. CASE Ends("WAITING_FOR_CALIBRATION_DATA", Payload("CALIBRATION_SETTINGS", "valid"),
               <<Signal("CALIBRATION_SETTINGS", "ACK")>>)
  <2>1. ASSUME NEW q \in Seq(Messages), boardNews = <<>>, Midway(q)
        PROVE  Phase(q \o <<Signal("CALIBRATION_SETTINGS", "ACK")>>)'
    <3>1. PICK v \in Arrivals : Between(q, <<>>, <<Payload("CALIBRATION_SETTINGS", v)>>)
      BY <1>3, <2>1, MessagesDiffer DEF HandleMagnet, Offered
    <3> QED BY <1>3, <2>1, <3>1 DEF HandleMagnet, Phase, Settles
  <2> QED BY <1>3, <2>1, AnswerKeepsPhase, Significant, NamesAreKnown DEF HandleMagnet
<1>4. CASE Ends("WAITING_FOR_CANCEL_ACK", Signal("CALIBRATE_MAGNET", "ACK"), <<>>)
  <2>1. ASSUME NEW q \in Seq(Messages), boardNews = <<>>, Midway(q) PROVE Phase(q \o <<>>)'
    <3>1. Between(q, <<>>, <<Signal("CALIBRATE_MAGNET", "ACK")>>) /\ board = "APP_LOOP"
      BY <1>4, <2>1, MessagesDiffer DEF HandleMagnet, Offered
    <3> QED BY <1>4, <2>1, <3>1 DEF HandleMagnet, Phase, Settles
  <2> QED BY <1>4, <2>1, AnswerKeepsPhase, Significant, NamesAreKnown DEF HandleMagnet
<1>5. CASE /\ AppHears(Payload("CALIBRATION_SETTINGS", "invalid"))
           /\ AppAnswers(<<Signal("CALIBRATION_SETTINGS", "DATA_INVALID")>>) /\ astray' = TRUE
  BY <1>5, AnswerKeepsPhase, Significant, NamesAreKnown
<1> QED BY <1>1, <1>2, <1>3, <1>4, <1>5 DEF HandleMagnet

LEMMA DownloadSettingsKeepsPhase ==
  ASSUME LinkInv, PhaseInv, HandleDownloadSettings, UNCHANGED boardSide
  PROVE  PhaseInv'
<1> USE DEF boardSide, own, channel, AppHears, AppAnswers, Moves, Goto, Refuses, Ends, ToAppLoop,
        Midway, Downloads, At, Between
<1>1. CASE Moves("INITIAL_COMMAND", Signal("DOWNLOAD_SETTINGS", "ACK"),
                <<>>, "DOWNLOADING_DATA")
  <2>1. ASSUME NEW q \in Seq(Messages), boardNews = <<>>, Midway(q) PROVE Midway(q \o <<>>)'
    <3>1. PICK v \in Arrivals :
            Between(q, <<>>, <<Signal("DOWNLOAD_SETTINGS", "ACK"), Payload("CONTROL_SETTINGS", v)>>)
      BY <1>1, <2>1, MessagesDiffer DEF HandleDownloadSettings, Offered
    <3> QED BY <1>1, <2>1, <3>1 DEF HandleDownloadSettings, Offered
  <2> QED BY <1>1, <2>1, AnswerKeepsPhase, Significant, NamesAreKnown DEF HandleDownloadSettings
<1>2. CASE Ends("DOWNLOADING_DATA", Payload("CONTROL_SETTINGS", "valid"), <<Signal("CONTROL_SETTINGS", "ACK")>>)
  <2>1. ASSUME NEW q \in Seq(Messages), boardNews = <<>>, Midway(q)
        PROVE  Phase(q \o <<Signal("CONTROL_SETTINGS", "ACK")>>)'
    <3>1. PICK v \in Arrivals : Between(q, <<>>, <<Payload("CONTROL_SETTINGS", v)>>)
      BY <1>2, <2>1, MessagesDiffer DEF HandleDownloadSettings, Offered
    <3> QED BY <1>2, <2>1, <3>1 DEF HandleDownloadSettings, Phase, Settles
  <2> QED BY <1>2, <2>1, AnswerKeepsPhase, Significant, NamesAreKnown DEF HandleDownloadSettings
<1>3. CASE Refuses("DOWNLOADING_DATA", "CONTROL_SETTINGS")
  <2>1. ASSUME NEW q \in Seq(Messages), boardNews = <<>>, Midway(q)
        PROVE  Midway(q \o <<Signal("CONTROL_SETTINGS", "DATA_INVALID")>>)'
    <3>1. PICK v \in Arrivals : Between(q, <<>>, <<Payload("CONTROL_SETTINGS", v)>>)
      BY <1>3, <2>1, MessagesDiffer DEF HandleDownloadSettings, Offered
    <3> QED BY <1>3, <2>1, <3>1 DEF HandleDownloadSettings, Offered
  <2> QED BY <1>3, <2>1, AnswerKeepsPhase, Significant, NamesAreKnown DEF HandleDownloadSettings
<1> QED BY <1>1, <1>2, <1>3 DEF HandleDownloadSettings

LEMMA DownloadRouteKeepsPhase ==
  ASSUME LinkInv, PhaseInv, HandleDownloadRoute, UNCHANGED boardSide
  PROVE  PhaseInv'
<1> USE DEF boardSide, own, channel, AppHears, AppAnswers, Moves, Goto, Refuses, Ends, ToAppLoop,
        Midway, Downloads, At, Between
<1>1. CASE Moves("INITIAL_COMMAND", Signal("DOWNLOAD_ROUTE", "ACK"), <<>>, "DOWNLOADING_DATA")
  <2>1. ASSUME NEW q \in Seq(Messages), boardNews = <<>>, Midway(q) PROVE Midway(q \o <<>>)'
    <3>1. PICK v \in Arrivals :
            Between(q, <<>>, <<Signal("DOWNLOAD_ROUTE", "ACK"), Payload("ROUTE_CONTAINER", v)>>)
      BY <1>1, <2>1, MessagesDiffer DEF HandleDownloadRoute, Offered
    <3> QED BY <1>1, <2>1, <3>1 DEF HandleDownloadRoute, Offered
  <2> QED BY <1>1, <2>1, AnswerKeepsPhase, Significant, NamesAreKnown DEF HandleDownloadRoute
<1>2. CASE Moves("DOWNLOADING_DATA", Payload("ROUTE_CONTAINER", "valid"),
                <<Signal("DOWNLOAD_SETTINGS", "ACK")>>, state)
  <2>1. ASSUME NEW q \in Seq(Messages), boardNews = <<>>, Midway(q)
        PROVE  Midway(q \o <<Signal("DOWNLOAD_SETTINGS", "ACK")>>)'
    <3>1. PICK v \in Arrivals : Between(q, <<>>, <<Payload("ROUTE_CONTAINER", v)>>)
      BY <1>2, <2>1, MessagesDiffer DEF HandleDownloadRoute, Offered
    <3> QED BY <1>2, <2>1, <3>1 DEF HandleDownloadRoute, Offered
  <2> QED BY <1>2, <2>1, AnswerKeepsPhase, Significant, NamesAreKnown DEF HandleDownloadRoute
<1>3. CASE Moves("DOWNLOADING_DATA", Payload("ROUTE_CONTAINER", "invalid"),
                <<Signal("DOWNLOAD_SETTINGS", "DATA_INVALID")>>, state)
  <2>1. ASSUME NEW q \in Seq(Messages), boardNews = <<>>, Midway(q)
        PROVE  Midway(q \o <<Signal("DOWNLOAD_SETTINGS", "DATA_INVALID")>>)'
    <3>1. PICK v \in Arrivals : Between(q, <<>>, <<Payload("ROUTE_CONTAINER", v)>>)
      BY <1>3, <2>1, MessagesDiffer DEF HandleDownloadRoute, Offered
    <3> QED BY <1>3, <2>1, <3>1 DEF HandleDownloadRoute, Offered
  <2> QED BY <1>3, <2>1, AnswerKeepsPhase, Significant, NamesAreKnown DEF HandleDownloadRoute
<1> QED BY <1>1, <1>2, <1>3 DEF HandleDownloadRoute, Contents

LEMMA FlightKeepsPhase ==
  ASSUME LinkInv, PhaseInv, TaskInv, HandleFlight, UNCHANGED boardSide
  PROVE  PhaseInv'
<1> USE DEF boardSide, own, channel, AppHears, AppAnswers, Moves, Goto, Refuses, Ends, ToAppLoop,
        Midway, InFlightWith, At, Between
<1>1. CASE Moves("INITIAL_COMMAND", Signal("FLIGHT_LOOP", "ACK"), <<>>, "WAITING_FOR_CONTROLS")
  <2>1. ASSUME NEW q \in Seq(Messages), boardNews = <<>>, Midway(q) PROVE Midway(q \o <<>>)'
    <3>1. PICK v \in Arrivals :
            Between(q, <<>>, <<FlightAck, Payload("CONTROL_SETTINGS", v)>>)
      BY <1>1, <2>1, MessagesDiffer DEF HandleFlight, Offered
    <3> QED BY <1>1, <2>1, <3>1 DEF HandleFlight, Offered
  <2> QED BY <1>1, <2>1, AnswerKeepsPhase, Significant, NamesAreKnown DEF HandleFlight
<1>2. CASE Moves("WAITING_FOR_CONTROLS", Payload("CONTROL_SETTINGS", "valid"),
                <<Signal("CONTROL_SETTINGS", "ACK")>>, "WAITING_FOR_ROUTE_COMMAND")
  <2>1. ASSUME NEW q \in Seq(Messages), boardNews = <<>>, Midway(q)
        PROVE  Midway(q \o <<Signal("CONTROL_SETTINGS", "ACK")>>)'
    <3>1. PICK v \in Arrivals : Between(q, <<>>, <<Payload("CONTROL_SETTINGS", v)>>)
      BY <1>2, <2>1, MessagesDiffer DEF HandleFlight, Offered
    <3> QED BY <1>2, <2>1, <3>1 DEF HandleFlight, Offered
  <2> QED BY <1>2, <2>1, AnswerKeepsPhase, Significant, NamesAreKnown DEF HandleFlight
<1>3. CASE Refuses("WAITING_FOR_CONTROLS", "CONTROL_SETTINGS")
  <2>1. ASSUME NEW q \in Seq(Messages), boardNews = <<>>, Midway(q)
        PROVE  Midway(q \o <<Signal("CONTROL_SETTINGS", "DATA_INVALID")>>)'
    <3>1. PICK v \in Arrivals : Between(q, <<>>, <<Payload("CONTROL_SETTINGS", v)>>)
      BY <1>3, <2>1, MessagesDiffer DEF HandleFlight, Offered
    <3> QED BY <1>3, <2>1, <3>1 DEF HandleFlight, Offered
  <2> QED BY <1>3, <2>1, AnswerKeepsPhase, Significant, NamesAreKnown DEF HandleFlight
<1>4. CASE Moves("WAITING_FOR_ROUTE_COMMAND", Signal("FLIGHT_LOOP", "VIA_ROUTE_ALLOWED"),
                <<>>, "WAITING_FOR_ROUTE")
  <2>1. ASSUME NEW q \in Seq(Messages), boardNews = <<>>, Midway(q) PROVE Midway(q \o <<>>)'
    <3>1. /\ stage = "ROUTE_ACK"
          /\ \E v \in Arrivals : Between(q, <<>>, <<RouteAllowed, Payload("ROUTE_CONTAINER", v)>>)
      BY <1>4, <2>1, MessagesDiffer DEF HandleFlight, Offered
    <3> QED BY <1>4, <2>1, <3>1 DEF HandleFlight, Offered
  <2> QED BY <1>4, <2>1, AnswerKeepsPhase, Significant, NamesAreKnown DEF HandleFlight
<1>5. CASE /\ state = "WAITING_FOR_ROUTE" /\ AppHears(Payload("ROUTE_CONTAINER", "valid"))
           /\ AppAnswers(<<Signal("ROUTE_CONTAINER", "ACK"), Signal("FLIGHT_LOOP", "READY")>>)
           /\ state' = "FLING" /\ UNCHANGED <<action, astray>>
  <2>1. ASSUME NEW q \in Seq(Messages), boardNews = <<>>, Midway(q)
        PROVE  Midway(q \o <<Signal("ROUTE_CONTAINER", "ACK"), Signal("FLIGHT_LOOP", "READY")>>)'
    <3>1. PICK v \in Arrivals : Between(q, <<>>, <<Payload("ROUTE_CONTAINER", v)>>)
      BY <1>5, <2>1, MessagesDiffer DEF HandleFlight, Offered
    <3> QED BY <1>5, <2>1, <3>1 DEF HandleFlight, Offered, Ready
  <2> QED BY <1>5, <2>1, AnswerKeepsPhase, Significant, NamesAreKnown DEF HandleFlight
<1>6. CASE Refuses("WAITING_FOR_ROUTE", "ROUTE_CONTAINER")
  <2>1. ASSUME NEW q \in Seq(Messages), boardNews = <<>>, Midway(q)
        PROVE  Midway(q \o <<Signal("ROUTE_CONTAINER", "DATA_INVALID")>>)'
    <3>1. PICK v \in Arrivals : Between(q, <<>>, <<Payload("ROUTE_CONTAINER", v)>>)
      BY <1>6, <2>1, MessagesDiffer DEF HandleFlight, Offered
    <3> QED BY <1>6, <2>1, <3>1 DEF HandleFlight, Offered
  <2> QED BY <1>6, <2>1, AnswerKeepsPhase, Significant, NamesAreKnown DEF HandleFlight
<1>7. CASE HandleSignalWhileFlying /\ astray
  <2>1. AppAnswers(<<>>) /\ astray' = astray /\ AppHears(Head(down))
    BY <1>7 DEF HandleSignalWhileFlying, app
  <2> QED BY <1>7, <2>1, AnswerKeepsPhase, Significant, NamesAreKnown
<1>8. CASE HandleSignalWhileFlying /\ ~astray
  <2>1. action = "FLIGHT_LOOP" /\ tasks.timer["control"] # "null"
    BY <1>8 DEF HandleFlight, HandleSignalWhileFlying, TaskInv, Flies
  <2>2. /\ AppAnswers(<<>>) /\ action' = "APP_LOOP" /\ astray' = astray /\ AppHears(Head(down))
        /\ state \in {"FLING", "BREAKING"}
    BY <1>8, <2>1 DEF HandleSignalWhileFlying
  <2>3. ASSUME NEW q \in Seq(Messages), boardNews = <<>>, Midway(q) PROVE Phase(q \o <<>>)'
    <3>1. Between(q, <<>>, <<FlightEnds>>) /\ board = "APP_LOOP"
      BY <2>1, <2>2, <2>3
    <3> QED BY <2>2, <2>3, <3>1 DEF Phase, Settles
  <2> QED BY <2>2, <2>3, AnswerKeepsPhase, Significant, NamesAreKnown
<1> QED BY <1>1, <1>2, <1>3, <1>4, <1>5, <1>6, <1>7, <1>8 DEF HandleFlight

(* An upload: the record is sent, and sent again, until it is taken.       *)
LEMMA RecordIsSent ==
  ASSUME NEW q, NEW c, NEW v \in Contents, UploadsRecord(q, c), down # <<>>, Head(down) # Signal(c, "ACK"),
         down' = Tail(down), up' = up \o <<Payload(c, v)>>, state' = "UPLOADING_DATA",
         UNCHANGED <<action, tasks, boardSide>>
  PROVE  UploadsRecord(q \o <<Payload(c, v)>>, c)'
<1>1. /\ q = <<>> /\ \E x : down = <<x>>
      /\ \/ board = action /\ fails \in 0..3 /\ (tasks.strays["ping"] = 0 => up = q)
         \/ board = "APP_LOOP" /\ (fails = 3 \/ tasks.strays["ping"] > 0)
  <2>1. down # <<Signal(c, "ACK")>>
    OBVIOUS
  <2> QED BY <2>1 DEF UploadsRecord, Between
<1>2. down' = <<>>
  <2>1. PICK x : down = <<x>>
    BY <1>1
  <2> QED BY <2>1
<1>3. q \o <<Payload(c, v)>> = <<Payload(c, v)>>
  BY <1>1
<1>4. up = q => up' = <<Payload(c, v)>>
  BY <1>3
<1>5. \/ board' = action' /\ fails' \in 0..3 /\ (tasks'.strays["ping"] = 0 => up' = <<Payload(c, v)>>)
      \/ board' = "APP_LOOP" /\ (fails' = 3 \/ tasks'.strays["ping"] > 0)
  BY <1>1, <1>4 DEF boardSide
<1>6. UploadsRecord(<<Payload(c, v)>>, c)'
  BY <1>2, <1>5 DEF UploadsRecord, Between, Arrivals
<1> QED BY <1>3, <1>6

LEMMA RecordIsTaken ==
  ASSUME NEW q, NEW c, c # action, UploadsRecord(q, c), state = "UPLOADING_DATA",
         down # <<>>, Head(down) = Signal(c, "ACK")
  PROVE  q = <<>> /\ board = "APP_LOOP" /\ Tail(down) = <<>>
<1>1. \A p : p # "ACK" => down # <<Signal(c, p)>>
  BY MessagesDiffer
<1>2. q = <<>> /\ board = "APP_LOOP" /\ down = <<Signal(c, "ACK")>>
  BY <1>1 DEF UploadsRecord, Between
<1> QED BY <1>2

LEMMA UploadSettingsKeepsPhase ==
  ASSUME LinkInv, PhaseInv, HandleUploadSettings, UNCHANGED boardSide
  PROVE  PhaseInv'
<1> DEFINE c == "CONTROL_SETTINGS"
<1>1. ASSUME NEW m, NEW t, NEW s, m # Signal(c, "ACK"), Moves(s, m, <<Payload(c, record)>>, t),
             t = "UPLOADING_DATA"
      PROVE  PhaseInv'
  <2> PICK v \in Contents : v = record
    BY DEF LinkInv
  <2> DEFINE ms == <<Payload(c, v)>>
  <2>1. ASSUME NEW q \in Seq(Messages), boardNews = <<>>, Midway(q) PROVE Midway(q \o ms)'
    <3>1. UploadsRecord(q, c)
      BY <2>1 DEF HandleUploadSettings, Midway
    <3>2. UploadsRecord(q \o ms, c)'
      BY <1>1, <3>1, RecordIsSent DEF LinkInv, Moves, Goto, AppHears, AppAnswers, own
    <3> QED BY <1>1, <3>2 DEF HandleUploadSettings, Midway, Moves, Goto
  <2>2. AppHears(m) /\ AppAnswers(ms) /\ astray' = astray /\ Payload(c, v) \in Messages \ Noise
    BY <1>1, Significant, NamesAreKnown DEF Moves, Goto, LinkInv
  <2>3. ms \in {<<>>, ms, <<Payload(c, v), Payload(c, v)>>} /\ UNCHANGED boardSide
    OBVIOUS
  <2> QED BY <2>1, <2>2, <2>3, AnswerKeepsPhase
<1>2. CASE Ends("UPLOADING_DATA", Signal(c, "ACK"), <<>>)
  <2>1. ASSUME NEW q \in Seq(Messages), boardNews = <<>>, Midway(q) PROVE Phase(q \o <<>>)'
    <3>1. q = <<>> /\ board = "APP_LOOP" /\ Tail(down) = <<>>
      BY <1>2, <2>1, RecordIsTaken DEF HandleUploadSettings, Midway, Ends, AppHears
    <3> QED BY <1>2, <2>1, <3>1 DEF Ends, ToAppLoop, AppAnswers, channel, boardSide, Phase, Settles
  <2> QED BY <1>2, <2>1, AnswerKeepsPhase, Significant, NamesAreKnown DEF Ends
<1> QED BY <1>1, <1>2, MessagesDiffer DEF HandleUploadSettings, Moves

LEMMA UploadRouteKeepsPhase ==
  ASSUME LinkInv, PhaseInv, HandleUploadRoute, UNCHANGED boardSide
  PROVE  PhaseInv'
<1> DEFINE c == "ROUTE_CONTAINER"
<1>1. ASSUME NEW m, NEW t, NEW s, m # Signal(c, "ACK"), Moves(s, m, <<Payload(c, record)>>, t),
             t = "UPLOADING_DATA"
      PROVE  PhaseInv'
  <2> PICK v \in Contents : v = record
    BY DEF LinkInv
  <2> DEFINE ms == <<Payload(c, v)>>
  <2>1. ASSUME NEW q \in Seq(Messages), boardNews = <<>>, Midway(q) PROVE Midway(q \o ms)'
    <3>1. UploadsRecord(q, c)
      BY <2>1 DEF HandleUploadRoute, Midway
    <3>2. UploadsRecord(q \o ms, c)'
      BY <1>1, <3>1, RecordIsSent DEF LinkInv, Moves, Goto, AppHears, AppAnswers, own
    <3> QED BY <1>1, <3>2 DEF HandleUploadRoute, Midway, Moves, Goto
  <2>2. AppHears(m) /\ AppAnswers(ms) /\ astray' = astray /\ Payload(c, v) \in Messages \ Noise
    BY <1>1, Significant, NamesAreKnown DEF Moves, Goto, LinkInv
  <2>3. ms \in {<<>>, ms, <<Payload(c, v), Payload(c, v)>>} /\ UNCHANGED boardSide
    OBVIOUS
  <2> QED BY <2>1, <2>2, <2>3, AnswerKeepsPhase
<1>2. CASE Ends("UPLOADING_DATA", Signal(c, "ACK"), <<>>)
  <2>1. ASSUME NEW q \in Seq(Messages), boardNews = <<>>, Midway(q) PROVE Phase(q \o <<>>)'
    <3>1. q = <<>> /\ board = "APP_LOOP" /\ Tail(down) = <<>>
      BY <1>2, <2>1, RecordIsTaken DEF HandleUploadRoute, Midway, Ends, AppHears
    <3> QED BY <1>2, <2>1, <3>1 DEF Ends, ToAppLoop, AppAnswers, channel, boardSide, Phase, Settles
  <2> QED BY <1>2, <2>1, AnswerKeepsPhase, Significant, NamesAreKnown DEF Ends
<1> QED BY <1>1, <1>2, MessagesDiffer DEF HandleUploadRoute, Moves

LEMMA DataCommands ==
  /\ DataCommand["UPLOAD_SETTINGS"] = "CONTROL_SETTINGS" /\ DataCommand["DOWNLOAD_SETTINGS"] = "CONTROL_SETTINGS"
  /\ DataCommand["UPLOAD_ROUTE"] = "ROUTE_CONTAINER" /\ DataCommand["DOWNLOAD_ROUTE"] = "ROUTE_CONTAINER"
  BY DEF DataCommand, Uploads

(* Nothing that comes is dropped but a record that came cut.               *)
LEMMA MidwayAwaits ==
  ASSUME NEW q, Midway(q), down # <<>>
  PROVE  Head(down) \in Awaited \/ Head(down).parameter = "cut"
<1> USE DEF At, Between, Awaited, Answers, Record
<1>0. \A c : \A v \in Arrivals : Payload(c, v) \in Record(c) \/ Payload(c, v).parameter = "cut"
  BY DEF Arrivals, Payload
<1> HIDE DEF Record
<1>1. CASE action = "CONNECT"
  <2>1. \/ state = "INITIAL_COMMAND" /\ Head(down) = Signal("START_CMD", "ACK")
        \/ state = "WAITING_FOR_CALIBRATION" /\ Head(down) = Signal("CALIBRATION_SETTINGS", "READY")
        \/ /\ state = "WAITING_FOR_CALIBRATION_DATA"
           /\ \E v \in Arrivals : Head(down) = Payload("CALIBRATION_SETTINGS", v)
        \/ state = "FINAL_COMMAND" /\ Head(down) = Signal("APP_LOOP", "ACK")
    BY <1>1 DEF Midway, Connects, Offered
  <2> QED BY <1>0, <1>1, <2>1 DEF Procedures
<1>2. CASE action = "FLIGHT_LOOP"
  <2>1. \/ state = "INITIAL_COMMAND" /\ Head(down) = FlightAck
        \/ state = "WAITING_FOR_CONTROLS" /\ \E v \in Arrivals : Head(down) = Payload("CONTROL_SETTINGS", v)
        \/ state = "WAITING_FOR_ROUTE_COMMAND" /\ Head(down) = RouteAllowed
        \/ state = "WAITING_FOR_ROUTE" /\ \E v \in Arrivals : Head(down) = Payload("ROUTE_CONTAINER", v)
        \/ state \in {"FLING", "BREAKING"} /\ Head(down) = FlightEnds
    BY <1>2 DEF Midway, InFlightWith, Offered
  <2> QED BY <1>0, <1>2, <2>1 DEF Procedures, FlightAck, RouteAllowed, FlightEnds
<1>3. CASE action = "CALIBRATE_ACCEL"
  <2>1. \/ state = "INITIAL_COMMAND" /\ Head(down) = Signal(action, "ACK")
        \/ state = "WAITING_FOR_CALIBRATION" /\ Head(down) = Signal(action, "DONE")
        \/ /\ state = "WAITING_FOR_CALIBRATION_DATA"
           /\ \E v \in Arrivals : Head(down) = Payload("CALIBRATION_SETTINGS", v)
    BY <1>3 DEF Midway, CalibratesAccel, Offered
  <2> QED BY <1>0, <1>3, <2>1 DEF Procedures
<1>4. CASE action = "CALIBRATE_MAGNET"
  <2>1. \/ state = "INITIAL_COMMAND" /\ Head(down) = Signal(action, "ACK")
        \/ state = "WAITING_FOR_CALIBRATION" /\ Head(down) = Signal(action, "DONE")
        \/ /\ state = "WAITING_FOR_CALIBRATION_DATA"
           /\ \E v \in Arrivals : Head(down) = Payload("CALIBRATION_SETTINGS", v)
        \/ state = "WAITING_FOR_CANCEL_ACK" /\ Head(down) = Signal("CALIBRATE_MAGNET", "ACK")
    BY <1>4 DEF Midway, CalibratesMagnet
  <2> QED BY <1>0, <1>4, <2>1 DEF Procedures
<1>5. CASE action \in {"DOWNLOAD_SETTINGS", "DOWNLOAD_ROUTE"}
  <2>1. \/ state = "INITIAL_COMMAND" /\ Head(down) = Signal(action, "ACK")
        \/ state = "DOWNLOADING_DATA" /\ \E v \in Arrivals : Head(down) = Payload(DataCommand[action], v)
    BY <1>5, DataCommands DEF Midway, Downloads, Offered
  <2>2. CASE state = "INITIAL_COMMAND"
    BY <1>5, <2>1, <2>2 DEF Procedures
  <2>3. CASE state = "DOWNLOADING_DATA"
    <3>1. Awaited = Record(DataCommand[action])
      BY <1>5, <2>3
    <3> QED BY <1>0, <2>1, <2>3, <3>1
  <2> QED BY <2>1, <2>2, <2>3
<1>6. CASE action \in {"UPLOAD_SETTINGS", "UPLOAD_ROUTE"}
  <2>1. \/ state = "INITIAL_COMMAND" /\ Head(down) = Signal(action, "ACK")
        \/ /\ state = "UPLOADING_DATA"
           /\ \E p \in {"ACK", "DATA_INVALID", "TIMEOUT"} : Head(down) = Signal(DataCommand[action], p)
    BY <1>6, DataCommands DEF Midway, UploadsRecord
  <2>2. CASE state = "INITIAL_COMMAND"
    BY <1>6, <2>1, <2>2 DEF Procedures
  <2>3. CASE state = "UPLOADING_DATA"
    <3>1. Awaited = Answers(DataCommand[action], {"ACK", "DATA_INVALID", "TIMEOUT"})
      BY <1>6, <2>3
    <3> QED BY <2>1, <2>3, <3>1
  <2> QED BY <2>1, <2>2, <2>3
<1> QED BY <1>1, <1>2, <1>3, <1>4, <1>5, <1>6 DEF Midway

(* The rest of it never comes.                                             *)
LEMMA CutIsDropped ==
  ASSUME NEW q, Midway(q), down # <<>>, Head(down).parameter = "cut",
         down' = Tail(down), cut', UNCHANGED <<action, state, tasks, boardSide>>
  PROVE  Midway(q)'
<1>0. /\ \A c, p : Signal(c, p).parameter = p
      /\ FlightAck.parameter # "cut" /\ RouteAllowed.parameter # "cut" /\ FlightEnds.parameter # "cut"
  BY DEF Signal, FlightAck, RouteAllowed, FlightEnds
<1> USE DEF At, Between, boardSide
<1>1. CASE action = "CONNECT"
  <2>1. /\ At("WAITING_FOR_CALIBRATION_DATA", "CONNECTING_APP_LOOP", "CALIBRATION_ACK")
        /\ q = <<>> /\ \E x : down = <<x>>
    BY <1>0, <1>1 DEF Midway, Connects, Offered
  <2> QED BY <1>1, <2>1 DEF Midway, Connects, Offered
<1>2. CASE action = "FLIGHT_LOOP"
  <2>1. /\ \/ At("WAITING_FOR_CONTROLS", "FLIGHT_LOOP", "CONTROLS_ACK")
           \/ At("WAITING_FOR_ROUTE", "FLIGHT_LOOP", "ROUTE_ACK")
        /\ q = <<>> /\ \E x : down = <<x>>
    BY <1>0, <1>2 DEF Midway, InFlightWith, Offered
  <2> QED BY <1>2, <2>1 DEF Midway, InFlightWith, Offered
<1>3. CASE action = "CALIBRATE_ACCEL"
  <2>1. /\ board = "CALIBRATE_ACCEL" /\ state = "WAITING_FOR_CALIBRATION_DATA"
        /\ q = <<>> /\ \E x : down = <<x>>
    BY <1>0, <1>3 DEF Midway, CalibratesAccel, Offered
  <2> QED BY <1>3, <2>1 DEF Midway, CalibratesAccel, Offered
<1>4. CASE action = "CALIBRATE_MAGNET"
  <2>1. /\ At("WAITING_FOR_CALIBRATION_DATA", "CALIBRATE_MAGNET", "CALIBRATION_ACK")
        /\ q = <<>> /\ \E x : down = <<x>>
    BY <1>0, <1>4 DEF Midway, CalibratesMagnet
  <2> QED BY <1>4, <2>1 DEF Midway, CalibratesMagnet
<1>5. CASE action \in {"DOWNLOAD_SETTINGS", "DOWNLOAD_ROUTE"}
  <2>1. /\ board = action /\ state = "DOWNLOADING_DATA"
        /\ q = <<>> /\ \E x : down = <<x>>
    BY <1>0, <1>5 DEF Midway, Downloads, Offered
  <2> QED BY <1>5, <2>1 DEF Midway, Downloads, Offered
<1>6. action \notin {"UPLOAD_SETTINGS", "UPLOAD_ROUTE"}
  BY <1>0 DEF Midway, UploadsRecord
<1> QED BY <1>1, <1>2, <1>3, <1>4, <1>5, <1>6 DEF Midway

LEMMA DropKeepsPhase ==
  ASSUME LinkInv, PhaseInv, DropEvent, UNCHANGED boardSide
  PROVE  PhaseInv'
<1>1. /\ AppHears(Head(down)) /\ Head(down) \notin Awaited /\ AppAnswers(<<>>) /\ astray' = astray
      /\ down # <<>> /\ down' = Tail(down) /\ UNCHANGED <<action, state, tasks>>
      /\ Head(down).parameter = "cut" => cut'
  BY DEF DropEvent, AppAnswers, app
<1>2. ASSUME NEW q \in Seq(Messages), Midway(q) PROVE Midway(q \o <<>>)'
  <2>1. Head(down).parameter = "cut"
    BY <1>1, <1>2, MidwayAwaits
  <2>2. Midway(q)'
    BY <1>1, <1>2, <2>1, CutIsDropped
  <2>3. q \o <<>> = q
    BY ConcatEmptySeq
  <2> QED BY <2>2, <2>3
<1> QED BY <1>1, <1>2, AnswerKeepsPhase, Significant, NamesAreKnown

(* The board that ends the loop is about to close.                         *)
LEMMA DisconnectKeepsPhase ==
  ASSUME LinkInv, PhaseInv, HandleDisconnect, UNCHANGED boardSide
  PROVE  PhaseInv'
<1>1. /\ status = "open" /\ appNews = <<>> /\ down # <<>> /\ action = "DISCONNECT" /\ astray' = astray
      /\ closing' = closing
      /\ status' = "closed" \/ (status' = status /\ appNews' = appNews)
  BY DEF HandleDisconnect, AppHears, AppAnswers, Disconnect, channel, boardSide
<1>2. \A q : ~Phase(q)
  BY <1>1, HearsMidway DEF Midway
<1>3. closing \/ astray
  BY <1>1, <1>2 DEF PhaseInv
<1> QED BY <1>1, <1>3 DEF PhaseInv

LEMMA EventKeepsPhase ==
  ASSUME LinkInv, PhaseInv, TaskInv, HandleCommEvent, UNCHANGED boardSide
  PROVE  PhaseInv'
  BY ConnectKeepsPhase, DisconnectKeepsPhase, FlightKeepsPhase, AccelKeepsPhase, MagnetKeepsPhase,
     DownloadSettingsKeepsPhase, DownloadRouteKeepsPhase, UploadSettingsKeepsPhase,
     UploadRouteKeepsPhase, DropKeepsPhase DEF HandleCommEvent

(***************************************************************************)
(* The tasks.                                                              *)
(***************************************************************************)
LEMMA StartedTasks ==
  ASSUME NEW ts, TasksTyped(ts), NEW t \in Tasks
  PROVE  /\ TasksTyped(Started(ts, t)) /\ Started(ts, t).timer[t] = "live"
         /\ \A u \in Tasks \ {t} : Started(ts, t).timer[u] = ts.timer[u]
  BY DEF TasksTyped, Started, Timers

LEMMA StoppedTasks ==
  ASSUME NEW ts, TasksTyped(ts), NEW t
  PROVE  /\ TasksTyped(Stopped(ts, t)) /\ Stopped(ts, t).strays = ts.strays
         /\ t \in Tasks => Stopped(ts, t).timer[t] = "cancelled"
         /\ \A u \in Tasks : Stopped(ts, t).timer[u] \in {ts.timer[u], "cancelled"}
  BY DEF TasksTyped, Stopped, Timers

LEMMA StoppedAllTasks ==
  ASSUME NEW ts, TasksTyped(ts)
  PROVE  /\ TasksTyped(StoppedAll(ts)) /\ StoppedAll(ts).strays = ts.strays
         /\ \A u \in Tasks : StoppedAll(ts).timer[u] \in {ts.timer[u], "cancelled"}
<1>1. CASE ts.running = <<>>
  BY <1>1 DEF StoppedAll
<1>2. CASE ts.running # <<>>
  BY <1>2, StoppedTasks DEF StoppedAll
<1> QED BY <1>1, <1>2

(* Tasks may stop at any time.                                             *)
LEMMA StoppingKeepsTasks ==
  ASSUME TaskInv, tasks' \in {tasks, StoppedAll(tasks), StoppedAll(StoppedAll(tasks))},
         action' = action, state' = state, astray' = astray
  PROVE  TaskInv' /\ tasks'.strays = tasks.strays
<1>1. /\ TasksTyped(tasks') /\ tasks'.strays = tasks.strays
      /\ \A u \in Tasks : tasks'.timer[u] \in {tasks.timer[u], "cancelled"}
  BY StoppedAllTasks DEF TaskInv
<1>2. "ping" \in Tasks /\ "control" \in Tasks
  BY DEF Tasks
<1>3. TaskInv'
  BY <1>1, <1>2 DEF TaskInv, Flies
<1> QED BY <1>1, <1>3

LEMMA LoopKeepsTasks ==
  ASSUME TaskInv, ToAppLoop
  PROVE  TaskInv'
<1>1. "ping" \in Tasks
  BY DEF Tasks
<1> QED BY <1>1, StartedTasks DEF TaskInv, ToAppLoop, Uploads, Flies

LEMMA EventKeepsTasks ==
  ASSUME TaskInv, HandleCommEvent
  PROVE  TaskInv'
<1>1. ASSUME action' = action, tasks' = tasks, astray' = astray,
             action # "FLIGHT_LOOP" \/ state' \notin {"FLING", "BREAKING"} \/ state' = state,
             action # "DISCONNECT" \/ state' = state
      PROVE  TaskInv'
  BY <1>1 DEF TaskInv, Flies
<1> USE DEF Moves, Goto, Refuses, Ends, own
<1>2. ASSUME HandleConnect PROVE TaskInv'
  <2>1. action = "CONNECT"
    BY <1>2 DEF HandleConnect
  <2>2. CASE ToAppLoop
    BY <2>2, LoopKeepsTasks
  <2> QED BY <1>1, <1>2, <2>1, <2>2 DEF HandleConnect
<1>3. ASSUME HandleDisconnect PROVE TaskInv'
  <2>1. action' = "DISCONNECT" /\ state' = "DONE" /\ tasks' = StoppedAll(tasks)
    BY <1>3 DEF HandleDisconnect
  <2> QED BY <2>1, StoppedAllTasks DEF TaskInv, Uploads, Flies
<1>4. ASSUME HandleFlight PROVE TaskInv'
  <2>1. action = "FLIGHT_LOOP"
    BY <1>4 DEF HandleFlight
  <2>2. CASE HandleSignalWhileFlying
    <3>1. CASE UNCHANGED app
      BY <1>1, <3>1 DEF app
    <3>2. CASE /\ action' = "APP_LOOP" /\ state' = "RUNNING"
               /\ tasks' = Started(Stopped(Stopped(tasks, "control"), "ping"), "ping")
      <4>1. "ping" \in Tasks
        BY DEF Tasks
      <4>2. TasksTyped(Stopped(Stopped(tasks, "control"), "ping"))
        BY StoppedTasks DEF TaskInv
      <4> QED BY <3>2, <4>1, <4>2, StartedTasks DEF TaskInv, Uploads, Flies
    <3> QED BY <2>2, <3>1, <3>2 DEF HandleSignalWhileFlying
  <2>3. CASE /\ state' = "FLING" /\ tasks' = Started(Started(tasks, "ping"), "control")
             /\ UNCHANGED <<action, astray>>
    <3>1. "ping" \in Tasks /\ "control" \in Tasks /\ "ping" # "control"
      BY DEF Tasks
    <3>2. TasksTyped(Started(tasks, "ping")) /\ Started(tasks, "ping").timer["ping"] = "live"
      BY <3>1, StartedTasks DEF TaskInv
    <3>3. /\ TasksTyped(tasks') /\ tasks'.timer["control"] = "live" /\ tasks'.timer["ping"] = "live"
      BY <2>3, <3>1, <3>2, StartedTasks
    <3> QED BY <2>1, <2>3, <3>3 DEF TaskInv, Uploads
  <2> QED BY <1>1, <1>4, <2>1, <2>2, <2>3 DEF HandleFlight
<1>5. ASSUME HandleAccel \/ HandleMagnet PROVE TaskInv'
  <2>1. action \in {"CALIBRATE_ACCEL", "CALIBRATE_MAGNET"}
    BY <1>5 DEF HandleAccel, HandleMagnet
  <2>2. CASE ToAppLoop
    BY <2>2, LoopKeepsTasks
  <2> QED BY <1>1, <1>5, <2>1, <2>2 DEF HandleAccel, HandleMagnet
<1>6. ASSUME HandleDownloadSettings \/ HandleDownloadRoute \/ HandleUploadSettings \/ HandleUploadRoute
      PROVE  TaskInv'
  <2>1. action \in {"DOWNLOAD_SETTINGS", "DOWNLOAD_ROUTE", "UPLOAD_SETTINGS", "UPLOAD_ROUTE"}
    BY <1>6 DEF HandleDownloadSettings, HandleDownloadRoute, HandleUploadSettings, HandleUploadRoute
  <2>2. CASE ToAppLoop
    BY <2>2, LoopKeepsTasks
  <2> QED BY <1>1, <1>6, <2>1, <2>2
          DEF HandleDownloadSettings, HandleDownloadRoute, HandleUploadSettings, HandleUploadRoute
<1>7. ASSUME DropEvent PROVE TaskInv'
  BY <1>1, <1>7 DEF DropEvent, app
<1> QED BY <1>2, <1>3, <1>4, <1>5, <1>6, <1>7 DEF HandleCommEvent

LEMMA UserKeepsTasks ==
  ASSUME TaskInv, UserCalls
  PROVE  TaskInv'
<1> USE DEF Flies, Uploads
<1>1. "ping" \in Tasks
  BY DEF Tasks
<1>2. CASE ConnectInterface
  BY <1>2 DEF ConnectInterface, app, TaskInv
<1>3. CASE DisconnectApplicationLoop
  <2>1. tasks' \in {Stopped(tasks, "ping"), StoppedAll(tasks)} /\ astray' = astray
    BY <1>3 DEF DisconnectApplicationLoop, DisconnectInterface
  <2>2. CASE IsActionDone
    <3>1. action' = "DISCONNECT" /\ state' = "WAITING" /\ TasksTyped(tasks')
      BY <1>3, <2>1, <2>2, StoppedTasks, StoppedAllTasks DEF DisconnectApplicationLoop, TaskInv
    <3> QED BY <3>1 DEF TaskInv
  <2>3. CASE ~IsActionDone
    BY <1>3, <2>3, StoppingKeepsTasks DEF DisconnectApplicationLoop, DisconnectInterface
  <2> QED BY <2>2, <2>3
<1>4. ASSUME NEW p \in Procedures, StartProcedure(p) PROVE TaskInv'
  <2>1. /\ action' = p /\ state' = "INITIAL_COMMAND" /\ TasksTyped(tasks')
        /\ tasks'.timer["ping"] = "cancelled"
    BY <1>1, <1>4, StoppedTasks DEF StartProcedure, TaskInv
  <2> QED BY <2>1 DEF TaskInv, Procedures
<1>5. CASE EndFlightLoop
  <2>1. /\ action' = action /\ tasks' = tasks /\ action = "FLIGHT_LOOP"
        /\ ~astray' => ~astray /\ state = "FLING"
    BY <1>5 DEF EndFlightLoop, own
  <2> QED BY <2>1 DEF TaskInv
<1>6. ASSUME NEW p, NEW s, s \in {"WAITING_FOR_CALIBRATION", "WAITING_FOR_CANCEL_ACK"}, UserCommand(p, s)
      PROVE  TaskInv'
  BY <1>6 DEF UserCommand, Goto, own, TaskInv
<1> QED BY <1>2, <1>3, <1>4, <1>5, <1>6 DEF UserCalls

LEMMA CallbacksKeepTasks ==
  ASSUME TaskInv, Callbacks
  PROVE  TaskInv'
<1> USE DEF Flies, Uploads
<1>1. CASE OnConnected /\ IsActionDone
  BY <1>1 DEF OnConnected, TaskInv
<1>2. CASE OnConnected /\ ~IsActionDone
  BY <1>2, StoppingKeepsTasks DEF OnConnected, DisconnectInterface
<1>3. CASE OnDisconnected
  BY <1>3 DEF OnDisconnected, TaskInv
<1>4. CASE OnError
  BY <1>4, StoppingKeepsTasks DEF OnError
<1> QED BY <1>1, <1>2, <1>3, <1>4 DEF Callbacks

LEMMA TicksKeepTasks ==
  ASSUME TaskInv, Ticks
  PROVE  TaskInv' /\ tasks'.strays["ping"] = tasks.strays["ping"]
<1>1. CASE UNCHANGED app
  BY <1>1 DEF app, TaskInv, Flies
<1>2. CASE /\ action # "FLIGHT_LOOP" /\ tasks.timer["control"] = "live"
           /\ tasks' = [tasks EXCEPT !.timer["control"] = "cancelled"]
           /\ UNCHANGED <<action, state, astray>>
  BY <1>2 DEF TaskInv, TasksTyped, Timers, Flies, Tasks
<1>3. CASE /\ action # "FLIGHT_LOOP" /\ tasks.strays["control"] > 0
           /\ tasks' = [tasks EXCEPT !.strays["control"] = @ - 1]
           /\ UNCHANGED <<action, state, astray>>
  <2>1. tasks.strays["control"] \in Nat /\ "control" \in Tasks /\ "ping" \in Tasks
    BY DEF TaskInv, TasksTyped, Tasks
  <2>2. tasks.strays["control"] - 1 \in Nat
    BY <1>3, <2>1
  <2>3. TasksTyped(tasks') /\ tasks'.timer = tasks.timer /\ tasks'.strays["ping"] = tasks.strays["ping"]
    BY <1>3, <2>1, <2>2 DEF TaskInv, TasksTyped
  <2> QED BY <1>3, <2>3 DEF TaskInv, Flies
<1>4. CASE ConnectTimeout
  BY <1>4, StoppingKeepsTasks DEF ConnectTimeout, DisconnectInterface
<1> QED BY <1>1, <1>2, <1>3, <1>4 DEF Ticks, PingTick, ControlTick

(***************************************************************************)
(* What the application does unasked.                                      *)
(***************************************************************************)
(* A phase is a matter of what counts; only an upload minds the pings.     *)
LEMMA SamePhase ==
  ASSUME NEW q, UNCHANGED <<action, state, board, stage, fails, down, boardNews>>,
         tasks'.strays["ping"] = tasks.strays["ping"], cut => cut',
         \/ up' = up
         \/ action \notin Uploads
         \/ tasks.strays["ping"] # 0
         \/ /\ board # action
            /\ up[Len(up)] = Signal(action, "START") =>
                 up' # <<>> /\ up'[Len(up')] = Signal(action, "START")
  PROVE  Phase(q) => Phase(q)'
<1> USE DEF At, Between, Offered, Settles
<1>1. /\ Lost(q) => Lost(q)'
      /\ Greets(q) => Greets(q)'
      /\ Fresh /\ down = <<>> => Fresh' /\ down' = <<>>
  BY DEF Lost, Greets, Fresh
<1>2. Connects(q) => Connects(q)'
  BY DEF Connects
<1>3. Asks(q) => Asks(q)'
  BY DEF Asks
<1>4. /\ Settles(q, <<>>) => Settles(q, <<>>)'
      /\ Settles(q, <<Break>>) => Settles(q, <<Break>>)'
  BY DEF Break
<1>5. InFlightWith(q) => InFlightWith(q)'
  BY DEF InFlightWith
<1>6. CalibratesAccel(q) => CalibratesAccel(q)'
  BY DEF CalibratesAccel
<1>7. CalibratesMagnet(q) => CalibratesMagnet(q)'
  BY DEF CalibratesMagnet
<1>8. ASSUME NEW c PROVE Downloads(q, c) => Downloads(q, c)'
  BY DEF Downloads
<1>9. ASSUME NEW c, action \in Uploads PROVE UploadsRecord(q, c) => UploadsRecord(q, c)'
  BY <1>9 DEF UploadsRecord
<1> HIDE DEF At, Between, Offered, Settles
<1> QED BY <1>1, <1>2, <1>3, <1>4, <1>5, <1>6, <1>7, <1>8, <1>9 DEF Phase, Uploads

LEMMA SameOpening ==
  ASSUME NEW q, UNCHANGED <<action, state, board, stage, down, boardNews>>, Opening(q)
  PROVE  Opening(q)'
  BY DEF Opening, Fresh, IsActionDone, Lost

(* The connection is closed, or only tasks have stopped.                   *)
LEMMA StoppingKeepsPhase ==
  ASSUME PhaseInv, DisconnectInterface(appNews), tasks'.strays = tasks.strays,
         UNCHANGED <<action, state, astray, boardSide>>
  PROVE  PhaseInv'
<1>1. CASE status' = "closed"
  BY <1>1 DEF PhaseInv
<1>2. CASE OnlyHeard(appNews)
  <2>1. /\ \A q \in Seq(Messages) : Phase(q) => Phase(q)'
        /\ \A q \in Seq(Messages) : Opening(q) => Opening(q)'
    BY <1>2, SamePhase, SameOpening DEF OnlyHeard, boardSide
  <2> QED BY <1>2, <2>1 DEF PhaseInv, OnlyHeard, boardSide
<1> QED BY <1>1, <1>2 DEF DisconnectInterface, Disconnect

LEMMA NoiseKeepsPhase ==
  ASSUME LinkInv, PhaseInv, NEW n \in Noise, SendsOnce(n), UNCHANGED <<app, boardSide>>,
         action \notin Uploads \/ tasks.strays["ping"] # 0
  PROVE  PhaseInv'
<1>1. /\ up' = up \o <<n>> /\ up \in Seq(Messages) /\ UNCHANGED <<down, cut, channel>>
  BY DEF SendsOnce, AppSends, LinkInv
<1>2. \A q \in Seq(Messages) : Reads(up, q) => Reads(up', q)
  BY <1>1, ReadsWithNoise
<1>3. /\ \A q \in Seq(Messages) : Phase(q) => Phase(q)'
      /\ \A q \in Seq(Messages) : Opening(q) => Opening(q)'
  BY <1>1, SamePhase, SameOpening DEF app, channel, boardSide
<1> QED BY <1>1, <1>2, <1>3 DEF PhaseInv, channel, app, boardSide

LEMMA TicksKeepPhase ==
  ASSUME LinkInv, PhaseInv, TaskInv, Ticks, UNCHANGED boardSide
  PROVE  PhaseInv'
<1>1. CASE PingTick
  <2>1. Ping \in Noise
    BY DEF Noise
  <2>2. action \notin Uploads \/ tasks.strays["ping"] # 0
    BY <1>1 DEF PingTick, Live, TaskInv
  <2> QED BY <1>1, <2>1, <2>2, NoiseKeepsPhase DEF PingTick
<1>2. CASE ControlTick /\ action = "FLIGHT_LOOP"
  <2>1. Frame("CONTROL") \in Noise /\ Frame("STOP") \in Noise /\ action \notin Uploads
    BY <1>2 DEF Noise, Uploads
  <2> QED BY <1>2, <2>1, NoiseKeepsPhase DEF ControlTick
<1>3. CASE ControlTick /\ action # "FLIGHT_LOOP"
  <2>1. UNCHANGED <<action, state, astray, link>> /\ tasks'.strays["ping"] = tasks.strays["ping"]
    BY <1>3, TicksKeepTasks DEF ControlTick, Ticks
  <2>2. /\ \A q \in Seq(Messages) : Phase(q) => Phase(q)'
        /\ \A q \in Seq(Messages) : Opening(q) => Opening(q)'
    BY <2>1, SamePhase, SameOpening DEF link, boardSide
  <2> QED BY <2>1, <2>2 DEF PhaseInv, link, boardSide
<1>4. CASE ConnectTimeout
  <2>1. DisconnectInterface(appNews) /\ UNCHANGED <<action, state, astray>>
    BY <1>4 DEF ConnectTimeout
  <2>2. tasks'.strays = tasks.strays
    BY <2>1, StoppingKeepsTasks DEF DisconnectInterface
  <2> QED BY <2>1, <2>2, StoppingKeepsPhase
<1> QED BY <1>1, <1>2, <1>3, <1>4 DEF Ticks

LEMMA CallbacksKeepPhase ==
  ASSUME LinkInv, PhaseInv, Callbacks, UNCHANGED boardSide
  PROVE  PhaseInv'
<1>1. SUFFICES ASSUME status = "open", status' = "open", ~closing PROVE PhaseInv'
  <2>1. status' \in {status, "closed"}
    BY DEF Callbacks, OnConnected, OnDisconnected, OnError, DisconnectInterface, Disconnect, OnlyHeard
  <2> QED BY <2>1 DEF PhaseInv, boardSide
<1>2. appNews # <<>> /\ appNews = <<"connected">>
  BY <1>1 DEF LinkInv, Callbacks, Calls, OnConnected, OnDisconnected, OnError
<1>3. PICK q \in Seq(Messages) : Reads(up, q) /\ Opening(q)
  BY <1>1, <1>2 DEF PhaseInv
<1>4. OnConnected /\ Tail(appNews) = <<>>
  BY <1>2 DEF Callbacks, Calls, OnDisconnected, OnError
<1>5. CASE IsActionDone
  <2>1. /\ action' = "CONNECT" /\ state' = "INITIAL_COMMAND" /\ appNews' = <<>>
        /\ up' = Append(up, Signal("START_CMD", "START")) /\ UNCHANGED <<down, boardNews>>
    BY <1>1, <1>4, <1>5 DEF OnConnected
  <2>2. q = <<>> /\ Fresh /\ down = <<>>
    BY <1>3, <1>5 DEF Opening, Lost, IsActionDone
  <2> DEFINE r == <<Signal("START_CMD", "START")>>
  <2>3. Signal("START_CMD", "START") \in Messages \ Noise
    BY Significant, NamesAreKnown
  <2>4. Reads(up', r) /\ r \in Seq(Messages)
    <3>1. up' = up \o r /\ up \in Seq(Messages)
      BY <2>1, <2>3, AppendIsConcat DEF LinkInv
    <3>2. Reads(up \o r, q \o r)
      BY <1>3, <2>3, <3>1, ReadsWithMore
    <3>3. q \o r = r /\ r \in Seq(Messages)
      BY <2>2, <2>3
    <3> QED BY <3>1, <3>2, <3>3
  <2>5. Phase(r)'
    BY <2>1, <2>2 DEF Phase, Fresh, Greets, boardSide
  <2> QED BY <2>1, <2>4, <2>5 DEF PhaseInv
<1>6. CASE ~IsActionDone
  <2>1. UNCHANGED <<action, state, up, down, boardNews>> /\ appNews' = <<>>
    BY <1>1, <1>4, <1>6 DEF OnConnected, DisconnectInterface, Disconnect, OnlyHeard
  <2>2. Phase(q)'
    BY <1>3, <1>6, <2>1 DEF Opening, Phase, Fresh, Lost, boardSide
  <2> QED BY <1>3, <2>1, <2>2 DEF PhaseInv
<1> QED BY <1>5, <1>6

LEMMA SendingKeepsPhase ==
  ASSUME LinkInv, PhaseInv, NEW m \in Messages \ Noise, AppSends(<<m>>), UNCHANGED <<astray, boardSide>>,
         \A q \in Seq(Messages) : status = "open" /\ appNews = <<>> /\ Phase(q) => Phase(q \o <<m>>)',
         \A q \in Seq(Messages) : status = "open" /\ appNews # <<>> /\ Opening(q) => Opening(q \o <<m>>)'
  PROVE  PhaseInv'
<1>1. status' = status /\ appNews' = appNews /\ closing' = closing /\ up \in Seq(Messages)
  BY DEF AppSends, channel, boardSide, LinkInv
<1>2. CASE status = "open"
  <2>1. up' = up \o <<m>>
    BY <1>2 DEF AppSends
  <2>2. \A q \in Seq(Messages) : Reads(up, q) => q \o <<m>> \in Seq(Messages) /\ Reads(up', q \o <<m>>)
    BY <1>1, <2>1, ReadsWithMore
  <2> QED BY <1>1, <1>2, <2>2 DEF PhaseInv
<1> QED BY <1>1, <1>2 DEF PhaseInv

(* What is sent to a board that is to settle comes after that.             *)
LEMMA SettlesWithMore ==
  ASSUME NEW q, NEW m \in Messages, Settles(q, <<>>), UNCHANGED <<board, stage, down>>
  PROVE  Settles(q \o <<m>>, <<m>>)'
<1>1. <<>> \o <<m>> = <<m>>
  OBVIOUS
<1>2. ASSUME NEW a \in Messages PROVE (<<a>> \o <<>>) \o <<m>> = <<a>> \o <<m>>
  <2>1. <<a>> \o <<>> = <<a>>
    BY ShortQueues
  <2> QED BY <2>1
<1>3. Signal("CALIBRATION_SETTINGS", "ACK") \in Messages /\ Signal("CONTROL_SETTINGS", "ACK") \in Messages
  BY Significant, NamesAreKnown
<1>4. CASE board = "APP_LOOP" /\ q = <<>>
  BY <1>1, <1>4 DEF Settles
<1>5. CASE q = <<Signal("CALIBRATION_SETTINGS", "ACK")>> \o <<>>
  <2>1. q \o <<m>> = <<Signal("CALIBRATION_SETTINGS", "ACK")>> \o <<m>>
    BY <1>2, <1>3, <1>5
  <2>2. \/ board = "CALIBRATE_ACCEL" \/ (board = "CALIBRATE_MAGNET" /\ stage = "CALIBRATION_ACK")
    <3>1. q = <<Signal("CALIBRATION_SETTINGS", "ACK")>>
      BY <1>3, <1>5, ShortQueues
    <3>2. <<Signal("CONTROL_SETTINGS", "ACK")>> \o <<>> = <<Signal("CONTROL_SETTINGS", "ACK")>>
      BY <1>3, ShortQueues
    <3>3. q # <<>> /\ q # <<Signal("CONTROL_SETTINGS", "ACK")>> \o <<>>
      BY <3>1, <3>2, MessagesDiffer
    <3> QED BY <3>3 DEF Settles
  <2> QED BY <2>1, <2>2 DEF Settles
<1>6. CASE board = "DOWNLOAD_SETTINGS" /\ q = <<Signal("CONTROL_SETTINGS", "ACK")>> \o <<>>
  <2>1. q \o <<m>> = <<Signal("CONTROL_SETTINGS", "ACK")>> \o <<m>>
    BY <1>2, <1>3, <1>6
  <2> QED BY <1>6, <2>1 DEF Settles
<1> QED BY <1>4, <1>5, <1>6 DEF Settles

LEMMA BreakingKeepsPhase ==
  ASSUME LinkInv, PhaseInv, TaskInv, DisconnectApplicationLoop, UNCHANGED boardSide
  PROVE  PhaseInv'
<1>1. astray' = astray
  BY DEF DisconnectApplicationLoop
<1>2. CASE ~IsActionDone
  <2>1. DisconnectInterface(appNews) /\ UNCHANGED <<action, state>>
    BY <1>2 DEF DisconnectApplicationLoop
  <2>2. tasks'.strays = tasks.strays
    BY <1>1, <2>1, StoppingKeepsTasks DEF DisconnectInterface
  <2> QED BY <1>1, <2>1, <2>2, StoppingKeepsPhase
<1>3. CASE IsActionDone /\ tasks.timer["ping"] # "null"
  <2>1. action' = "DISCONNECT" /\ state' = "WAITING" /\ AppSends(<<Break>>)
    BY <1>3 DEF DisconnectApplicationLoop, Break
  <2>2. Break \in Messages \ Noise
    BY Significant, NamesAreKnown DEF Break
  <2>3. ASSUME NEW q \in Seq(Messages), Phase(q) PROVE Phase(q \o <<Break>>)'
    <3>1. boardNews = <<>> /\ Settles(q, <<>>)
      BY <1>3, <2>3 DEF Phase, IsActionDone, Lost, Greets, Procedures
    <3>2. Settles(q \o <<Break>>, <<Break>>)'
      BY <2>1, <2>2, <3>1, SettlesWithMore DEF AppSends, boardSide
    <3> QED BY <2>1, <3>1, <3>2 DEF Phase, AppSends, channel
  <2>4. ASSUME NEW q \in Seq(Messages), Opening(q) PROVE Opening(q \o <<Break>>)'
    <3>1. q = <<>>
      BY <1>3, <2>4 DEF Opening, Lost, IsActionDone
    <3> QED BY <2>1, <2>4, <3>1 DEF Opening, Lost, Fresh, AppSends, channel, boardSide
  <2> QED BY <1>1, <2>1, <2>2, <2>3, <2>4, SendingKeepsPhase
<1>4. CASE IsActionDone /\ tasks.timer["ping"] = "null"
  <2>1. action' = "DISCONNECT" /\ state' = "WAITING" /\ DisconnectInterface(appNews)
    BY <1>4 DEF DisconnectApplicationLoop
  <2>2. CASE status' = "closed"
    BY <2>2 DEF PhaseInv
  <2>3. CASE OnlyHeard(appNews)
    <3>1. action # "APP_LOOP"
      BY <1>4 DEF TaskInv
    <3>2. \A q : ~Phase(q)
      BY <1>4, <3>1 DEF Phase, IsActionDone, Lost, Greets, Procedures
    <3>3. ASSUME NEW q \in Seq(Messages), Opening(q) PROVE Opening(q)'
      <4>1. q = <<>>
        BY <1>4, <3>3 DEF Opening, Lost, IsActionDone
      <4> QED BY <2>1, <2>3, <3>3, <4>1 DEF Opening, Lost, Fresh, OnlyHeard, boardSide
    <3> QED BY <1>1, <2>3, <3>2, <3>3 DEF PhaseInv, OnlyHeard, boardSide
  <2> QED BY <2>1, <2>2, <2>3 DEF DisconnectInterface, Disconnect
<1> QED BY <1>2, <1>3, <1>4

LEMMA AskingKeepsPhase ==
  ASSUME LinkInv, PhaseInv, NEW p \in Procedures, StartProcedure(p), UNCHANGED boardSide
  PROVE  PhaseInv'
<1> DEFINE m == Signal(p, "START")
<1>1. /\ action = "APP_LOOP" /\ action' = p /\ state' = "INITIAL_COMMAND" /\ AppSends(<<m>>)
      /\ astray' = astray
  BY DEF StartProcedure
<1>2. m \in Messages \ Noise
  BY Significant, NamesAreKnown
<1>3. ASSUME NEW q \in Seq(Messages), status = "open", Phase(q) PROVE Phase(q \o <<m>>)'
  <2>1. boardNews = <<>> /\ Settles(q, <<>>)
    BY <1>1, <1>3 DEF Phase, Lost, Greets, Procedures
  <2>2. Settles(q \o <<m>>, <<m>>)'
    BY <1>1, <1>2, <2>1, SettlesWithMore DEF AppSends, boardSide
  <2>3. up' = up \o <<m>> /\ up \in Seq(Messages)
    BY <1>1, <1>3 DEF AppSends, LinkInv
  <2>4. up' # <<>> /\ up'[Len(up')] = m
    BY <1>2, <2>3
  <2> QED BY <1>1, <2>1, <2>2, <2>4 DEF Phase, Asks, AppSends, channel
<1>4. \A q \in Seq(Messages) : status = "open" /\ appNews # <<>> => ~Opening(q)
  BY <1>1 DEF Opening, IsActionDone, LinkInv
<1> HIDE DEF m
<1> QED BY <1>1, <1>2, <1>3, <1>4, SendingKeepsPhase

LEMMA UserKeepsPhase ==
  ASSUME LinkInv, PhaseInv, TaskInv, CloseInv, UserCalls, UNCHANGED boardSide
  PROVE  PhaseInv'
<1>1. CASE ConnectInterface
  <2>1. /\ status = "closed" /\ appNews = <<>> /\ up' = <<>> /\ down' = <<>>
        /\ appNews' = <<"connected">> /\ boardNews' = <<"connected">> /\ action' = action /\ state' = state
    BY <1>1 DEF ConnectInterface, LinkOpens, LinkInv, app
  <2>2. action \in {"IDLE", "DISCONNECT"}
    BY <2>1, NothingHeld DEF LinkInv
  <2>3. Opening(<<>>)'
    BY <2>1, <2>2 DEF Opening, Fresh, Lost, IsActionDone, TaskInv
  <2>4. Reads(up', <<>>) /\ <<>> \in Seq(Messages) /\ appNews' # <<>>
    BY <2>1, ReadsNothing
  <2> QED BY <2>3, <2>4 DEF PhaseInv
<1>2. CASE EndFlightLoop
  <2>1. /\ action = "FLIGHT_LOOP" /\ action' = action /\ state' = "BREAKING" /\ UNCHANGED <<tasks, link>>
        /\ astray' = (astray \/ state # "FLING")
    BY <1>2 DEF EndFlightLoop, own
  <2>2. ASSUME NEW q, state = "FLING", Phase(q) PROVE Phase(q)'
    <3>1. boardNews = <<>> /\ InFlightWith(q)
      BY <2>1, <2>2 DEF Phase, Lost, Greets, Asks
    <3>2. InFlightWith(q)'
      BY <2>1, <2>2, <3>1 DEF InFlightWith, At, Between, link, boardSide
    <3> QED BY <2>1, <3>1, <3>2 DEF Phase, link
  <2>3. \A q : status = "open" /\ appNews # <<>> => ~Opening(q)
    BY <2>1 DEF Opening, IsActionDone, LinkInv
  <2>4. CASE astray \/ state # "FLING"
    BY <2>1, <2>3, <2>4 DEF PhaseInv, link, boardSide, LinkInv
  <2>5. CASE ~(astray \/ state # "FLING")
    <3>1. ~astray /\ state = "FLING" /\ UNCHANGED link /\ closing' = closing
      BY <2>1, <2>5 DEF boardSide
    <3> QED BY <2>2, <2>3, <3>1 DEF PhaseInv, link, LinkInv
  <2> QED BY <2>4, <2>5
<1>3. ASSUME NEW p \in {"DONE", "SKIP"}, NEW s, UserCommand(p, s),
             s = IF p = "DONE" THEN "WAITING_FOR_CALIBRATION" ELSE "WAITING_FOR_CANCEL_ACK"
      PROVE  PhaseInv'
  <2> DEFINE m == Signal("CALIBRATE_MAGNET", p)
  <2>1. /\ action = "CALIBRATE_MAGNET" /\ state = "WAITING_FOR_USER_COMMAND" /\ action' = action
        /\ state' = s /\ AppSends(<<m>>) /\ astray' = astray
    BY <1>3 DEF UserCommand, Goto
  <2>2. m \in Messages \ Noise
    BY Significant, NamesAreKnown
  <2>3. ASSUME NEW q \in Seq(Messages), status = "open", Phase(q) PROVE Phase(q \o <<m>>)'
    <3>1. boardNews = <<>> /\ CalibratesMagnet(q)
      BY <2>1, <2>3 DEF Phase, Lost, Greets, Asks
    <3>2. q = <<>> /\ down = <<>> /\ board = "CALIBRATE_MAGNET" /\ stage = "USER_COMMAND"
      BY <2>1, <3>1 DEF CalibratesMagnet, At, Between
    <3>3. CalibratesMagnet(q \o <<m>>)'
      BY <1>3, <2>1, <3>2 DEF CalibratesMagnet, At, Between, AppSends, boardSide
    <3> QED BY <2>1, <3>1, <3>3 DEF Phase, AppSends, channel
  <2>4. \A q \in Seq(Messages) : status = "open" /\ appNews # <<>> => ~Opening(q)
    BY <2>1 DEF Opening, IsActionDone, LinkInv
  <2> HIDE DEF m
  <2> QED BY <2>1, <2>2, <2>3, <2>4, SendingKeepsPhase
<1> QED BY <1>1, <1>2, <1>3, BreakingKeepsPhase, AskingKeepsPhase DEF UserCalls

LEMMA AppKeepsPhase ==
  ASSUME LinkInv, PhaseInv, TaskInv, CloseInv, AppNext, UNCHANGED boardSide
  PROVE  PhaseInv' /\ TaskInv'
  BY EventKeepsPhase, UserKeepsPhase, CallbacksKeepPhase, TicksKeepPhase,
     EventKeepsTasks, UserKeepsTasks, CallbacksKeepTasks, TicksKeepTasks DEF AppNext
-----------------------------------------------------------------------------
(***************************************************************************)
(* The board's steps.                                                      *)
(***************************************************************************)
(* The board hears m, of what is on its way: r is what is left of q.       *)
Hears(m, q, r) ==
    /\ Reads(up, q) /\ Reads(up', r)
    /\ IF m \in Noise THEN r = q ELSE q # <<>> /\ m = Head(q) /\ r = Tail(q)

LEMMA HeardKeepsPhase ==
  ASSUME LinkInv, PhaseInv, UNCHANGED app, NEW m, B!BoardReceives(m), NEW ms, B!BoardAnswers(ms),
         closing' = closing,
         \/ board # "CONNECTING_APP_LOOP" \/ stage # "INITIAL_COMMAND" \/ m \notin Noise \cup {Break}
         \/ UNCHANGED <<board, stage, down>>,
         \A q, r \in Seq(Messages) :
           status = "open" /\ appNews = <<>> /\ boardNews = <<>> /\ Hears(m, q, r) /\ Phase(q) => Phase(r)'
  PROVE  PhaseInv'
<1>1. /\ status = "open" /\ boardNews = <<>> /\ up # <<>> /\ m = Head(up) /\ ~closing
      /\ up' = Tail(up) /\ UNCHANGED <<status, appNews, boardNews>>
  BY DEF B!BoardReceives, B!BoardHears, B!BoardAnswers, B!channel
<1>2. UNCHANGED <<action, state, tasks, astray>>
  BY DEF app
<1>3. up \in Seq(Messages)
  BY DEF LinkInv
<1>4. ASSUME NEW q \in Seq(Messages), Reads(up, q)
      PROVE  \E r \in Seq(Messages) : Hears(m, q, r)
  <2>1. CASE m \in Noise
    BY <1>1, <1>3, <1>4, <2>1, ReadsNoiseFirst DEF Hears
  <2>2. CASE m \notin Noise
    <3>1. q # <<>> /\ Head(q) = m /\ Reads(up', Tail(q))
      BY <1>1, <1>3, <1>4, <2>2, ReadsFirst
    <3> QED BY <1>4, <2>2, <3>1, HeadTailProperties DEF Hears
  <2> QED BY <2>1, <2>2
<1>5. ASSUME NEW q \in Seq(Messages), NEW r \in Seq(Messages), Hears(m, q, r), Opening(q) PROVE Opening(r)'
  <2>1. board = "CONNECTING_APP_LOOP" /\ stage = "INITIAL_COMMAND" /\ q \in {<<>>, <<Break>>}
    BY <1>1, <1>5 DEF Opening, Fresh, Lost
  <2>2. Break \in Messages \ Noise
    BY Significant, NamesAreKnown DEF Break
  <2>3. r \in {<<>>, <<Break>>} /\ m \in Noise \cup {Break} /\ (q = <<>> => r = <<>>)
    BY <1>5, <2>1, <2>2, ShortQueues DEF Hears
  <2> QED BY <1>1, <1>2, <1>5, <2>1, <2>3 DEF Opening, Fresh, Lost, IsActionDone
<1>6. CASE appNews # <<>>
  <2>1. PICK q \in Seq(Messages) : Reads(up, q) /\ Opening(q)
    BY <1>1, <1>6 DEF PhaseInv
  <2>2. PICK r \in Seq(Messages) : Hears(m, q, r)
    BY <1>4, <2>1
  <2> QED BY <1>1, <1>5, <1>6, <2>1, <2>2 DEF PhaseInv, Hears
<1>7. CASE appNews = <<>> /\ ~astray
  <2>1. PICK q \in Seq(Messages) : Reads(up, q) /\ Phase(q)
    BY <1>1, <1>7 DEF PhaseInv
  <2>2. PICK r \in Seq(Messages) : Hears(m, q, r)
    BY <1>4, <2>1
  <2>3. Phase(r)'
    BY <1>1, <1>7, <2>1, <2>2
  <2> QED BY <1>1, <1>7, <2>2, <2>3 DEF PhaseInv, Hears
<1>8. CASE appNews = <<>> /\ astray
  BY <1>1, <1>2, <1>8 DEF PhaseInv
<1> QED BY <1>6, <1>7, <1>8

(* Where the board is, the application is in the same procedure, or has    *)
(* asked for the next, or waits for what will not come.                    *)
LEMMA Connecting ==
  ASSUME NEW q, Phase(q), boardNews = <<>>, board = "CONNECTING_APP_LOOP"
  PROVE  \/ stage = "INITIAL_COMMAND" /\ down = <<>> /\ (Lost(q) \/ Greets(q))
         \/ action = "CONNECT" /\ Connects(q)
  BY DEF Phase, Fresh, Settles, Asks, InFlightWith, At, CalibratesAccel, CalibratesMagnet,
         Downloads, UploadsRecord

LEMMA Flying ==
  ASSUME NEW q, Phase(q), boardNews = <<>>, board = "FLIGHT_LOOP"
  PROVE  action = "FLIGHT_LOOP" /\ InFlightWith(q)
  BY DEF Phase, Fresh, Settles, Connects, Asks, At, CalibratesAccel, CalibratesMagnet,
         Downloads, UploadsRecord

(* A record is acknowledged, and the next thing may be asked for.          *)
Wants(rest) ==
    \/ action = "APP_LOOP" /\ rest = <<>>
    \/ action = "DISCONNECT" /\ state = "WAITING" /\ rest = <<Break>>
    \/ /\ action \in Procedures /\ state = "INITIAL_COMMAND" /\ rest = <<Signal(action, "START")>>
       /\ action \in Uploads /\ tasks.strays["ping"] = 0 =>
            up # <<>> /\ up[Len(up)] = Signal(action, "START")

LEMMA Settling ==
  ASSUME NEW q
  PROVE  /\ \A rest : boardNews = <<>> /\ Wants(rest) /\ Settles(q, rest) => Phase(q)
         /\ Phase(q) /\ boardNews = <<>> =>
              \/ \E rest : Wants(rest) /\ Settles(q, rest)
              \/ action = "DISCONNECT" /\ Lost(q) /\ Fresh
              \/ action = "CONNECT"
              \/ Midway(q)
  BY DEF Phase, Wants, Asks, Midway, Greets, Lost

LEMMA Accelerometer ==
  ASSUME NEW q, Phase(q), boardNews = <<>>, board = "CALIBRATE_ACCEL"
  PROVE  \/ action = "CALIBRATE_ACCEL" /\ CalibratesAccel(q)
         \/ \E rest : Wants(rest) /\ Settles(q, rest)
<1>1. ~(action = "FLIGHT_LOOP" /\ InFlightWith(q)) /\ ~(action = "CONNECT" /\ Connects(q)) /\ ~Fresh
  BY DEF InFlightWith, Connects, At, Fresh
<1>2. ~(action = "CALIBRATE_MAGNET" /\ CalibratesMagnet(q))
  BY DEF CalibratesMagnet, At
<1>3. \A c : ~(action \in {"DOWNLOAD_SETTINGS", "DOWNLOAD_ROUTE"} /\ Downloads(q, c))
  BY DEF Downloads
<1>4. \A c : ~(action \in {"UPLOAD_SETTINGS", "UPLOAD_ROUTE"} /\ UploadsRecord(q, c))
  BY DEF UploadsRecord
<1> QED BY <1>1, <1>2, <1>3, <1>4, Settling DEF Phase, Midway, Wants, Asks

LEMMA Magnetometer ==
  ASSUME NEW q, Phase(q), boardNews = <<>>, board = "CALIBRATE_MAGNET"
  PROVE  \/ action = "CALIBRATE_MAGNET" /\ CalibratesMagnet(q)
         \/ \E rest : Wants(rest) /\ Settles(q, rest)
<1>1. ~(action = "FLIGHT_LOOP" /\ InFlightWith(q)) /\ ~(action = "CONNECT" /\ Connects(q)) /\ ~Fresh
  BY DEF InFlightWith, Connects, At, Fresh
<1>2. ~(action = "CALIBRATE_ACCEL" /\ CalibratesAccel(q))
  BY DEF CalibratesAccel
<1>3. \A c : ~(action \in {"DOWNLOAD_SETTINGS", "DOWNLOAD_ROUTE"} /\ Downloads(q, c))
  BY DEF Downloads
<1>4. \A c : ~(action \in {"UPLOAD_SETTINGS", "UPLOAD_ROUTE"} /\ UploadsRecord(q, c))
  BY DEF UploadsRecord
<1> QED BY <1>1, <1>2, <1>3, <1>4, Settling DEF Phase, Midway, Wants, Asks

LEMMA Downloading ==
  ASSUME NEW q, Phase(q), boardNews = <<>>
  PROVE  /\ board = "DOWNLOAD_SETTINGS" =>
              \/ action = "DOWNLOAD_SETTINGS" /\ Downloads(q, "CONTROL_SETTINGS")
              \/ \E rest : Wants(rest) /\ Settles(q, rest)
         /\ board = "DOWNLOAD_ROUTE" => action = "DOWNLOAD_ROUTE" /\ Downloads(q, "ROUTE_CONTAINER")
<1> SUFFICES ASSUME board \in {"DOWNLOAD_SETTINGS", "DOWNLOAD_ROUTE"}
             PROVE  \/ action = board /\ \/ board = "DOWNLOAD_SETTINGS" /\ Downloads(q, "CONTROL_SETTINGS")
                                         \/ board = "DOWNLOAD_ROUTE" /\ Downloads(q, "ROUTE_CONTAINER")
                    \/ board = "DOWNLOAD_SETTINGS" /\ \E rest : Wants(rest) /\ Settles(q, rest)
  BY DEF Downloads
<1>1. ~(action = "FLIGHT_LOOP" /\ InFlightWith(q)) /\ ~(action = "CONNECT" /\ Connects(q)) /\ ~Fresh
  BY DEF InFlightWith, Connects, At, Fresh
<1>2. /\ ~(action = "CALIBRATE_ACCEL" /\ CalibratesAccel(q))
      /\ ~(action = "CALIBRATE_MAGNET" /\ CalibratesMagnet(q))
  BY DEF CalibratesAccel, CalibratesMagnet, At
<1>3. \A c : Downloads(q, c) => board = action
  BY DEF Downloads
<1>4. \A c : ~(action \in {"UPLOAD_SETTINGS", "UPLOAD_ROUTE"} /\ UploadsRecord(q, c))
  BY DEF UploadsRecord
<1>5. \A rest : Settles(q, rest) => board = "DOWNLOAD_SETTINGS"
  BY DEF Settles
<1> QED BY <1>1, <1>2, <1>3, <1>4, <1>5, Settling DEF Phase, Midway, Wants, Asks

LEMMA Uploading ==
  ASSUME NEW q, Phase(q), boardNews = <<>>
  PROVE  /\ board = "UPLOAD_SETTINGS" => action = "UPLOAD_SETTINGS" /\ UploadsRecord(q, "CONTROL_SETTINGS")
         /\ board = "UPLOAD_ROUTE" => action = "UPLOAD_ROUTE" /\ UploadsRecord(q, "ROUTE_CONTAINER")
<1> SUFFICES ASSUME board \in {"UPLOAD_SETTINGS", "UPLOAD_ROUTE"}
             PROVE  action = board /\ \/ board = "UPLOAD_SETTINGS" /\ UploadsRecord(q, "CONTROL_SETTINGS")
                                      \/ board = "UPLOAD_ROUTE" /\ UploadsRecord(q, "ROUTE_CONTAINER")
  OBVIOUS
<1>1. ~(action = "FLIGHT_LOOP" /\ InFlightWith(q)) /\ ~(action = "CONNECT" /\ Connects(q)) /\ ~Fresh
  BY DEF InFlightWith, Connects, At, Fresh
<1>2. /\ ~(action = "CALIBRATE_ACCEL" /\ CalibratesAccel(q))
      /\ ~(action = "CALIBRATE_MAGNET" /\ CalibratesMagnet(q))
  BY DEF CalibratesAccel, CalibratesMagnet, At
<1>3. \A c : action \in {"DOWNLOAD_SETTINGS", "DOWNLOAD_ROUTE"} => ~Downloads(q, c)
  BY DEF Downloads
<1>4. \A c : UploadsRecord(q, c) => board = action
  BY DEF UploadsRecord
<1>5. \A rest : ~Settles(q, rest)
  BY DEF Settles
<1> QED BY <1>1, <1>2, <1>3, <1>4, <1>5, Settling DEF Phase, Midway, Wants, Asks

(* In the application loop, what the board still hears of importance.      *)
LEMMA Looping ==
  ASSUME NEW q, Phase(q), boardNews = <<>>, board = "APP_LOOP"
  PROVE  \/ \E rest : Wants(rest) /\ Settles(q, rest)
         \/ q = <<>>
         \/ /\ action \in Uploads /\ state = "UPLOADING_DATA" /\ (fails = 3 \/ tasks.strays["ping"] > 0)
            /\ \E v \in Arrivals : Between(q, <<Payload(DataCommand[action], v)>>, <<>>)
<1>1. action = "CONNECT" /\ Connects(q) => q = <<>>
  BY DEF Connects, At, Between
<1>2. action = "FLIGHT_LOOP" /\ InFlightWith(q) => q = <<>>
  BY DEF InFlightWith, At, Between
<1>3. ~(action = "CALIBRATE_ACCEL" /\ CalibratesAccel(q)) /\ ~Fresh
  BY DEF CalibratesAccel, Fresh
<1>4. action = "CALIBRATE_MAGNET" /\ CalibratesMagnet(q) => q = <<>>
  BY DEF CalibratesMagnet, At, Between
<1>5. \A c : action \in {"DOWNLOAD_SETTINGS", "DOWNLOAD_ROUTE"} => ~Downloads(q, c)
  BY DEF Downloads
<1>6. ASSUME NEW c, action \in Uploads, UploadsRecord(q, c)
      PROVE  \/ q = <<>>
             \/ /\ state = "UPLOADING_DATA" /\ (fails = 3 \/ tasks.strays["ping"] > 0)
                /\ \E v \in Arrivals : Between(q, <<Payload(c, v)>>, <<>>)
  BY <1>6 DEF UploadsRecord, Between, Uploads
<1>7. action \in Uploads <=> action \in {"UPLOAD_SETTINGS", "UPLOAD_ROUTE"}
  BY DEF Uploads
<1> QED BY <1>1, <1>2, <1>3, <1>4, <1>5, <1>6, <1>7, Settling, DataCommands DEF Phase, Midway, Wants, Asks

(* What the board has still to hear, procedure by procedure.               *)
LEMMA StillToHear ==
  ASSUME NEW q, q # <<>>
  PROVE  /\ Connects(q) =>
              /\ down = <<>> /\ board = "CONNECTING_APP_LOOP"
              /\ \/ /\ state = "WAITING_FOR_CALIBRATION_DATA" /\ stage = "CALIBRATION_ACK"
                    /\ q = <<Signal("CALIBRATION_SETTINGS", "DATA_INVALID")>>
                 \/ /\ state = "FINAL_COMMAND" /\ stage = "CALIBRATION_ACK"
                    /\ q = <<Signal("CALIBRATION_SETTINGS", "ACK"), Signal("APP_LOOP", "START")>>
                 \/ /\ state = "FINAL_COMMAND" /\ stage = "FINAL_COMMAND"
                    /\ q = <<Signal("APP_LOOP", "START")>>
         /\ InFlightWith(q) =>
              /\ down = <<>> /\ board = "FLIGHT_LOOP"
              /\ \/ /\ state = "WAITING_FOR_CONTROLS" /\ stage = "CONTROLS_ACK"
                    /\ q = <<Signal("CONTROL_SETTINGS", "DATA_INVALID")>>
                 \/ /\ state = "WAITING_FOR_ROUTE_COMMAND" /\ stage = "CONTROLS_ACK"
                    /\ q = <<Signal("CONTROL_SETTINGS", "ACK")>>
                 \/ /\ state = "WAITING_FOR_ROUTE" /\ stage = "ROUTE_ACK"
                    /\ q = <<Signal("ROUTE_CONTAINER", "DATA_INVALID")>>
                 \/ /\ state \in {"FLING", "BREAKING"} /\ stage = "ROUTE_ACK"
                    /\ q = <<Signal("ROUTE_CONTAINER", "ACK"), Ready>>
                 \/ state \in {"FLING", "BREAKING"} /\ stage = "FINAL_COMMAND" /\ q = <<Ready>>
         /\ CalibratesAccel(q) =>
              /\ down = <<>> /\ state = "WAITING_FOR_CALIBRATION_DATA" /\ board = "CALIBRATE_ACCEL"
              /\ q = <<Signal("CALIBRATION_SETTINGS", "DATA_INVALID")>>
         /\ CalibratesMagnet(q) =>
              /\ down = <<>> /\ board = "CALIBRATE_MAGNET" /\ stage = "USER_COMMAND"
              /\ \/ state = "WAITING_FOR_CALIBRATION" /\ q = <<Signal("CALIBRATE_MAGNET", "DONE")>>
                 \/ state = "WAITING_FOR_CANCEL_ACK" /\ q = <<Signal("CALIBRATE_MAGNET", "SKIP")>>
  BY DEF Connects, InFlightWith, CalibratesAccel, CalibratesMagnet, At, Between, Offered

LEMMA StillToTransfer ==
  ASSUME NEW q, NEW c, q # <<>>
  PROVE  /\ Downloads(q, c) =>
              /\ down = <<>> /\ state = "DOWNLOADING_DATA" /\ board = action
              /\ \/ action = "DOWNLOAD_SETTINGS" /\ q = <<Signal(c, "DATA_INVALID")>>
                 \/ /\ action = "DOWNLOAD_ROUTE"
                    /\ \E p \in {"ACK", "DATA_INVALID"} : q = <<Signal("DOWNLOAD_SETTINGS", p)>>
         /\ UploadsRecord(q, c) =>
              /\ down = <<>> /\ state = "UPLOADING_DATA" /\ \E v \in Arrivals : q = <<Payload(c, v)>>
              /\ \/ board = action /\ fails \in 0 .. 3 /\ (tasks.strays["ping"] = 0 => up = q)
                 \/ board = "APP_LOOP" /\ (fails = 3 \/ tasks.strays["ping"] > 0)
  BY DEF Downloads, UploadsRecord, At, Between, Offered

(* The record is acknowledged: the board is in the application loop, and   *)
(* an upload that is asked for is still the last it has to hear.           *)
LEMMA AcknowledgedKeepsPhase ==
  ASSUME NEW q \in Seq(Messages), NEW rest, Wants(rest), NEW a \in Messages \ Noise, q = <<a>> \o rest,
         NEW r \in Seq(Messages), Hears(a, q, r), up \in Seq(Messages), up # <<>>, up' = Tail(up),
         boardNews = <<>>, UNCHANGED <<app, boardNews>>, down' = <<>>, board' = "APP_LOOP"
  PROVE  Phase(r)'
<1>1. rest = <<>> \/ \E x \in Messages : rest = <<x>>
  <2>1. \A p \in Procedures : Signal(p, "START") \in Messages
    BY Significant, NamesAreKnown
  <2>2. Break \in Messages
    BY Significant, NamesAreKnown DEF Break
  <2> QED BY <2>1, <2>2 DEF Wants
<1>2. r = rest
  <2>1. r = Tail(q)
    BY DEF Hears
  <2>2. CASE rest = <<>>
    <3>1. q = <<a>>
      BY <2>2, ShortQueues
    <3> QED BY <2>1, <2>2, <3>1
  <2>3. CASE rest # <<>>
    <3>1. PICK x \in Messages : rest = <<x>>
      BY <1>1, <2>3
    <3>2. q = <<a, x>>
      BY <3>1, ShortQueues
    <3>3. Tail(<<a, x>>) = <<x>>
      BY ShortQueues
    <3> QED BY <2>1, <3>1, <3>2, <3>3
  <2> QED BY <2>2, <2>3
<1>3. Settles(r, rest)'
  BY <1>2 DEF Settles
<1>4. UNCHANGED <<action, state, tasks>>
  BY DEF app
<1>5. CASE action \in {"APP_LOOP", "DISCONNECT"}
  BY <1>3, <1>4, <1>5 DEF Phase, Wants, Procedures
<1>6. CASE action \in Procedures
  <2>1. rest # <<>> /\ rest = <<Signal(action, "START")>> /\ state = "INITIAL_COMMAND"
    BY <1>6 DEF Wants, Procedures
  <2>2. up' # <<>>
    BY <1>2, <2>1, ReadsNothing DEF Hears
  <2>3. up'[Len(up')] = up[Len(up)]
    BY <2>2
  <2>4. Asks(r)'
    BY <1>3, <1>4, <1>6, <2>1, <2>2, <2>3 DEF Asks, Wants, Procedures
  <2> QED BY <1>4, <1>6, <2>4 DEF Phase
<1> QED BY <1>5, <1>6 DEF Wants

(* A handler answers m, which is not noise, with ms.                       *)
LEMMA BoardAnswering ==
  ASSUME LinkInv, PhaseInv, UNCHANGED app, NEW m \in Messages \ Noise, m # Break, B!BoardReceives(m), NEW ms,
         B!BoardAnswers(ms), closing' = closing,
         \A q, r \in Seq(Messages) :
           /\ boardNews = <<>> /\ boardNews' = <<>> /\ Phase(q) /\ Hears(m, q, r)
           /\ q # <<>> /\ Head(q) = m /\ r = Tail(q)
           => Phase(r)'
  PROVE  PhaseInv'
<1>1. boardNews' = boardNews
  BY DEF B!BoardAnswers, B!channel
<1>2. \A q, r \in Seq(Messages) : Hears(m, q, r) => q # <<>> /\ Head(q) = m /\ r = Tail(q)
  BY DEF Hears
<1> QED BY <1>1, <1>2, HeardKeepsPhase

(* A record sent again, as it may come.                                    *)
LEMMA AgainSent ==
  ASSUME NEW c \in {"CALIBRATION_SETTINGS", "CONTROL_SETTINGS", "ROUTE_CONTAINER"}, B!SendAgain(c)
  PROVE  \E v \in Arrivals : B!BoardAnswers(<<Payload(c, v)>>)
<1>1. PICK v \in Arrivals : B!BoardAnswers(<<>> \o <<Payload(c, v)>>)
  BY BoardsNames, CutOrValid DEF B!SendAgain, B!Sends
<1>2. Payload(c, v) \in Messages
  BY Significant, NamesAreKnown
<1>3. <<>> \o <<Payload(c, v)>> = <<Payload(c, v)>>
  BY <1>2, ShortQueues
<1> QED BY <1>1, <1>3

LEMMA AnsweredWithRecord ==
  ASSUME NEW b \in Commands, NEW p \in Parameters, NEW c \in Commands, b # "PING_VALUE",
         \E v \in Arrivals : B!BoardAnswers(<<Signal(b, p)>> \o <<Payload(c, v)>>)
  PROVE  \E v \in Arrivals : B!BoardAnswers(<<Signal(b, p), Payload(c, v)>>)
<1>1. PICK v \in Arrivals : B!BoardAnswers(<<Signal(b, p)>> \o <<Payload(c, v)>>)
  OBVIOUS
<1>2. Signal(b, p) \in Messages /\ Payload(c, v) \in Messages
  BY Significant, NamesAreKnown, SignalsAreMessages
<1>3. <<Signal(b, p)>> \o <<Payload(c, v)>> = <<Signal(b, p), Payload(c, v)>>
  BY <1>2, ShortQueues
<1> QED BY <1>1, <1>3

LEMMA BoardConnectKeepsPhase ==
  ASSUME LinkInv, PhaseInv, UNCHANGED app, B!HandleEventConnectingAppLoop
  PROVE  PhaseInv'
<1>1. board = "CONNECTING_APP_LOOP" /\ UNCHANGED <<action, state, tasks>>
  BY DEF B!HandleEventConnectingAppLoop, app
<1> DEFINE data  == "CALIBRATION_SETTINGS"
           start == Signal("APP_LOOP", "START")
<1>2. /\ Signal("START_CMD", "START") \in Messages \ Noise /\ Signal("START_CMD", "START") # Break
      /\ Signal(data, "ACK") \in Messages \ Noise /\ Signal(data, "ACK") # Break
      /\ Signal(data, "DATA_INVALID") \in Messages \ Noise /\ Signal(data, "DATA_INVALID") # Break
      /\ start \in Messages \ Noise /\ start # Break
  <2>1. /\ Signal("START_CMD", "START") # Break /\ Signal(data, "ACK") # Break
        /\ Signal(data, "DATA_INVALID") # Break /\ start # Break
    BY MessagesDiffer DEF Break
  <2> QED BY <2>1, Significant, NamesAreKnown
<1>3. CASE /\ stage = "INITIAL_COMMAND" /\ B!BoardReceives(Signal("START_CMD", "START"))
           /\ \E v \in Arrivals :
                B!BoardAnswers(<<Signal("START_CMD", "ACK"), Signal(data, "READY")>> \o <<Payload(data, v)>>)
           /\ B!Stage(board, "CALIBRATION_ACK")
  <2>0. PICK v \in Arrivals :
          B!BoardAnswers(<<Signal("START_CMD", "ACK"), Signal(data, "READY"), Payload(data, v)>>)
    <3>1. PICK v \in Arrivals :
            B!BoardAnswers(<<Signal("START_CMD", "ACK"), Signal(data, "READY")>> \o <<Payload(data, v)>>)
      BY <1>3
    <3>2. /\ Signal("START_CMD", "ACK") \in Messages /\ Signal(data, "READY") \in Messages
          /\ Payload(data, v) \in Messages
      BY Significant, NamesAreKnown
    <3>3. <<Signal("START_CMD", "ACK"), Signal(data, "READY")>> \o <<Payload(data, v)>>
            = <<Signal("START_CMD", "ACK"), Signal(data, "READY"), Payload(data, v)>>
      BY <3>2, ShortQueues
    <3> QED BY <3>1, <3>3
  <2>1. ASSUME NEW q, NEW r, boardNews = <<>>, boardNews' = <<>>, Phase(q), q # <<>>,
               Head(q) = Signal("START_CMD", "START"), r = Tail(q)
        PROVE  Phase(r)'
    <3>1. down = <<>> /\ Greets(q)
      <4>1. q # <<Break>>
        BY <1>2, <2>1
      <4> QED BY <1>1, <1>3, <2>1, <4>1, Connecting, StillToHear DEF Lost
    <3>2. r = <<>>
      BY <2>1, <3>1 DEF Greets
    <3>3. down' = <<Signal("START_CMD", "ACK"), Signal(data, "READY"), Payload(data, v)>>
      BY <2>0, <3>1 DEF B!BoardAnswers
    <3>4. Connects(r)'
      BY <1>1, <1>3, <3>1, <3>2, <3>3 DEF B!Stage, Greets, Connects, At, Between
    <3> QED BY <1>1, <2>1, <3>1, <3>4 DEF Greets, Phase
  <2> QED BY <1>2, <1>3, <2>0, <2>1, BoardAnswering DEF B!Stage
<1>4. CASE /\ stage = "CALIBRATION_ACK" /\ B!BoardReceives(Signal(data, "ACK")) /\ B!BoardAnswers(<<>>)
           /\ B!Stage(board, "FINAL_COMMAND")
  <2>1. ASSUME NEW q, NEW r, boardNews = <<>>, boardNews' = <<>>, Phase(q), q # <<>>,
               Head(q) = Signal(data, "ACK"), r = Tail(q)
        PROVE  Phase(r)'
    <3>1. Signal(data, "ACK") # Signal(data, "DATA_INVALID") /\ Signal(data, "ACK") # start
      BY MessagesDiffer
    <3>2. action = "CONNECT" /\ Connects(q)
      BY <1>1, <1>4, <2>1, Connecting
    <3>3. down = <<>> /\ state = "FINAL_COMMAND" /\ q = <<Signal(data, "ACK"), start>>
      BY <2>1, <3>1, <3>2, StillToHear
    <3>4. r = <<start>> /\ down' = <<>>
      BY <1>4, <2>1, <3>3 DEF B!BoardAnswers
    <3>5. Connects(r)'
      BY <1>1, <1>4, <3>3, <3>4 DEF B!Stage, Connects, At, Between
    <3> QED BY <1>1, <2>1, <3>2, <3>5 DEF Phase
  <2> QED BY <1>2, <1>4, <2>1, BoardAnswering DEF B!Stage
<1>5. CASE stage = "CALIBRATION_ACK" /\ B!SendAgain(data)
  <2>0. PICK v \in Arrivals : B!BoardAnswers(<<Payload(data, v)>>)
    BY <1>5, AgainSent
  <2>1. /\ B!BoardReceives(Signal(data, "DATA_INVALID")) /\ UNCHANGED <<board, stage, closing>>
    BY <1>5, BoardsNames DEF B!SendAgain, B!boardVars
  <2>2. ASSUME NEW q, NEW r, boardNews = <<>>, boardNews' = <<>>, Phase(q), q # <<>>,
               Head(q) = Signal(data, "DATA_INVALID"), r = Tail(q)
        PROVE  Phase(r)'
    <3>1. Signal(data, "DATA_INVALID") # Signal(data, "ACK") /\ Signal(data, "DATA_INVALID") # start
      BY MessagesDiffer
    <3>2. action = "CONNECT" /\ Connects(q)
      BY <1>1, <1>5, <2>2, Connecting
    <3>3. down = <<>> /\ state = "WAITING_FOR_CALIBRATION_DATA" /\ q = <<Signal(data, "DATA_INVALID")>>
      BY <2>2, <3>1, <3>2, StillToHear
    <3>4. r = <<>> /\ down' = <<Payload(data, v)>>
      BY <2>0, <2>2, <3>3 DEF B!BoardAnswers
    <3>5. Connects(r)'
      BY <1>1, <1>5, <2>1, <3>3, <3>4 DEF Connects, Offered, At, Between
    <3> QED BY <1>1, <2>2, <3>2, <3>5 DEF Phase
  <2> QED BY <1>2, <2>0, <2>1, <2>2, BoardAnswering
<1>6. CASE /\ stage = "FINAL_COMMAND" /\ B!BoardReceives(start)
           /\ B!BoardAnswers(<<Signal("APP_LOOP", "ACK")>>) /\ B!ToAppLoop
  <2>1. ASSUME NEW q, NEW r, boardNews = <<>>, boardNews' = <<>>, Phase(q), q # <<>>,
               Head(q) = start, r = Tail(q)
        PROVE  Phase(r)'
    <3>1. start # Signal(data, "ACK") /\ start # Signal(data, "DATA_INVALID")
      BY MessagesDiffer
    <3>2. action = "CONNECT" /\ Connects(q)
      BY <1>1, <1>6, <2>1, Connecting
    <3>3. down = <<>> /\ state = "FINAL_COMMAND" /\ q = <<start>>
      BY <2>1, <3>1, <3>2, StillToHear
    <3>4. r = <<>> /\ down' = <<Signal("APP_LOOP", "ACK")>>
      BY <1>6, <2>1, <3>3 DEF B!BoardAnswers
    <3>5. Connects(r)'
      BY <1>1, <1>6, <3>3, <3>4 DEF B!ToAppLoop, B!Stage, Connects, Between
    <3> QED BY <1>1, <2>1, <3>2, <3>5 DEF Phase
  <2> QED BY <1>2, <1>6, <2>1, BoardAnswering DEF B!ToAppLoop, B!Stage
<1> QED BY <1>3, <1>4, <1>5, <1>6, BoardsNames, CutOrValid
        DEF B!HandleEventConnectingAppLoop, B!Acknowledged, B!Sends

(* A record is delivered; the board was waiting for that alone.            *)
LEMMA DeliveryKeepsPhase ==
  ASSUME LinkInv, PhaseInv, UNCHANGED app, NEW c,
         \/ /\ c = "CALIBRATION_SETTINGS"
            /\ board = "CALIBRATE_ACCEL" \/ (board = "CALIBRATE_MAGNET" /\ stage = "CALIBRATION_ACK")
         \/ c = "CONTROL_SETTINGS" /\ board = "DOWNLOAD_SETTINGS",
         B!BoardReceives(Signal(c, "ACK")), B!BoardAnswers(<<>>), B!ToAppLoop
  PROVE  PhaseInv'
<1> DEFINE m == Signal(c, "ACK")
<1>1. m \in Messages \ Noise /\ m # Break /\ m # Signal(c, "DATA_INVALID")
  <2>1. m # Break /\ m # Signal(c, "DATA_INVALID")
    BY MessagesDiffer DEF Break
  <2> QED BY <2>1, Significant, NamesAreKnown
<1>2. /\ board' = "APP_LOOP" /\ closing' = closing /\ up' = Tail(up) /\ down' = down \o <<>>
      /\ boardNews' = boardNews /\ up # <<>> /\ up \in Seq(Messages)
  BY DEF B!ToAppLoop, B!Stage, B!BoardAnswers, B!channel, B!BoardReceives, B!BoardHears, LinkInv
<1>3. ASSUME NEW q \in Seq(Messages), NEW r \in Seq(Messages), boardNews = <<>>, Phase(q), Hears(m, q, r),
             q # <<>>, Head(q) = m
      PROVE  Phase(r)'
  <2>1. /\ \A x : Signal("CALIBRATE_MAGNET", x) # m
        /\ ~(action = "CALIBRATE_ACCEL" /\ CalibratesAccel(q)) \/ c # "CALIBRATION_SETTINGS"
        /\ ~(action = "DOWNLOAD_SETTINGS" /\ Downloads(q, "CONTROL_SETTINGS")) \/ c # "CONTROL_SETTINGS"
    BY <1>1, <1>3, MessagesDiffer, StillToHear, StillToTransfer
  <2>2. ~(action = "CALIBRATE_MAGNET" /\ CalibratesMagnet(q))
    BY <1>3, <2>1, StillToHear
  <2>3. PICK rest : Wants(rest) /\ Settles(q, rest)
    BY <1>3, <2>1, <2>2, Accelerometer, Magnetometer, Downloading
  <2>4. down = <<>> /\ q = <<m>> \o rest
    BY <2>3 DEF Settles
  <2>5. down' = <<>>
    BY <1>2, <2>4
  <2>6. Wants(rest) /\ q = <<m>> \o rest /\ UNCHANGED <<app, boardNews>>
    BY <1>2, <2>3, <2>4
  <2> HIDE DEF m
  <2> QED BY <1>1, <1>2, <1>3, <2>5, <2>6, AcknowledgedKeepsPhase
<1>4. B!BoardReceives(m)
  OBVIOUS
<1> HIDE DEF m
<1> QED BY <1>1, <1>2, <1>3, <1>4, BoardAnswering

(* A record is sent again, which the application waits for.                *)
LEMMA SendAgainKeepsPhase ==
  ASSUME LinkInv, PhaseInv, UNCHANGED app, NEW c \in {"CALIBRATION_SETTINGS", "CONTROL_SETTINGS", "ROUTE_CONTAINER"},
         board \in {"FLIGHT_LOOP", "CALIBRATE_ACCEL", "CALIBRATE_MAGNET", "DOWNLOAD_SETTINGS", "DOWNLOAD_ROUTE"},
         board = "FLIGHT_LOOP" /\ c = "CONTROL_SETTINGS" => stage = "CONTROLS_ACK",
         board = "FLIGHT_LOOP" /\ c = "ROUTE_CONTAINER" => stage = "ROUTE_ACK",
         board \in {"CALIBRATE_ACCEL", "CALIBRATE_MAGNET"} => c = "CALIBRATION_SETTINGS",
         board = "DOWNLOAD_SETTINGS" => c = "CONTROL_SETTINGS",
         board = "DOWNLOAD_ROUTE" => c = "ROUTE_CONTAINER",
         B!SendAgain(c)
  PROVE  PhaseInv'
<1>0. PICK v \in Arrivals : B!BoardAnswers(<<Payload(c, v)>>)
  BY AgainSent
<1> DEFINE m == Signal(c, "DATA_INVALID")
           d == Payload(c, v)
<1>1. /\ B!BoardReceives(m) /\ B!BoardAnswers(<<d>>) /\ UNCHANGED <<board, stage, fails, closing>>
      /\ UNCHANGED <<action, state, tasks>>
  BY <1>0, BoardsNames DEF B!SendAgain, B!boardVars, app
<1>2. m \in Messages \ Noise /\ m # Break
  <2>1. m # Break
    BY MessagesDiffer DEF Break
  <2> QED BY <2>1, Significant, NamesAreKnown
<1>3. ASSUME NEW q \in Seq(Messages), NEW r \in Seq(Messages), boardNews = <<>>, boardNews' = <<>>, Phase(q),
             q # <<>>, Head(q) = m, r = Tail(q)
      PROVE  Phase(r)'
  <2>1. /\ \A x : m # Signal(x, "ACK") /\ m # Signal(x, "READY") /\ m # Signal(x, "DONE") /\ m # Signal(x, "SKIP")
        /\ \A x : m = Signal(x, "DATA_INVALID") => x = c
    BY MessagesDiffer
  <2>2. ASSUME NEW rest, Settles(q, rest) PROVE board = "APP_LOOP"
    <3>1. \A x \in {"CALIBRATION_SETTINGS", "CONTROL_SETTINGS"} : q # <<Signal(x, "ACK")>> \o rest
      BY <1>3, <2>1
    <3> QED BY <2>2, <3>1 DEF Settles
  <2>3. ASSUME NEW x, q = <<Signal(x, "DATA_INVALID")>>, down = <<>>, x = c PROVE Offered(r, c)'
    <3>1. r = <<>> /\ down' = <<d>>
      BY <1>1, <1>3, <2>3 DEF B!BoardAnswers
    <3> QED BY <3>1 DEF Offered, Between
  <2>4. CASE board = "FLIGHT_LOOP"
    <3>1. action = "FLIGHT_LOOP" /\ InFlightWith(q)
      BY <1>3, <2>4, Flying
    <3>2. /\ down = <<>> /\ q = <<m>>
          /\ \/ state = "WAITING_FOR_CONTROLS" /\ stage = "CONTROLS_ACK" /\ c = "CONTROL_SETTINGS"
             \/ state = "WAITING_FOR_ROUTE" /\ stage = "ROUTE_ACK" /\ c = "ROUTE_CONTAINER"
      BY <1>3, <2>1, <3>1, StillToHear DEF Ready, m
    <3>3. Offered(r, c)'
      BY <2>3, <3>2 DEF m
    <3>4. InFlightWith(r)'
      BY <1>1, <2>4, <3>2, <3>3 DEF InFlightWith, At
    <3> QED BY <1>1, <1>3, <3>1, <3>4 DEF Phase
  <2>5. CASE board = "CALIBRATE_ACCEL"
    <3>1. action = "CALIBRATE_ACCEL" /\ CalibratesAccel(q)
      BY <1>3, <2>2, <2>5, Accelerometer
    <3>2. down = <<>> /\ q = <<m>> /\ state = "WAITING_FOR_CALIBRATION_DATA" /\ c = "CALIBRATION_SETTINGS"
      BY <1>3, <2>5, <3>1, StillToHear DEF m
    <3>3. Offered(r, c)'
      BY <2>3, <3>2 DEF m
    <3>4. CalibratesAccel(r)'
      BY <1>1, <2>5, <3>2, <3>3 DEF CalibratesAccel
    <3> QED BY <1>1, <1>3, <3>1, <3>4 DEF Phase
  <2>6. CASE board = "CALIBRATE_MAGNET"
    <3>1. CalibratesMagnet(q)
      BY <1>3, <2>2, <2>6, Magnetometer
    <3> QED BY <1>3, <2>1, <3>1, StillToHear
  <2>7. CASE board = "DOWNLOAD_SETTINGS"
    <3>1. action = "DOWNLOAD_SETTINGS" /\ Downloads(q, "CONTROL_SETTINGS")
      BY <1>3, <2>2, <2>7, Downloading
    <3>2. down = <<>> /\ q = <<m>> /\ state = "DOWNLOADING_DATA" /\ c = "CONTROL_SETTINGS"
      BY <1>3, <2>7, <3>1, StillToTransfer DEF m
    <3>3. Offered(r, c)'
      BY <2>3, <3>2 DEF m
    <3>4. Downloads(r, c)'
      BY <1>1, <2>7, <3>1, <3>2, <3>3 DEF Downloads
    <3> QED BY <1>1, <1>3, <3>1, <3>2, <3>4 DEF Phase
  <2>8. CASE board = "DOWNLOAD_ROUTE"
    <3>1. action = "DOWNLOAD_ROUTE" /\ Downloads(q, "ROUTE_CONTAINER")
      BY <1>3, <2>8, Downloading
    <3>2. \E p : q = <<Signal("DOWNLOAD_SETTINGS", p)>>
      BY <1>3, <3>1, StillToTransfer
    <3>3. m # Signal("DOWNLOAD_SETTINGS", "ACK") /\ c = "ROUTE_CONTAINER"
      BY <2>8, MessagesDiffer
    <3> QED BY <1>3, <3>2, <3>3, MessagesDiffer
  <2> QED BY <2>4, <2>5, <2>6, <2>7, <2>8
<1> HIDE DEF m, d
<1> QED BY <1>1, <1>2, <1>3, BoardAnswering

LEMMA BoardCalibrationsKeepPhase ==
  ASSUME LinkInv, PhaseInv, UNCHANGED app, B!HandleEventCalibrationMagnetometer
  PROVE  PhaseInv'
<1>1. board = "CALIBRATE_MAGNET" /\ UNCHANGED <<action, state, tasks>>
  BY DEF B!HandleEventCalibrationMagnetometer, app
<1> DEFINE cal == "CALIBRATE_MAGNET"
<1>2. /\ Signal(cal, "SKIP") \in Messages \ Noise /\ Signal(cal, "SKIP") # Break
      /\ Signal(cal, "DONE") \in Messages \ Noise /\ Signal(cal, "DONE") # Break
      /\ Signal(cal, "SKIP") # Signal(cal, "DONE")
  <2>1. /\ Signal(cal, "SKIP") # Break /\ Signal(cal, "DONE") # Break
        /\ Signal(cal, "SKIP") # Signal(cal, "DONE")
    BY MessagesDiffer DEF Break
  <2> QED BY <2>1, Significant, NamesAreKnown
<1>3. ASSUME NEW q, NEW m \in {Signal(cal, "SKIP"), Signal(cal, "DONE")}, q # <<>>, Head(q) = m,
             boardNews = <<>>, Phase(q)
      PROVE  action = "CALIBRATE_MAGNET" /\ CalibratesMagnet(q)
  <2>1. stage = "USER_COMMAND" \/ stage # "USER_COMMAND"
    OBVIOUS
  <2>2. \A rest : Settles(q, rest) => q = <<Signal("CALIBRATION_SETTINGS", "ACK")>> \o rest
    BY <1>1 DEF Settles
  <2>3. m # Signal("CALIBRATION_SETTINGS", "ACK")
    BY MessagesDiffer
  <2>4. \A rest : ~Settles(q, rest)
    BY <1>3, <2>2, <2>3
  <2> QED BY <1>1, <1>3, <2>4, Magnetometer
<1>4. CASE /\ stage = "USER_COMMAND" /\ B!BoardReceives(Signal(cal, "SKIP"))
           /\ B!BoardAnswers(<<Signal(cal, "ACK")>>) /\ B!ToAppLoop
  <2>1. ASSUME NEW q, NEW r, boardNews = <<>>, boardNews' = <<>>, Phase(q), q # <<>>,
               Head(q) = Signal(cal, "SKIP"), r = Tail(q)
        PROVE  Phase(r)'
    <3>1. action = "CALIBRATE_MAGNET" /\ CalibratesMagnet(q)
      BY <1>3, <2>1
    <3>2. down = <<>> /\ state = "WAITING_FOR_CANCEL_ACK" /\ q = <<Signal(cal, "SKIP")>>
      BY <1>2, <2>1, <3>1, StillToHear
    <3>3. r = <<>> /\ down' = <<Signal(cal, "ACK")>>
      BY <1>4, <2>1, <3>2 DEF B!BoardAnswers
    <3>4. CalibratesMagnet(r)'
      BY <1>1, <1>4, <3>2, <3>3 DEF B!ToAppLoop, B!Stage, CalibratesMagnet, Between
    <3> QED BY <1>1, <2>1, <3>1, <3>4 DEF Phase
  <2> QED BY <1>2, <1>4, <2>1, BoardAnswering DEF B!ToAppLoop, B!Stage
<1>5. CASE /\ stage = "USER_COMMAND" /\ B!BoardReceives(Signal(cal, "DONE"))
           /\ \E v \in Arrivals : B!BoardAnswers(<<Signal(cal, "DONE")>> \o <<Payload("CALIBRATION_SETTINGS", v)>>)
           /\ B!Stage(board, "CALIBRATION_ACK")
  <2>0. PICK v \in Arrivals : B!BoardAnswers(<<Signal(cal, "DONE"), Payload("CALIBRATION_SETTINGS", v)>>)
    BY <1>5, AnsweredWithRecord, NamesAreKnown
  <2>1. ASSUME NEW q, NEW r, boardNews = <<>>, boardNews' = <<>>, Phase(q), q # <<>>,
               Head(q) = Signal(cal, "DONE"), r = Tail(q)
        PROVE  Phase(r)'
    <3>1. action = "CALIBRATE_MAGNET" /\ CalibratesMagnet(q)
      BY <1>3, <2>1
    <3>2. down = <<>> /\ state = "WAITING_FOR_CALIBRATION" /\ q = <<Signal(cal, "DONE")>>
      BY <1>2, <2>1, <3>1, StillToHear
    <3>3. r = <<>> /\ down' = <<Signal(cal, "DONE"), Payload("CALIBRATION_SETTINGS", v)>>
      BY <2>0, <2>1, <3>2 DEF B!BoardAnswers
    <3>4. CalibratesMagnet(r)'
      BY <1>1, <1>5, <3>2, <3>3 DEF B!Stage, CalibratesMagnet, At, Between
    <3> QED BY <1>1, <2>1, <3>1, <3>4 DEF Phase
  <2> QED BY <1>2, <1>5, <2>0, <2>1, BoardAnswering DEF B!Stage
<1>6. CASE stage = "CALIBRATION_ACK" /\ B!Delivers("CALIBRATION_SETTINGS")
  BY <1>1, <1>6, DeliveryKeepsPhase, SendAgainKeepsPhase, BoardsNames DEF B!Delivers, B!Acknowledged
<1> QED BY <1>4, <1>5, <1>6, BoardsNames, CutOrValid DEF B!HandleEventCalibrationMagnetometer, B!Sends

LEMMA BoardDeliveriesKeepPhase ==
  ASSUME LinkInv, PhaseInv, UNCHANGED app,
         \/ B!HandleEventCalibrationAccelerometer
         \/ B!HandleEventDownloadControlSettings \/ B!HandleEventDownloadRouteContainer
  PROVE  PhaseInv'
<1>1. CASE B!HandleEventCalibrationAccelerometer
  BY <1>1, DeliveryKeepsPhase, SendAgainKeepsPhase, BoardsNames
  DEF B!HandleEventCalibrationAccelerometer, B!Delivers, B!Acknowledged
<1>2. CASE B!HandleEventDownloadControlSettings
  BY <1>2, DeliveryKeepsPhase, SendAgainKeepsPhase, BoardsNames
  DEF B!HandleEventDownloadControlSettings, B!Delivers, B!Acknowledged
<1>3. CASE board = "DOWNLOAD_ROUTE" /\ B!SendAgain("ROUTE_CONTAINER")
  BY <1>3, SendAgainKeepsPhase
<1>4. CASE /\ board = "DOWNLOAD_ROUTE" /\ B!BoardReceives(Signal("ROUTE_CONTAINER", "ACK"))
           /\ B!BoardAnswers(<<>>) /\ B!ToAppLoop
  <2> DEFINE m == Signal("ROUTE_CONTAINER", "ACK")
  <2>1. m \in Messages \ Noise /\ m # Break /\ \A p : m # Signal("DOWNLOAD_SETTINGS", p)
    <3>1. m # Break /\ \A p : m # Signal("DOWNLOAD_SETTINGS", p)
      BY MessagesDiffer DEF Break
    <3> QED BY <3>1, Significant, NamesAreKnown
  <2>2. ASSUME NEW q, boardNews = <<>>, Phase(q), q # <<>>, Head(q) = m PROVE FALSE
    <3>1. action = "DOWNLOAD_ROUTE" /\ Downloads(q, "ROUTE_CONTAINER")
      BY <1>4, <2>2, Downloading
    <3> QED BY <2>1, <2>2, <3>1, StillToTransfer
  <2> HIDE DEF m
  <2>3. B!BoardReceives(m) /\ closing' = closing
    BY <1>4 DEF m, B!ToAppLoop, B!Stage
  <2> QED BY <1>4, <2>1, <2>2, <2>3, BoardAnswering
<1> QED BY <1>1, <1>2, <1>3, <1>4, BoardsNames DEF B!HandleEventDownloadRouteContainer, B!Delivers, B!Acknowledged

LEMMA BoardFlightKeepsPhase ==
  ASSUME LinkInv, PhaseInv, UNCHANGED app, B!HandleEventFlightLoop
  PROVE  PhaseInv'
<1>1. board = "FLIGHT_LOOP" /\ UNCHANGED <<action, state, tasks>>
  BY DEF B!HandleEventFlightLoop, app
<1> DEFINE controls == Signal("CONTROL_SETTINGS", "ACK")
           route    == Signal("ROUTE_CONTAINER", "ACK")
<1>2. /\ controls \in Messages \ Noise /\ controls # Break /\ controls # route /\ controls # Ready
      /\ route \in Messages \ Noise /\ route # Break /\ route # Ready
      /\ Ready \in Messages \ Noise /\ Ready # Break
      /\ \A c : Signal(c, "DATA_INVALID") \notin {controls, route, Ready}
  <2>1. /\ controls # Break /\ controls # route /\ controls # Ready /\ route # Break /\ route # Ready
        /\ Ready # Break /\ \A c : Signal(c, "DATA_INVALID") \notin {controls, route, Ready}
    BY MessagesDiffer DEF Break, Ready
  <2> QED BY <2>1, Significant, NamesAreKnown DEF Ready
<1>3. CASE /\ stage = "CONTROLS_ACK" /\ B!BoardReceives(controls)
           /\ \E v \in Arrivals : B!BoardAnswers(<<RouteAllowed>> \o <<Payload("ROUTE_CONTAINER", v)>>)
           /\ B!Stage(board, "ROUTE_ACK")
  <2>0. PICK v \in Arrivals : B!BoardAnswers(<<RouteAllowed, Payload("ROUTE_CONTAINER", v)>>)
    BY <1>3, AnsweredWithRecord, NamesAreKnown DEF RouteAllowed
  <2>1. ASSUME NEW q, NEW r, boardNews = <<>>, boardNews' = <<>>, Phase(q), q # <<>>,
               Head(q) = controls, r = Tail(q)
        PROVE  Phase(r)'
    <3>1. action = "FLIGHT_LOOP" /\ InFlightWith(q)
      BY <1>1, <2>1, Flying
    <3>2. down = <<>> /\ state = "WAITING_FOR_ROUTE_COMMAND" /\ q = <<controls>>
      BY <1>2, <1>3, <2>1, <3>1, StillToHear
    <3>3. r = <<>> /\ down' = <<RouteAllowed, Payload("ROUTE_CONTAINER", v)>>
      BY <2>0, <2>1, <3>2 DEF B!BoardAnswers
    <3>4. InFlightWith(r)'
      BY <1>1, <1>3, <3>2, <3>3 DEF B!Stage, InFlightWith, At, Between
    <3> QED BY <1>1, <2>1, <3>1, <3>4 DEF Phase
  <2> QED BY <1>2, <1>3, <2>0, <2>1, BoardAnswering DEF B!Stage
<1>4. CASE stage = "CONTROLS_ACK" /\ B!SendAgain("CONTROL_SETTINGS")
  BY <1>1, <1>4, SendAgainKeepsPhase
<1>5. CASE /\ stage = "ROUTE_ACK" /\ B!BoardReceives(route) /\ B!BoardAnswers(<<>>)
           /\ B!Stage(board, "FINAL_COMMAND")
  <2>1. ASSUME NEW q, NEW r, boardNews = <<>>, boardNews' = <<>>, Phase(q), q # <<>>,
               Head(q) = route, r = Tail(q)
        PROVE  Phase(r)'
    <3>1. action = "FLIGHT_LOOP" /\ InFlightWith(q)
      BY <1>1, <2>1, Flying
    <3>2. down = <<>> /\ state \in {"FLING", "BREAKING"} /\ q = <<route, Ready>>
      BY <1>2, <1>5, <2>1, <3>1, StillToHear
    <3>3. r = <<Ready>> /\ down' = <<>>
      BY <1>5, <2>1, <3>2 DEF B!BoardAnswers
    <3>4. InFlightWith(r)'
      BY <1>1, <1>5, <3>2, <3>3 DEF B!Stage, InFlightWith, Between
    <3> QED BY <1>1, <2>1, <3>1, <3>4 DEF Phase
  <2> QED BY <1>2, <1>5, <2>1, BoardAnswering DEF B!Stage
<1>6. CASE stage = "ROUTE_ACK" /\ B!SendAgain("ROUTE_CONTAINER")
  BY <1>1, <1>6, SendAgainKeepsPhase
<1>7. CASE /\ stage = "FINAL_COMMAND" /\ B!BoardReceives(Ready) /\ B!BoardAnswers(<<>>)
           /\ B!Stage(board, "RUNNING")
  <2>1. ASSUME NEW q, NEW r, boardNews = <<>>, boardNews' = <<>>, Phase(q), q # <<>>,
               Head(q) = Ready, r = Tail(q)
        PROVE  Phase(r)'
    <3>1. action = "FLIGHT_LOOP" /\ InFlightWith(q)
      BY <1>1, <2>1, Flying
    <3>2. down = <<>> /\ state \in {"FLING", "BREAKING"} /\ q = <<Ready>>
      BY <1>2, <1>7, <2>1, <3>1, StillToHear
    <3>3. r = <<>> /\ down' = <<>>
      BY <1>7, <2>1, <3>2 DEF B!BoardAnswers
    <3>4. InFlightWith(r)'
      BY <1>1, <1>7, <3>2, <3>3 DEF B!Stage, InFlightWith, Between
    <3> QED BY <1>1, <2>1, <3>1, <3>4 DEF Phase
  <2> QED BY <1>2, <1>7, <2>1, BoardAnswering DEF B!Stage
<1>8. CASE /\ stage = "RUNNING" /\ B!BoardReceives(Frame("STOP")) /\ B!BoardAnswers(<<FlightEnds>>)
           /\ B!Stage("APP_LOOP", "NONE")
  <2>1. Frame("STOP") \in Noise
    BY DEF Noise
  <2>2. boardNews' = boardNews
    BY <1>8 DEF B!BoardAnswers, B!channel
  <2>3. ASSUME NEW q, NEW r, boardNews = <<>>, Phase(q), Hears(Frame("STOP"), q, r)
        PROVE  Phase(r)'
    <3>1. action = "FLIGHT_LOOP" /\ InFlightWith(q)
      BY <1>1, <2>3, Flying
    <3>2. state \in {"FLING", "BREAKING"} /\ Between(q, <<>>, <<>>)
      BY <1>1, <1>8, <3>1 DEF InFlightWith, At
    <3>3. r = <<>> /\ down' = <<FlightEnds>>
      BY <1>8, <2>1, <2>3, <3>2 DEF B!BoardAnswers, Hears, Between
    <3>4. InFlightWith(r)'
      BY <1>1, <1>8, <3>2, <3>3 DEF B!Stage, InFlightWith, Between
    <3> QED BY <1>1, <2>2, <2>3, <3>1, <3>4 DEF Phase
  <2> QED BY <1>1, <1>8, <2>3, HeardKeepsPhase DEF B!Stage
<1> QED BY <1>3, <1>4, <1>5, <1>6, <1>7, <1>8, BoardsNames, CutOrValid
        DEF B!HandleEventFlightLoop, B!Acknowledged, B!Sends, Ready, RouteAllowed, FlightEnds

(* A procedure begins: the request was the last the board had to hear.     *)
LEMMA RequestIsHeard ==
  ASSUME LinkInv, UNCHANGED app, board = "APP_LOOP", NEW p \in Procedures, NEW s,
         NEW ms \in Seq(Messages), B!Begin(p, s), B!BoardAnswers(<<Signal(p, "ACK")>> \o ms),
         NEW q \in Seq(Messages), NEW r \in Seq(Messages), boardNews = <<>>, Phase(q),
         Hears(Signal(p, "START"), q, r)
  PROVE  /\ action = p /\ UNCHANGED <<action, state, tasks, boardNews>> /\ state = "INITIAL_COMMAND"
         /\ r = <<>> /\ down' = <<Signal(p, "ACK")>> \o ms /\ board' = p /\ stage' = s /\ fails' = 0
         /\ p \in Uploads /\ tasks.strays["ping"] = 0 => up' = <<>>
<1> DEFINE m == Signal(p, "START")
<1>1. /\ up # <<>> /\ up' = Tail(up) /\ up \in Seq(Messages) /\ boardNews' = boardNews
      /\ down' = down \o (<<Signal(p, "ACK")>> \o ms) /\ board' = p /\ stage' = s /\ fails' = 0
      /\ UNCHANGED <<action, state, tasks>>
  BY BoardsNames DEF B!Begin, B!BoardReceives, B!BoardHears, B!BoardAnswers, B!channel, B!Stage, LinkInv, app
<1>2. m \in Messages \ Noise /\ m # Break /\ \A c, v : m # Payload(c, v)
  <2>1. m # Break /\ \A c, v : m # Payload(c, v)
    BY MessagesDiffer DEF Break
  <2> QED BY <2>1, Significant, NamesAreKnown
<1>3. q # <<>> /\ Head(q) = m /\ r = Tail(q) /\ Reads(up', r)
  BY <1>2 DEF Hears
<1>4. PICK rest : Wants(rest) /\ Settles(q, rest)
  BY <1>2, <1>3, Looping DEF Between
<1>5. q = rest /\ down = <<>>
  BY <1>4 DEF Settles
<1>6. /\ action \in Procedures /\ state = "INITIAL_COMMAND" /\ q = <<Signal(action, "START")>>
      /\ action \in Uploads /\ tasks.strays["ping"] = 0 => up[Len(up)] = Signal(action, "START")
  BY <1>2, <1>3, <1>4, <1>5 DEF Wants
<1>7. action = p /\ r = <<>>
  BY <1>3, <1>6, MessagesDiffer
<1>8. down' = <<Signal(p, "ACK")>> \o ms
  <2>1. <<Signal(p, "ACK")>> \o ms \in Seq(Messages)
    BY Significant, NamesAreKnown
  <2> QED BY <1>1, <1>5, <2>1, ConcatEmptySeq
<1>9. ASSUME p \in Uploads, tasks.strays["ping"] = 0 PROVE up' = <<>>
  <2>1. \A k \in DOMAIN up' : up'[k] \in Noise
    BY <1>3, <1>7 DEF Reads
  <2>2. up' # <<>> => up'[Len(up')] = m /\ Len(up') \in DOMAIN up'
    BY <1>1, <1>6, <1>7, <1>9
  <2> QED BY <1>2, <2>1, <2>2
<1> QED BY <1>1, <1>6, <1>7, <1>8, <1>9

LEMMA BoardLoopKeepsPhase ==
  ASSUME LinkInv, PhaseInv, UNCHANGED app, B!HandleEventAppLoop
  PROVE  PhaseInv'
<1>1. board = "APP_LOOP"
  BY DEF B!HandleEventAppLoop
<1> DEFINE ms(p, v) == CASE p = "FLIGHT_LOOP"       -> <<Payload("CONTROL_SETTINGS", v)>>
                         [] p = "CALIBRATE_ACCEL"   -> <<Signal("CALIBRATE_ACCEL", "DONE"),
                                                         Payload("CALIBRATION_SETTINGS", v)>>
                         [] p = "DOWNLOAD_SETTINGS" -> <<Payload("CONTROL_SETTINGS", v)>>
                         [] p = "DOWNLOAD_ROUTE"    -> <<Payload("ROUTE_CONTAINER", v)>>
                         [] OTHER                   -> <<>>
           s(p)  == CASE p = "FLIGHT_LOOP"      -> "CONTROLS_ACK"
                      [] p = "CALIBRATE_MAGNET" -> "USER_COMMAND"
                      [] OTHER                  -> "NONE"
<1>2. \A v : /\ ms("FLIGHT_LOOP", v) = <<Payload("CONTROL_SETTINGS", v)>>
             /\ ms("CALIBRATE_ACCEL", v)
                  = <<Signal("CALIBRATE_ACCEL", "DONE"), Payload("CALIBRATION_SETTINGS", v)>>
             /\ ms("CALIBRATE_MAGNET", v) = <<>>
             /\ ms("DOWNLOAD_SETTINGS", v) = <<Payload("CONTROL_SETTINGS", v)>>
             /\ ms("DOWNLOAD_ROUTE", v) = <<Payload("ROUTE_CONTAINER", v)>>
             /\ ms("UPLOAD_SETTINGS", v) = <<>> /\ ms("UPLOAD_ROUTE", v) = <<>>
  OBVIOUS
<1>3. /\ s("FLIGHT_LOOP") = "CONTROLS_ACK" /\ s("CALIBRATE_MAGNET") = "USER_COMMAND"
      /\ \A p : p \notin {"FLIGHT_LOOP", "CALIBRATE_MAGNET"} => s(p) = "NONE"
  OBVIOUS
<1> HIDE DEF ms, s
<1>4. \A p \in Procedures, v \in Arrivals : ms(p, v) \in Seq(Messages)
  <2> TAKE p \in Procedures, v \in Arrivals
  <2>1. /\ Payload("CONTROL_SETTINGS", v) \in Messages /\ Payload("ROUTE_CONTAINER", v) \in Messages
        /\ Payload("CALIBRATION_SETTINGS", v) \in Messages /\ Signal("CALIBRATE_ACCEL", "DONE") \in Messages
    BY Significant, NamesAreKnown
  <2>2. /\ <<>> \in Seq(Messages) /\ <<Payload("CONTROL_SETTINGS", v)>> \in Seq(Messages)
        /\ <<Payload("ROUTE_CONTAINER", v)>> \in Seq(Messages)
        /\ <<Signal("CALIBRATE_ACCEL", "DONE"), Payload("CALIBRATION_SETTINGS", v)>> \in Seq(Messages)
    BY <2>1
  <2> QED BY <1>2, <2>2, Zenon DEF Procedures
<1>5. ASSUME NEW p \in Procedures, NEW v \in Arrivals, B!Begin(p, s(p)),
             B!BoardAnswers(<<Signal(p, "ACK")>> \o ms(p, v))
      PROVE  PhaseInv'
  <2> DEFINE m == Signal(p, "START")
  <2>1. m \in Messages \ Noise /\ m # Break
    <3>1. m # Break
      BY MessagesDiffer DEF Break
    <3> QED BY <3>1, Significant, NamesAreKnown
  <2>2. B!BoardReceives(m) /\ closing' = closing
    BY <1>5, BoardsNames DEF B!Begin, B!Stage
  <2>3. ASSUME NEW q \in Seq(Messages), NEW r \in Seq(Messages), boardNews = <<>>, Phase(q), Hears(m, q, r)
        PROVE  Phase(r)'
    <3> DEFINE a == Signal(p, "ACK")
    <3>1. /\ action = p /\ UNCHANGED <<action, state, tasks, boardNews>> /\ state = "INITIAL_COMMAND"
          /\ r = <<>> /\ down' = <<a>> \o ms(p, v) /\ board' = p /\ stage' = s(p) /\ fails' = 0
          /\ p \in Uploads /\ tasks.strays["ping"] = 0 => up' = <<>>
      <4>1. ms(p, v) \in Seq(Messages)
        BY <1>4
      <4>2. PICK x \in Seq(Messages) : x = ms(p, v)
        BY <4>1
      <4> QED BY <1>1, <1>5, <2>3, <4>2, RequestIsHeard
    <3>2. a \in Messages
      BY Significant, NamesAreKnown
    <3>3. /\ <<a>> \o <<>> = <<a>>
          /\ \A x, y \in Messages : <<a>> \o <<x>> = <<a, x>> /\ <<a>> \o <<x, y>> = <<a, x, y>>
      BY <3>2, ShortQueues
    <3>4. /\ Payload("CONTROL_SETTINGS", v) \in Messages /\ Payload("ROUTE_CONTAINER", v) \in Messages
          /\ Payload("CALIBRATION_SETTINGS", v) \in Messages /\ Signal("CALIBRATE_ACCEL", "DONE") \in Messages
      BY Significant, NamesAreKnown
    <3>5. CASE p = "FLIGHT_LOOP"
      <4>1. down' = <<FlightAck, Payload("CONTROL_SETTINGS", v)>>
        BY <1>2, <3>1, <3>3, <3>4, <3>5 DEF FlightAck
      <4>2. InFlightWith(r)'
        BY <1>3, <3>1, <3>5, <4>1 DEF InFlightWith, At, Between
      <4> QED BY <2>3, <3>1, <3>5, <4>2 DEF Phase
    <3>6. CASE p = "CALIBRATE_ACCEL"
      <4>1. down' = <<a, Signal("CALIBRATE_ACCEL", "DONE"), Payload("CALIBRATION_SETTINGS", v)>>
        BY <1>2, <3>1, <3>3, <3>4, <3>6
      <4>2. CalibratesAccel(r)'
        BY <3>1, <3>6, <4>1 DEF CalibratesAccel, Between
      <4> QED BY <2>3, <3>1, <3>6, <4>2 DEF Phase
    <3>7. CASE p = "CALIBRATE_MAGNET"
      <4>1. down' = <<a>>
        BY <1>2, <3>1, <3>3, <3>7
      <4>2. CalibratesMagnet(r)'
        BY <1>3, <3>1, <3>7, <4>1 DEF CalibratesMagnet, At, Between
      <4> QED BY <2>3, <3>1, <3>7, <4>2 DEF Phase
    <3>8. CASE p \in {"DOWNLOAD_SETTINGS", "DOWNLOAD_ROUTE"}
      <4>1. down' = <<a, Payload(DataCommand[p], v)>>
        <5>1. CASE p = "DOWNLOAD_SETTINGS"
          <6>1. down' = <<a>> \o <<Payload("CONTROL_SETTINGS", v)>>
            BY <1>2, <3>1, <5>1
          <6>2. down' = <<a, Payload("CONTROL_SETTINGS", v)>>
            BY <3>3, <3>4, <6>1
          <6>3. DataCommand[p] = "CONTROL_SETTINGS"
            BY <5>1, DataCommands
          <6> QED BY <6>2, <6>3
        <5>2. CASE p = "DOWNLOAD_ROUTE"
          <6>1. down' = <<a>> \o <<Payload("ROUTE_CONTAINER", v)>>
            BY <1>2, <3>1, <5>2
          <6>2. down' = <<a, Payload("ROUTE_CONTAINER", v)>>
            BY <3>3, <3>4, <6>1
          <6>3. DataCommand[p] = "ROUTE_CONTAINER"
            BY <5>2, DataCommands
          <6> QED BY <6>2, <6>3
        <5> QED BY <3>8, <5>1, <5>2
      <4>2. Downloads(r, DataCommand[p])'
        BY <3>1, <3>8, <4>1 DEF Downloads, Between
      <4> QED BY <2>3, <3>1, <3>8, <4>2, DataCommands DEF Phase
    <3>9. CASE p \in {"UPLOAD_SETTINGS", "UPLOAD_ROUTE"}
      <4>1. down' = <<a>>
        BY <1>2, <3>1, <3>3, <3>9
      <4>2. fails' \in 0 .. 3 /\ (tasks'.strays["ping"] = 0 => up' = r)
        BY <3>1, <3>9 DEF Uploads
      <4>3. UploadsRecord(r, DataCommand[p])'
        BY <3>1, <4>1, <4>2 DEF UploadsRecord, Between
      <4> QED BY <2>3, <3>1, <3>9, <4>3, DataCommands DEF Phase
    <3> QED BY <3>5, <3>6, <3>7, <3>8, <3>9 DEF Procedures
  <2> HIDE DEF m
  <2> QED BY <1>1, <1>5, <2>1, <2>2, <2>3, HeardKeepsPhase
<1>6. CASE closing'
  BY <1>6 DEF PhaseInv
<1>7. {"FLIGHT_LOOP", "CALIBRATE_ACCEL", "CALIBRATE_MAGNET", "UPLOAD_SETTINGS",
       "DOWNLOAD_SETTINGS", "UPLOAD_ROUTE", "DOWNLOAD_ROUTE"} \subseteq Procedures
  BY DEF Procedures
<1>8. CASE \/ B!Begin("FLIGHT_LOOP", "CONTROLS_ACK")
              /\ B!Sends(B!Ack("FLIGHT_LOOP"), "CONTROL_SETTINGS", B!Ticking)
           \/ B!Begin("DOWNLOAD_SETTINGS", "NONE")
              /\ B!Sends(B!Ack("DOWNLOAD_SETTINGS"), "CONTROL_SETTINGS", B!Ticking)
           \/ B!Begin("DOWNLOAD_ROUTE", "NONE")
              /\ B!Sends(B!Ack("DOWNLOAD_ROUTE"), "ROUTE_CONTAINER", B!Ticking)
  BY <1>2, <1>3, <1>5, <1>7, <1>8, BoardsNames, CutOrValid DEF B!Sends
<1>9. CASE B!Begin("CALIBRATE_ACCEL", "NONE")
           /\ B!Sends(B!Ack("CALIBRATE_ACCEL") \o <<B!Signal("CALIBRATE_ACCEL", "DONE")>>,
                      "CALIBRATION_SETTINGS", runaway > 0)
  <2> DEFINE a == Signal("CALIBRATE_ACCEL", "ACK")
             d == Signal("CALIBRATE_ACCEL", "DONE")
  <2>1. PICK v \in Arrivals : B!BoardAnswers((<<a>> \o <<d>>) \o <<Payload("CALIBRATION_SETTINGS", v)>>)
    BY <1>9, BoardsNames, CutOrValid DEF B!Sends
  <2>2. a \in Messages /\ d \in Messages /\ Payload("CALIBRATION_SETTINGS", v) \in Messages
    BY Significant, NamesAreKnown
  <2> HIDE DEF a, d
  <2>3. (<<a>> \o <<d>>) \o <<Payload("CALIBRATION_SETTINGS", v)>>
          = <<a>> \o <<d, Payload("CALIBRATION_SETTINGS", v)>>
    BY <2>2, ShortQueues
  <2>4. B!BoardAnswers(<<a>> \o <<d, Payload("CALIBRATION_SETTINGS", v)>>)
    BY <2>1, <2>3
  <2> QED BY <1>2, <1>3, <1>5, <1>7, <1>9, <2>4 DEF a, d
<1>10. ASSUME NEW p \in {"CALIBRATE_MAGNET", "UPLOAD_SETTINGS", "UPLOAD_ROUTE"},
              B!Begin(p, s(p)), B!BoardAnswers(B!Ack(p))
       PROVE  PhaseInv'
  <2>1. Signal(p, "ACK") \in Messages /\ p \in Procedures
    BY <1>7, Significant, NamesAreKnown
  <2>2. B!Ack(p) = <<Signal(p, "ACK")>> \o <<>>
    BY <2>1, BoardsNames, ShortQueues
  <2>3. PICK v \in Arrivals : ms(p, v) = <<>>
    BY <1>2, CutOrValid
  <2> QED BY <1>5, <1>10, <2>1, <2>2, <2>3
<1> QED BY <1>3, <1>6, <1>8, <1>9, <1>10 DEF B!HandleEventAppLoop

(* An upload: the record is taken, refused, or given up; noise breaks it.  *)
LEMMA RecordIsHeard ==
  ASSUME LinkInv, UNCHANGED app, NEW c, NEW q \in Seq(Messages), NEW r \in Seq(Messages), NEW m,
         B!BoardReceives(m), up' = Tail(up), UploadsRecord(q, c), board = action, Hears(m, q, r), action \in Uploads
  PROVE  \/ m \in Noise /\ r = q /\ tasks.strays["ping"] # 0
         \/ /\ m \notin Noise /\ r = <<>> /\ down = <<>> /\ state = "UPLOADING_DATA" /\ fails \in 0 .. 3
            /\ \E v \in Arrivals : m = Payload(c, v)
            /\ tasks.strays["ping"] = 0 => up' = <<>>
<1>1. up # <<>> /\ m = Head(up) /\ up \in Seq(Messages)
  BY DEF B!BoardReceives, B!BoardHears, LinkInv
<1>2. tasks.strays["ping"] = 0 => up = q
  BY DEF UploadsRecord, Uploads
<1>3. CASE m \in Noise
  <2>1. up # q
    <3>1. Head(up) = up[1] /\ 1 \in DOMAIN up
      BY <1>1
    <3>2. \A i \in DOMAIN q : q[i] \notin Noise
      BY DEF Hears, Reads
    <3> QED BY <1>1, <1>3, <3>1, <3>2
  <2> QED BY <1>2, <1>3, <2>1 DEF Hears
<1>4. CASE m \notin Noise
  <2>1. q # <<>> /\ Head(q) = m /\ r = Tail(q)
    BY <1>4 DEF Hears
  <2>2. /\ down = <<>> /\ state = "UPLOADING_DATA" /\ \E v \in Arrivals : q = <<Payload(c, v)>>
        /\ fails \in 0 .. 3
    BY <2>1, StillToTransfer DEF Uploads
  <2>3. r = <<>> /\ \E v \in Arrivals : m = Payload(c, v)
    BY <2>1, <2>2
  <2> QED BY <1>2, <1>4, <2>1, <2>2, <2>3
<1> QED BY <1>3, <1>4

LEMMA UploadKeepsPhase ==
  ASSUME LinkInv, PhaseInv, UNCHANGED app, board \in Uploads, tasks.strays["ping"] \in Nat,
         NEW c, c = DataCommand[board],
         NEW m, B!BoardReceives(m),
         \/ B!BoardAnswers(<<>>) /\ B!ToAppLoop /\ \A v \in Arrivals : m # Payload(c, v)
         \/ \E v \in Contents : m = Payload(c, v) /\ B!Taken(c)
         \/ fails >= 3 /\ \E v \in Contents : m = Payload(c, v) /\ B!GivenUp(c)
         \/ fails # 3 /\ \E v \in Contents : m = Payload(c, v) /\ B!Refused(c)
  PROVE  PhaseInv'
<1>1. /\ UNCHANGED <<action, state, tasks, closing, boardNews>>
      /\ up' = Tail(up) /\ \E ms : B!BoardAnswers(ms)
  BY DEF app, B!ToAppLoop, B!Stage, B!Taken, B!GivenUp, B!Refused, B!BoardAnswers, B!channel
<1>2. PICK ms : B!BoardAnswers(ms)
  BY <1>1
<1>3. ASSUME NEW q \in Seq(Messages), NEW r \in Seq(Messages), boardNews = <<>>, Phase(q), Hears(m, q, r)
      PROVE  Phase(r)'
  <2>1. action = board /\ UploadsRecord(q, c)
    BY <1>3, Uploading, DataCommands DEF Uploads
  <2>2. \/ m \in Noise /\ r = q /\ tasks.strays["ping"] # 0
        \/ /\ m \notin Noise /\ r = <<>> /\ down = <<>> /\ state = "UPLOADING_DATA" /\ fails \in 0 .. 3
           /\ \E v \in Arrivals : m = Payload(c, v)
           /\ tasks.strays["ping"] = 0 => up' = <<>>
    BY <1>1, <1>3, <2>1, RecordIsHeard
  <2>3. UploadsRecord(r, c)'
    <3>6. \A p \in {"ACK", "TIMEOUT", "DATA_INVALID"} : <<>> \o <<Signal(c, p)>> = <<Signal(c, p)>>
      <4>1. \A p \in {"ACK", "TIMEOUT", "DATA_INVALID"} : Signal(c, p) \in Messages
        BY DataCommands, Significant, NamesAreKnown DEF Uploads
      <4> QED BY <4>1, ShortQueues
    <3>1. CASE B!BoardAnswers(<<>>) /\ B!ToAppLoop /\ m \in Noise
      <4>1. /\ board' = "APP_LOOP" /\ down' = down /\ r = q /\ tasks.strays["ping"] # 0
        BY <2>2, <3>1, NoiseIsKnown, ConcatEmptySeq DEF B!BoardAnswers, B!ToAppLoop, B!Stage, LinkInv
      <4>2. tasks'.strays["ping"] > 0
        BY <1>1, <4>1
      <4> QED BY <1>1, <2>1, <4>1, <4>2 DEF UploadsRecord, Between
    <3>2. CASE m \notin Noise /\ B!Taken(c)
      <4>1. B!BoardAnswers(<<Signal(c, "ACK")>>) /\ B!ToAppLoop
        BY <3>2, BoardsNames DEF B!Taken
      <4>2. board' = "APP_LOOP" /\ down' = <<Signal(c, "ACK")>>
        BY <2>2, <3>2, <3>6, <4>1 DEF B!BoardAnswers, B!ToAppLoop, B!Stage
      <4> QED BY <1>1, <2>2, <3>2, <4>2 DEF UploadsRecord, Between
    <3>3. CASE m \notin Noise /\ fails >= 3 /\ B!GivenUp(c)
      <4>1. B!BoardAnswers(<<Signal(c, "TIMEOUT")>>) /\ B!ToAppLoop
        BY <3>3, BoardsNames DEF B!GivenUp
      <4>2. board' = "APP_LOOP" /\ down' = <<Signal(c, "TIMEOUT")>> /\ fails' = fails
        BY <2>2, <3>3, <3>6, <4>1 DEF B!BoardAnswers, B!ToAppLoop, B!Stage
      <4>3. fails = 3
        BY <2>2, <3>3
      <4> QED BY <1>1, <2>2, <3>3, <4>2, <4>3 DEF UploadsRecord, Between
    <3>4. CASE m \notin Noise /\ fails # 3 /\ B!Refused(c)
      <4>1. B!BoardAnswers(<<Signal(c, "DATA_INVALID")>>) /\ board' = board /\ fails' = fails + 1
        BY <3>4, BoardsNames DEF B!Refused
      <4>2. board' = board /\ down' = <<Signal(c, "DATA_INVALID")>> 
        BY <2>2, <3>4, <3>6, <4>1 DEF B!BoardAnswers
      <4>3. fails' \in 0 .. 3
        BY <2>2, <3>4, <4>1
      <4> QED BY <1>1, <2>1, <2>2, <3>4, <4>2, <4>3 DEF UploadsRecord, Between
    <3>5. (\E v \in Contents : m = Payload(c, v)) => m \notin Noise
      BY NoiseIsKnown
    <3> QED BY <2>2, <3>1, <3>2, <3>3, <3>4, <3>5
  <2>4. action \in {"UPLOAD_SETTINGS", "UPLOAD_ROUTE"}
    BY <2>1 DEF Uploads
  <2> QED BY <1>1, <1>3, <2>1, <2>3, <2>4, DataCommands DEF Phase
<1>4. board # "CONNECTING_APP_LOOP"
  BY DEF Uploads
<1> QED BY <1>1, <1>2, <1>3, <1>4, HeardKeepsPhase

LEMMA BoardUploadsKeepPhase ==
  ASSUME LinkInv, PhaseInv, UNCHANGED app, tasks.strays["ping"] \in Nat,
         B!HandleEventUploadControlSettings \/ B!HandleEventUploadRouteContainer
  PROVE  PhaseInv'
<1>1. CASE B!HandleEventUploadControlSettings
  <2> DEFINE c == "CONTROL_SETTINGS"
  <2>1. board = "UPLOAD_SETTINGS" /\ board \in Uploads /\ c = DataCommand[board]
    BY <1>1, DataCommands DEF B!HandleEventUploadControlSettings, Uploads
  <2>2. CASE B!Broken(c)
    <3>1. PICK m : m = Head(up)
      OBVIOUS
    <3>2. \A v \in Arrivals : m # Payload(c, v)
      <4>1. \A v \in Contents : m # Payload(c, v)
        BY <2>2, <3>1, BoardsNames DEF B!Broken
      <4>2. m # Payload(c, "cut")
        BY <2>2, <3>1 DEF B!Broken, Payload
      <4> QED BY <4>1, <4>2 DEF Arrivals
    <3> QED BY <2>1, <2>2, <3>1, <3>2, UploadKeepsPhase DEF B!Broken
  <2>3. ASSUME NEW v \in Contents, B!BoardReceives(Payload(c, v)),
               \/ fails = 3 /\ B!GivenUp(c)
               \/ fails # 3 /\ B!Taken(c)
               \/ fails # 3 /\ B!Refused(c)
        PROVE  PhaseInv'
    <3>1. fails = 3 => fails >= 3
      OBVIOUS
    <3> QED BY <2>1, <2>3, <3>1, UploadKeepsPhase
  <2> QED BY <1>1, <2>2, <2>3, BoardsNames DEF B!HandleEventUploadControlSettings
<1>2. CASE B!HandleEventUploadRouteContainer
  <2> DEFINE c == "ROUTE_CONTAINER"
  <2>1. board = "UPLOAD_ROUTE" /\ board \in Uploads /\ c = DataCommand[board]
    BY <1>2, DataCommands DEF B!HandleEventUploadRouteContainer, Uploads
  <2>2. CASE B!Broken(c)
    <3>1. PICK m : m = Head(up)
      OBVIOUS
    <3>2. \A v \in Arrivals : m # Payload(c, v)
      <4>1. \A v \in Contents : m # Payload(c, v)
        BY <2>2, <3>1, BoardsNames DEF B!Broken
      <4>2. m # Payload(c, "cut")
        BY <2>2, <3>1 DEF B!Broken, Payload
      <4> QED BY <4>1, <4>2 DEF Arrivals
    <3> QED BY <2>1, <2>2, <3>1, <3>2, UploadKeepsPhase DEF B!Broken
  <2>3. ASSUME NEW v \in Contents, B!BoardReceives(Payload(c, v)),
               \/ B!Taken(c)
               \/ fails >= 3 /\ B!GivenUp(c)
               \/ fails < 3 /\ B!Refused(c)
        PROVE  PhaseInv'
    <3>1. fails < 3 => fails # 3
      OBVIOUS
    <3> QED BY <2>1, <2>3, <3>1, UploadKeepsPhase
  <2>4. {"valid", "invalid"} \subseteq Contents
    BY DEF Contents
  <2> QED BY <1>2, <2>2, <2>3, <2>4, BoardsNames DEF B!HandleEventUploadRouteContainer
<1> QED BY <1>1, <1>2

(* Of what is said to it, the board drops a break that came too early, the *)
(* answer of a route's download, the record of an upload given up, and one *)
(* that is cut.                                                            *)
LEMMA NotAwaited ==
  ASSUME NEW m, ~B!Awaits(m)
  PROVE  /\ board \in {"UPLOAD_SETTINGS", "UPLOAD_ROUTE"} => m.parameter = "cut"
         /\ \A p \in {"ACK", "DATA_INVALID"} :
              /\ stage = "CALIBRATION_ACK" \/ board = "CALIBRATE_ACCEL" => m # Signal("CALIBRATION_SETTINGS", p)
              /\ stage = "CONTROLS_ACK" \/ board = "DOWNLOAD_SETTINGS" => m # Signal("CONTROL_SETTINGS", p)
              /\ stage = "ROUTE_ACK" => m # Signal("ROUTE_CONTAINER", p)
         /\ board = "CONNECTING_APP_LOOP" /\ stage = "INITIAL_COMMAND" => m # Signal("START_CMD", "START")
         /\ board = "CONNECTING_APP_LOOP" /\ stage = "FINAL_COMMAND" => m # Signal("APP_LOOP", "START")
         /\ board = "APP_LOOP" => m # Break /\ \A p \in Procedures : m # Signal(p, "START")
         /\ board = "FLIGHT_LOOP" /\ stage = "FINAL_COMMAND" => m # Ready
         /\ stage = "USER_COMMAND" =>
              m # Signal("CALIBRATE_MAGNET", "SKIP") /\ m # Signal("CALIBRATE_MAGNET", "DONE")
  BY BoardsNames DEF B!Awaits, B!Sending, Break, Ready

LEMMA SignificantIsDropped ==
  ASSUME NEW q \in Seq(Messages), NEW r, q # <<>>, ~B!Awaits(Head(q)), r = Tail(q),
         boardNews = <<>>, Phase(q), UNCHANGED <<app, boardSide, boardNews, down>>,
         LinkInv, up # <<>>, Head(q) = Head(up), up' = Tail(up), Reads(up', r),
         Head(up).parameter = "cut" => cut'
  PROVE  Phase(r)'
<1>1. UNCHANGED <<action, state, tasks, board, stage, fails, boardNews, down>>
  BY DEF app, boardSide
<1>2. PICK m : m = Head(q)
  OBVIOUS
<1>3. ~B!Awaits(m)
  BY <1>2
<1>4. ASSUME NEW rest, Settles(q, rest) PROVE board = "APP_LOOP" /\ q = rest
  BY <1>2, <1>3, <1>4, NotAwaited DEF Settles
<1>5. CASE board = "CONNECTING_APP_LOOP"
  <2>1. ~Connects(q)
    BY <1>2, <1>3, <1>5, StillToHear, NotAwaited
  <2>2. stage = "INITIAL_COMMAND" /\ down = <<>> /\ (Lost(q) \/ Greets(q))
    BY <1>5, <2>1, Connecting
  <2>3. ~Greets(q)
    BY <1>2, <1>3, <1>5, <2>2, NotAwaited DEF Greets
  <2>4. action = "DISCONNECT" /\ state = "WAITING" /\ r = <<>>
    BY <2>2, <2>3 DEF Lost
  <2> QED BY <1>1, <1>5, <2>2, <2>4 DEF Phase, Fresh, Lost
<1>6. CASE board = "FLIGHT_LOOP"
  <2>1. InFlightWith(q)
    BY <1>6, Flying
  <2> QED BY <1>2, <1>3, <1>6, <2>1, StillToHear, NotAwaited
<1>7. CASE board = "CALIBRATE_ACCEL"
  <2>1. CalibratesAccel(q)
    BY <1>4, <1>7, Accelerometer
  <2> QED BY <1>2, <1>3, <1>7, <2>1, StillToHear, NotAwaited
<1>8. CASE board = "CALIBRATE_MAGNET"
  <2>1. CalibratesMagnet(q)
    BY <1>4, <1>8, Magnetometer
  <2> QED BY <1>2, <1>3, <1>8, <2>1, StillToHear, NotAwaited
<1>9. CASE board = "DOWNLOAD_SETTINGS"
  <2>1. action = "DOWNLOAD_SETTINGS" /\ Downloads(q, "CONTROL_SETTINGS")
    BY <1>4, <1>9, Downloading
  <2> QED BY <1>2, <1>3, <1>9, <2>1, StillToTransfer, NotAwaited
<1>10. CASE board = "DOWNLOAD_ROUTE"
  <2>1. action = "DOWNLOAD_ROUTE" /\ Downloads(q, "ROUTE_CONTAINER")
    BY <1>10, Downloading
  <2>2. down = <<>> /\ state = "DOWNLOADING_DATA" /\ r = <<>>
    BY <2>1, StillToTransfer
  <2>3. Downloads(r, "ROUTE_CONTAINER")'
    BY <1>1, <1>10, <2>1, <2>2 DEF Downloads
  <2> QED BY <1>1, <2>1, <2>3 DEF Phase
<1>11. CASE board = "APP_LOOP"
  <2>1. ASSUME NEW rest, Wants(rest), Settles(q, rest) PROVE FALSE
    BY <1>2, <1>3, <1>4, <1>11, <2>1, NotAwaited DEF Wants
  <2>2. /\ action \in Uploads /\ state = "UPLOADING_DATA" /\ (fails = 3 \/ tasks.strays["ping"] > 0)
        /\ \E v \in Arrivals : Between(q, <<Payload(DataCommand[action], v)>>, <<>>)
    BY <1>11, <2>1, Looping
  <2>3. r = <<>> /\ down = <<>>
    BY <2>2 DEF Between
  <2>4. UploadsRecord(r, DataCommand[action])'
    BY <1>1, <1>11, <2>2, <2>3 DEF UploadsRecord
  <2>5. action \in {"UPLOAD_SETTINGS", "UPLOAD_ROUTE"}
    BY <2>2 DEF Uploads
  <2> QED BY <1>1, <2>4, <2>5, DataCommands DEF Phase
<1>12. board \in {"CONNECTING_APP_LOOP", "APP_LOOP"} \cup Procedures
  BY DEF Phase, Fresh, Connects, Settles, Asks, InFlightWith, At, CalibratesAccel, CalibratesMagnet,
         Downloads, UploadsRecord, Procedures
<1>13. CASE board \in {"UPLOAD_SETTINGS", "UPLOAD_ROUTE"}
  <2>1. action = board /\ UploadsRecord(q, DataCommand[action]) /\ action \in Uploads
    BY <1>13, Uploading, DataCommands DEF Uploads
  <2>2. cut'
    BY <1>2, <1>3, <1>13, NotAwaited
  <2>3. /\ down = <<>> /\ state = "UPLOADING_DATA" /\ fails \in 0 .. 3 /\ r = <<>>
        /\ tasks.strays["ping"] = 0 => up = q
    BY <1>13, <2>1, StillToTransfer
  <2>4. tasks.strays["ping"] = 0 => up' = r
    BY <2>3
  <2>5. UploadsRecord(r, DataCommand[action])'
    BY <1>1, <2>1, <2>2, <2>3, <2>4 DEF UploadsRecord, Between
  <2> QED BY <1>1, <1>13, <2>1, <2>5, DataCommands DEF Phase
<1> QED BY <1>5, <1>6, <1>7, <1>8, <1>9, <1>10, <1>11, <1>12, <1>13 DEF Procedures

LEMMA BoardDropsKeepsPhase ==
  ASSUME LinkInv, PhaseInv, UNCHANGED app, B!BoardDrops
  PROVE  PhaseInv'
<1>1. PICK m : m = Head(up)
  OBVIOUS
<1>2. /\ B!BoardReceives(m) /\ B!BoardAnswers(<<>>) /\ ~B!Awaits(m) /\ up # <<>> /\ up \in Seq(Messages)
      /\ UNCHANGED boardSide
  BY <1>1 DEF B!BoardDrops, B!boardVars, B!timers, boardSide, LinkInv
<1>3. /\ UNCHANGED <<action, state, tasks, board, stage, fails, closing, boardNews, down>> /\ up' = Tail(up)
      /\ cut' = (cut \/ m.parameter = "cut")
  BY <1>1, <1>2, ConcatEmptySeq DEF app, boardSide, B!BoardAnswers, B!channel, LinkInv
<1>4. ASSUME NEW q \in Seq(Messages), NEW r \in Seq(Messages), boardNews = <<>>, Phase(q), Hears(m, q, r)
      PROVE  Phase(r)'
  <2>1. CASE m \in Noise
    <3>1. r = q
      BY <1>4, <2>1 DEF Hears
    <3>2. ASSUME action \in Uploads, up[Len(up)] = Signal(action, "START")
          PROVE  up' # <<>> /\ up'[Len(up')] = Signal(action, "START")
      <4>1. Signal(action, "START") \notin Noise
        BY <3>2, Significant, NamesAreKnown DEF Uploads, Procedures
      <4>2. Head(up) = up[1]
        BY <1>2
      <4>3. Len(up) # 1
        BY <1>1, <2>1, <3>2, <4>1, <4>2
      <4>4. Len(up) \in Nat /\ Len(up) > 1
        <5>1. Len(up) # 0 /\ Len(up) \in Nat
          BY <1>2, EmptySeq, LenProperties
        <5>2. \A n \in Nat : n # 0 /\ n # 1 => n > 1
          OBVIOUS
        <5>3. PICK n \in Nat : n = Len(up)
          BY <5>1
        <5> QED BY <4>3, <5>1, <5>2, <5>3
      <4>5. /\ Len(up') = Len(up) - 1 /\ up' \in Seq(Messages)
            /\ \A i \in 1 .. Len(up') : up'[i] = up[i + 1]
        BY <1>2, <1>3, HeadTailProperties
      <4>6. Len(up') \in 1 .. Len(up') /\ Len(up') + 1 = Len(up) /\ Len(up') # 0
        BY <4>4, <4>5
      <4>7. up'[Len(up')] = up[Len(up)]
        BY <4>5, <4>6
      <4> QED BY <3>2, <4>5, <4>6, <4>7, EmptySeq
    <3>3. board # action \/ action \notin Uploads
      <4>1. m.parameter # "cut"
        BY <2>1, NoiseIsKnown DEF Arrivals
      <4> QED BY <1>2, <4>1, NotAwaited DEF Uploads
    <3>4. tasks'.strays["ping"] = tasks.strays["ping"]
      BY <1>3
    <3> QED BY <1>3, <1>4, <3>1, <3>2, <3>3, <3>4, SamePhase
  <2>2. CASE m \notin Noise
    <3>1. q # <<>> /\ Head(q) = m /\ r = Tail(q)
      BY <1>4, <2>2 DEF Hears
    <3> QED BY <1>1, <1>2, <1>3, <1>4, <3>1, SignificantIsDropped DEF Hears
  <2> QED BY <2>1, <2>2
<1> QED BY <1>2, <1>3, <1>4, HeardKeepsPhase

LEMMA BoardCallbacksKeepPhase ==
  ASSUME LinkInv, PhaseInv, UNCHANGED app, B!OnConnected \/ B!OnDisconnected \/ B!OnError
  PROVE  PhaseInv'
<1>1. SUFFICES ASSUME status = "open" PROVE PhaseInv'
  <2>1. status' = status
    BY DEF B!OnConnected, B!OnDisconnected, B!OnError, B!Called
  <2> QED BY <2>1 DEF PhaseInv
<1>2. boardNews = <<"connected">> /\ B!OnConnected
  <2>1. boardNews # <<>>
    BY DEF B!OnConnected, B!OnDisconnected, B!OnError, B!Called
  <2>2. boardNews = <<"connected">>
    BY <1>1, <2>1 DEF LinkInv
  <2> QED BY <2>2 DEF B!OnDisconnected, B!OnError, B!Called
<1>3. /\ boardNews' = <<>> /\ UNCHANGED <<status, up, down, appNews, closing, action, state, tasks, astray>>
      /\ board' = "CONNECTING_APP_LOOP" /\ stage' = "INITIAL_COMMAND" /\ ~closing
  BY <1>2 DEF B!OnConnected, B!Called, B!Stage, app
<1>4. Fresh'
  BY <1>3 DEF Fresh
<1>5. ASSUME NEW q, Opening(q) PROVE Opening(q)'
  BY <1>3, <1>4, <1>5 DEF Opening, IsActionDone, Lost
<1>6. ASSUME NEW q, Phase(q) PROVE Phase(q)'
  <2>1. down = <<>> /\ (Lost(q) \/ Greets(q))
    BY <1>2, <1>6 DEF Phase
  <2> QED BY <1>3, <1>4, <2>1 DEF Phase, Lost, Greets
<1> QED BY <1>3, <1>5, <1>6 DEF PhaseInv

LEMMA BoardKeepsPhase ==
  ASSUME LinkInv, PhaseInv, TaskInv, UNCHANGED app, B!BoardNext
  PROVE  PhaseInv' /\ TaskInv'
<1>1. TaskInv'
  BY DEF app, TaskInv, Flies, TasksTyped
<1>2. CASE B!BoardCloses
  <2>1. status' = "closed"
    BY <1>2 DEF B!BoardCloses, B!Disconnect
  <2> QED BY <1>1, <2>1 DEF PhaseInv
<1>3. CASE B!HandleCommEvent
  <2>1. tasks.strays["ping"] \in Nat
    BY DEF TaskInv, TasksTyped, Tasks
  <2> QED BY <1>1, <1>3, <2>1, BoardConnectKeepsPhase, BoardLoopKeepsPhase, BoardFlightKeepsPhase,
             BoardDeliveriesKeepPhase, BoardCalibrationsKeepPhase, BoardUploadsKeepPhase, BoardDropsKeepsPhase
          DEF B!HandleCommEvent
<1> QED BY <1>1, <1>2, <1>3, BoardCallbacksKeepPhase DEF B!BoardNext
-----------------------------------------------------------------------------
(***************************************************************************)
(* A record arrives garbled.                                               *)
(***************************************************************************)
Unmarked(s) == \A e \in DOMAIN s : s[e].parameter \notin Contents

LEMMA ShortUnmarked ==
  ASSUME NEW a, NEW b, a.parameter \notin Contents, b.parameter \notin Contents
  PROVE  Unmarked(<<>>) /\ Unmarked(<<a>>) /\ Unmarked(<<a, b>>)
  BY DEF Unmarked

(* All that the application sends but a record.                            *)
LEMMA SignalsUnmarked ==
  ASSUME NEW c, NEW p, p \notin Contents
  PROVE  Signal(c, p).parameter \notin Contents
  BY DEF Signal

LEMMA OnlyRecordsAreMarked ==
  ASSUME NEW q, Phase(q), ~Unmarked(q)
  PROVE  /\ boardNews = <<>> /\ action \in Uploads /\ UploadsRecord(q, DataCommand[action])
         /\ q # <<>>
<1>1. q # <<>>
  BY ShortUnmarked DEF Unmarked
<1>2. ASSUME NEW rest, Wants(rest), Settles(q, rest) PROVE FALSE
  <2>1. /\ Break.parameter \notin Contents
        /\ \A c : Signal(c, "ACK").parameter \notin Contents /\ Signal(c, "START").parameter \notin Contents
    BY SignalsUnmarked DEF Break, Contents
  <2>2. rest = <<>> \/ rest = <<Break>> \/ rest = <<Signal(action, "START")>>
    BY <1>2 DEF Wants
  <2>3. q = rest \/ \E c \in {"CALIBRATION_SETTINGS", "CONTROL_SETTINGS"} : q = <<Signal(c, "ACK")>> \o rest
    BY <1>2 DEF Settles
  <2>4. /\ Break \in Messages /\ \A c \in {"CALIBRATION_SETTINGS", "CONTROL_SETTINGS"} : Signal(c, "ACK") \in Messages
        /\ rest = <<Signal(action, "START")>> => Signal(action, "START") \in Messages \/ rest = <<Break>>
    <3>1. rest = <<Signal(action, "START")>> => action \in Procedures \/ rest = <<Break>>
      BY <1>2 DEF Wants
    <3> QED BY <3>1, Significant, NamesAreKnown DEF Break
  <2>5. \/ q = <<>> \/ q = <<Break>> \/ q = <<Signal(action, "START")>>
        \/ \E c \in {"CALIBRATION_SETTINGS", "CONTROL_SETTINGS"} :
             q \in {<<Signal(c, "ACK")>>, <<Signal(c, "ACK"), Break>>, <<Signal(c, "ACK"), Signal(action, "START")>>}
    <3>1. CASE rest = <<>>
      BY <2>3, <2>4, <3>1, ShortQueues
    <3>2. CASE rest = <<Break>>
      BY <2>3, <2>4, <3>2, ShortQueues
    <3>3. CASE rest = <<Signal(action, "START")>> /\ Signal(action, "START") \in Messages
      BY <2>3, <2>4, <3>3, ShortQueues
    <3> QED BY <2>2, <2>4, <3>1, <3>2, <3>3
  <2>6. CASE q = <<>> \/ q = <<Break>> \/ q = <<Signal(action, "START")>>
    BY <2>1, <2>6, ShortUnmarked
  <2>7. ASSUME NEW c, q \in {<<Signal(c, "ACK")>>, <<Signal(c, "ACK"), Break>>,
                             <<Signal(c, "ACK"), Signal(action, "START")>>}
        PROVE  FALSE
    <3>1. Signal(c, "ACK").parameter \notin Contents
      BY <2>1
    <3>2. PICK d : d = action
      OBVIOUS
    <3>3. Signal(d, "START").parameter \notin Contents
      BY <2>1
    <3>4. Unmarked(<<Signal(c, "ACK")>>) /\ Unmarked(<<Signal(c, "ACK"), Break>>)
      BY <2>1, <3>1, ShortUnmarked
    <3>5. Unmarked(<<Signal(c, "ACK"), Signal(d, "START")>>)
      BY <3>1, <3>3, ShortUnmarked
    <3> QED BY <2>7, <3>2, <3>4, <3>5
  <2> QED BY <2>5, <2>6, <2>7
<1>3. ~Lost(q) /\ ~Greets(q)
  <2>1. Break.parameter \notin Contents /\ Signal("START_CMD", "START").parameter \notin Contents
    BY SignalsUnmarked DEF Break, Contents
  <2> QED BY <2>1, ShortUnmarked DEF Lost, Greets
<1>4. ~Connects(q) /\ ~InFlightWith(q) /\ ~CalibratesAccel(q) /\ ~CalibratesMagnet(q)
  <2>1. \A c : /\ Signal(c, "ACK").parameter \notin Contents /\ Signal(c, "DATA_INVALID").parameter \notin Contents
               /\ Signal(c, "START").parameter \notin Contents /\ Signal(c, "DONE").parameter \notin Contents
               /\ Signal(c, "SKIP").parameter \notin Contents /\ Ready.parameter \notin Contents
    BY SignalsUnmarked DEF Ready, Contents
  <2> QED BY <1>1, <2>1, StillToHear, ShortUnmarked
<1>5. \A c : ~Downloads(q, c)
  <2>1. \A c : Signal(c, "ACK").parameter \notin Contents /\ Signal(c, "DATA_INVALID").parameter \notin Contents
    BY SignalsUnmarked DEF Contents
  <2> SUFFICES ASSUME NEW c, Downloads(q, c) PROVE FALSE
    OBVIOUS
  <2>2. q = <<Signal(c, "DATA_INVALID")>> \/ \E p \in {"ACK", "DATA_INVALID"} : q = <<Signal("DOWNLOAD_SETTINGS", p)>>
    BY <1>1, StillToTransfer
  <2>3. Unmarked(<<Signal(c, "DATA_INVALID")>>)
    BY <2>1, ShortUnmarked
  <2>4. \A p \in {"ACK", "DATA_INVALID"} : Unmarked(<<Signal("DOWNLOAD_SETTINGS", p)>>)
    BY <2>1, ShortUnmarked
  <2> QED BY <2>2, <2>3, <2>4
<1>6. ~Settles(q, <<>>) \/ action # "APP_LOOP"
  BY <1>2 DEF Wants
<1>7. ~Settles(q, <<Break>>) \/ action # "DISCONNECT" \/ state # "WAITING"
  BY <1>2 DEF Wants
<1>8. ~Asks(q) \/ action \notin Procedures
  BY <1>2 DEF Wants, Asks
<1> QED BY <1>1, <1>3, <1>4, <1>5, <1>6, <1>7, <1>8, DataCommands DEF Phase, Uploads

LEMMA GarbledAbove ==
  ASSUME LinkInv, NEW q \in Seq(Messages), Reads(up, q), Phase(q), NEW k \in DOMAIN up,
         up[k].parameter \in Contents, NEW w \in {"invalid", "cut"}, up' = Garbled(up, k, w),
         cut' = cut, UNCHANGED <<app, boardSide, down, boardNews>>
  PROVE  \E r \in Seq(Messages) : Reads(up', r) /\ Phase(r)'
<1>1. up \in Seq(Messages) /\ UNCHANGED <<action, state, tasks, board, fails, boardNews, down>>
  BY DEF LinkInv, app, boardSide
<1>2. PICK e \in DOMAIN q : q[e].parameter \in Contents /\ Reads(Garbled(up, k, w), Garbled(q, e, w))
  BY <1>1, ReadsGarbled
<1>3. Garbled(q, e, w) \in Seq(Messages)
  BY <1>2, GarbledMessages
<1>4. boardNews = <<>> /\ action \in Uploads /\ q # <<>> /\ UploadsRecord(q, DataCommand[action])
  BY <1>2, OnlyRecordsAreMarked DEF Unmarked
<1> PICK c : c = DataCommand[action]
  OBVIOUS
<1>5. /\ down = <<>> /\ state = "UPLOADING_DATA"
      /\ \/ board = action /\ fails \in 0 .. 3 /\ (tasks.strays["ping"] = 0 => up = q)
         \/ board = "APP_LOOP" /\ (fails = 3 \/ tasks.strays["ping"] > 0)
  BY <1>4, StillToTransfer
<1>6. PICK v \in Arrivals : q = <<Payload(c, v)>>
  BY <1>4, StillToTransfer
<1>7. Garbled(q, e, w) = <<Payload(c, w)>> /\ e = 1
  BY <1>2, <1>6 DEF Garbled, Payload
<1>8. up = q => up' = Garbled(q, e, w)
  <2>1. ASSUME up = q PROVE k = 1
    <3>1. DOMAIN up = {1}
      BY <1>6, <2>1
    <3> QED BY <3>1
  <2> QED BY <1>7, <2>1
<1>9. \/ board' = action' /\ fails' \in 0 .. 3 /\ (tasks'.strays["ping"] = 0 => up' = Garbled(q, e, w))
      \/ board' = "APP_LOOP" /\ (fails' = 3 \/ tasks'.strays["ping"] > 0)
  BY <1>1, <1>5, <1>8
<1>10. UploadsRecord(<<Payload(c, w)>>, c)'
  <2>1. w \in Arrivals
    BY DEF Arrivals, Contents
  <2> QED BY <1>1, <1>5, <1>7, <1>9, <2>1 DEF UploadsRecord, Between
<1>11. Phase(<<Payload(c, w)>>)'
  <2>1. action \in {"UPLOAD_SETTINGS", "UPLOAD_ROUTE"}
    BY <1>4 DEF Uploads
  <2> QED BY <1>1, <1>4, <1>10, <2>1, DataCommands DEF Phase
<1>12. PICK r : r = Garbled(q, e, w)
  OBVIOUS
<1>13. r \in Seq(Messages) /\ Reads(up', r)
  BY <1>2, <1>3, <1>12
<1>14. Phase(r)'
  BY <1>7, <1>11, <1>12
<1> QED BY <1>13, <1>14

(* The record is the last of what the board sends at once.                 *)
LEMMA GarbledLast ==
  ASSUME NEW c, NEW v, NEW w
  PROVE  \A k \in DOMAIN <<Payload(c, v)>> : Garbled(<<Payload(c, v)>>, k, w) = <<Payload(c, w)>>
  BY DEF Garbled, Payload

LEMMA GarbledSecond ==
  ASSUME NEW c, NEW v, NEW w, NEW a, a.parameter \notin Contents,
         NEW k \in DOMAIN <<a, Payload(c, v)>>, <<a, Payload(c, v)>>[k].parameter \in Contents
  PROVE  Garbled(<<a, Payload(c, v)>>, k, w) = <<a, Payload(c, w)>>
  BY DEF Garbled, Payload

LEMMA GarbledBelow ==
  ASSUME NEW q, Midway(q), NEW k \in DOMAIN down, down[k].parameter \in Contents,
         NEW w \in Arrivals, down' = Garbled(down, k, w), cut' = cut,
         UNCHANGED <<app, boardSide, up, boardNews>>
  PROVE  Midway(q)'
<1>1. UNCHANGED <<action, state, tasks, board, stage, fails, boardNews, up>>
  BY DEF app, boardSide
<1>2. down # <<>>
  OBVIOUS
<1>3. /\ \A c, p : p \notin Contents => Signal(c, p).parameter \notin Contents
      /\ FlightAck.parameter \notin Contents /\ RouteAllowed.parameter \notin Contents /\ FlightEnds.parameter \notin Contents
  BY SignalsUnmarked DEF FlightAck, RouteAllowed, FlightEnds, Contents
<1>4. ASSUME NEW a, a.parameter \notin Contents PROVE down # <<a>>
  BY <1>4
<1>5. ASSUME NEW c, NEW v, down = <<Payload(c, v)>> PROVE down' = <<Payload(c, w)>>
  BY <1>5, GarbledLast
<1>6. ASSUME NEW a, NEW c, NEW v, a.parameter \notin Contents, down = <<a, Payload(c, v)>>
      PROVE  down' = <<a, Payload(c, w)>>
  <2>1. k \in DOMAIN <<a, Payload(c, v)>> /\ <<a, Payload(c, v)>>[k].parameter \in Contents
    BY <1>6
  <2>2. Garbled(<<a, Payload(c, v)>>, k, w) = <<a, Payload(c, w)>>
    BY <1>6, <2>1, GarbledSecond
  <2> QED BY <1>6, <2>2
<1>7. ASSUME NEW a, NEW b, NEW c, NEW v, a.parameter \notin Contents, b.parameter \notin Contents, down = <<a, b, Payload(c, v)>>
      PROVE  down' = <<a, b, Payload(c, w)>>
  <2>1. k \in DOMAIN <<a, b, Payload(c, v)>> /\ <<a, b, Payload(c, v)>>[k].parameter \in Contents
    BY <1>7
  <2>2. Garbled(<<a, b, Payload(c, v)>>, k, w) = <<a, b, Payload(c, w)>>
    <3>1. k = 3
      BY <1>7, <2>1
    <3> QED BY <3>1 DEF Garbled, Payload
  <2> QED BY <1>7, <2>2
<1>8. ASSUME NEW c, Offered(q, c) PROVE Offered(q, c)'
  BY <1>2, <1>5, <1>8 DEF Offered, Between
<1>9. ASSUME Connects(q) PROVE Connects(q)'
  <2>1. /\ Signal("START_CMD", "ACK").parameter \notin Contents
        /\ Signal("CALIBRATION_SETTINGS", "READY").parameter \notin Contents
        /\ Signal("APP_LOOP", "ACK").parameter \notin Contents
    BY <1>3 DEF Contents
  <2> QED BY <1>1, <1>2, <1>4, <1>6, <1>7, <1>8, <1>9, <2>1 DEF Connects, At, Between
<1>10. ASSUME InFlightWith(q) PROVE InFlightWith(q)'
  BY <1>1, <1>2, <1>3, <1>4, <1>6, <1>8, <1>10 DEF InFlightWith, At, Between
<1>11. ASSUME CalibratesAccel(q) PROVE CalibratesAccel(q)'
  <2>1. Signal("CALIBRATE_ACCEL", "ACK").parameter \notin Contents /\ Signal("CALIBRATE_ACCEL", "DONE").parameter \notin Contents
    BY <1>3 DEF Contents
  <2> QED BY <1>1, <1>6, <1>7, <1>8, <1>11, <2>1 DEF CalibratesAccel, Between
<1>12. ASSUME CalibratesMagnet(q) PROVE CalibratesMagnet(q)'
  <2>1. /\ Signal("CALIBRATE_MAGNET", "ACK").parameter \notin Contents
        /\ Signal("CALIBRATE_MAGNET", "DONE").parameter \notin Contents
    BY <1>3 DEF Contents
  <2> QED BY <1>1, <1>2, <1>4, <1>5, <1>6, <1>12, <2>1 DEF CalibratesMagnet, At, Between
<1>13. ASSUME NEW c, Downloads(q, c) PROVE Downloads(q, c)'
  <2>1. PICK a : a = Signal(action, "ACK")
    OBVIOUS
  <2>2. a.parameter \notin Contents
    BY <1>3, <2>1 DEF Contents
  <2>3. a = Signal(action', "ACK")
    BY <1>1, <2>1
  <2> QED BY <1>1, <1>2, <1>5, <1>6, <1>8, <1>13, <2>1, <2>2, <2>3 DEF Downloads, Between
<1>14. ASSUME NEW c PROVE ~UploadsRecord(q, c)
  <2>1. PICK a : a = Signal(action, "ACK")
    OBVIOUS
  <2>2. /\ a.parameter \notin Contents /\ Signal(c, "DATA_INVALID").parameter \notin Contents
        /\ Signal(c, "ACK").parameter \notin Contents /\ Signal(c, "TIMEOUT").parameter \notin Contents
    BY <1>3, <2>1 DEF Contents
  <2> QED BY <1>2, <1>4, <2>1, <2>2 DEF UploadsRecord, Between
<1> QED BY <1>1, <1>9, <1>10, <1>11, <1>12, <1>13, <1>14 DEF Midway

LEMMA CorruptionKeepsPhase ==
  ASSUME LinkInv, PhaseInv, CorruptRecord, UNCHANGED <<app, boardSide>>
  PROVE  PhaseInv'
<1>1. /\ UNCHANGED <<status, appNews, boardNews, closing, astray, cut, action, state, tasks, board, stage, fails>>
      /\ up \in Seq(Messages)
  BY DEF LinkInv, CorruptRecord, app, boardSide
<1> SUFFICES ASSUME status = "open", ~closing PROVE PhaseInv'
  BY <1>1 DEF PhaseInv
<1>0. PICK w \in {"invalid", "cut"} :
        \/ \E k \in DOMAIN up : up[k].parameter \in Contents /\ up' = Garbled(up, k, w) /\ UNCHANGED down
        \/ \E k \in DOMAIN down : down[k].parameter \in Contents /\ down' = Garbled(down, k, w) /\ UNCHANGED up
  BY DEF CorruptRecord
<1>4. w \in Arrivals
  BY DEF Arrivals, Contents
<1>2. CASE \E k \in DOMAIN up : up[k].parameter \in Contents /\ up' = Garbled(up, k, w) /\ UNCHANGED down
  <2> PICK k \in DOMAIN up : up[k].parameter \in Contents /\ up' = Garbled(up, k, w) /\ UNCHANGED down
    BY <1>2
  <2>1. appNews = <<>>
    <3> SUFFICES ASSUME appNews # <<>> PROVE FALSE
      OBVIOUS
    <3>1. PICK q \in Seq(Messages) : Reads(up, q) /\ Opening(q)
      BY DEF PhaseInv
    <3>2. PICK e \in DOMAIN q : q[e].parameter \in Contents
      BY <1>1, <3>1, ReadsGarbled
    <3>3. q = <<>> \/ q = <<Break>>
      BY <3>1 DEF Opening, Lost
    <3>4. Break.parameter \notin Contents
      BY SignalsUnmarked DEF Break, Contents
    <3> QED BY <3>2, <3>3, <3>4
  <2>2. ASSUME ~astray PROVE \E q \in Seq(Messages) : Reads(up', q) /\ Phase(q)'
    <3>1. PICK q \in Seq(Messages) : Reads(up, q) /\ Phase(q)
      BY <2>1, <2>2 DEF PhaseInv
    <3> QED BY <1>1, <3>1, GarbledAbove
  <2> QED BY <1>1, <2>1, <2>2 DEF PhaseInv
<1>3. CASE \E k \in DOMAIN down : down[k].parameter \in Contents /\ down' = Garbled(down, k, w) /\ UNCHANGED up
  <2> PICK k \in DOMAIN down : down[k].parameter \in Contents /\ down' = Garbled(down, k, w) /\ UNCHANGED up
    BY <1>3
  <2>1. down # <<>>
    OBVIOUS
  <2>2. appNews = <<>>
    BY <2>1 DEF PhaseInv, Opening
  <2>3. ASSUME ~astray PROVE \E q \in Seq(Messages) : Reads(up', q) /\ Phase(q)'
    <3>1. PICK q \in Seq(Messages) : Reads(up, q) /\ Phase(q)
      BY <2>2, <2>3 DEF PhaseInv
    <3>2. boardNews = <<>> /\ Midway(q)
      BY <2>1, <3>1, HearsMidway
    <3>3. Midway(q)'
      BY <1>1, <1>4, <3>2, GarbledBelow
    <3>4. (boardNews = <<>>)' /\ Midway(q)' => Phase(q)'
      BY DEF Phase, Midway
    <3> QED BY <1>1, <3>1, <3>2, <3>3, <3>4
  <2> QED BY <1>1, <2>2, <2>3 DEF PhaseInv
<1> QED BY <1>0, <1>2, <1>3

(* What the board that is about to close hears.                            *)
LEMMA OthersKeepClosing ==
  ASSUME LinkInv, CloseInv, AppNext \/ LinkFails \/ CorruptRecord, UNCHANGED boardSide
  PROVE  CloseInv'
<1>1. closing' = closing
  BY DEF boardSide
<1>2. Told' => (boardNews # <<>>)'
  BY DEF Told, Holds
<1> QED BY <1>1, <1>2, LinkOfOthers DEF CloseInv, GoesDown

LEMMA BoardKeepsClosing ==
  ASSUME CloseInv, B!BoardNext
  PROVE  CloseInv'
<1>1. CASE B!HandleCommEvent
  <2>1. ~closing /\ status = "open" /\ boardNews = <<>>
    <3>1. \E m : B!BoardReceives(m)
      BY <1>1, SomeMessage
    <3> QED BY <3>1 DEF B!BoardReceives, B!BoardHears
  <2>2. UNCHANGED <<status, boardNews>>
    BY <1>1, SomeMessage
  <2> QED BY <2>1, <2>2 DEF CloseInv
<1>2. CASE B!BoardCloses
  BY <1>2 DEF B!BoardCloses, CloseInv
<1>3. CASE B!OnConnected \/ B!OnDisconnected \/ B!OnError
  BY <1>3 DEF B!OnConnected, B!OnDisconnected, B!OnError, B!Called, B!Stage, B!boardVars, CloseInv
<1> QED BY <1>1, <1>2, <1>3 DEF B!BoardNext

LEMMA InitIsInStep == Init => StepInv
<1> SUFFICES ASSUME Init PROVE StepInv
  OBVIOUS
<1>1. /\ status = "closed" /\ ~closing /\ action = "IDLE" /\ tasks = NoTasks
  BY DEF Init, LinkInit, AppInit, B!BoardInit
<1>2. TaskInv
  BY <1>1 DEF TaskInv, TasksTyped, NoTasks, Tasks, Timers, Uploads, Flies
<1>3. CloseInv /\ PhaseInv
  BY <1>1 DEF CloseInv, PhaseInv
<1> QED BY <1>2, <1>3, InitIsSession DEF StepInv

LEMMA NextKeepsSteps == StepInv /\ [Next]_vars => StepInv'
<1> SUFFICES ASSUME StepInv, [Next]_vars PROVE StepInv'
  OBVIOUS
<1>1. SessionInv' /\ LinkInv /\ TaskInv /\ CloseInv /\ PhaseInv
  BY NextKeepsSession DEF StepInv, SessionInv
<1>2. UNCHANGED app => TaskInv'
  BY <1>1 DEF app, TaskInv, Flies, TasksTyped
<1>3. CASE AppNext /\ UNCHANGED boardSide
  BY <1>1, <1>3, AppKeepsPhase, OthersKeepClosing DEF StepInv
<1>4. CASE B!BoardNext /\ UNCHANGED app
  BY <1>1, <1>4, BoardKeepsPhase, BoardKeepsClosing DEF StepInv
<1>5. CASE LinkFails /\ UNCHANGED <<app, boardSide>>
  <2>1. status' # "open"
    BY <1>5 DEF LinkFails
  <2>2. PhaseInv'
    BY <2>1 DEF PhaseInv
  <2> QED BY <1>1, <1>2, <1>5, <2>2, OthersKeepClosing DEF StepInv
<1>6. CASE CorruptRecord /\ UNCHANGED <<app, boardSide>>
  BY <1>1, <1>2, <1>6, CorruptionKeepsPhase, OthersKeepClosing DEF StepInv
<1>7. CASE UNCHANGED vars
  <2>1. /\ UNCHANGED <<status, up, down, appNews, boardNews, cut, action, state, tasks, astray>>
        /\ UNCHANGED <<board, stage, fails, closing>> /\ UNCHANGED app
    BY <1>7 DEF vars, link, app, boardSide
  <2>2. \A q : (Phase(q) => Phase(q)') /\ (Opening(q) => Opening(q)')
    BY <2>1, SamePhase, SameOpening
  <2>3. PhaseInv'
    BY <1>1, <2>1, <2>2 DEF PhaseInv
  <2>4. CloseInv'
    BY <1>1, <2>1 DEF CloseInv
  <2> QED BY <1>1, <1>2, <2>1, <2>3, <2>4 DEF StepInv
<1> QED BY <1>3, <1>4, <1>5, <1>6, <1>7 DEF Next

(* Where a record is awaited.                                              *)
LEMMA RecordsAwaited ==
  /\ action \in Procedures \cup {"CONNECT"} /\ state = "WAITING_FOR_CALIBRATION_DATA" =>
       Payload("CALIBRATION_SETTINGS", "valid") \in Awaited
  /\ action = "FLIGHT_LOOP" /\ state = "WAITING_FOR_CONTROLS" => Payload("CONTROL_SETTINGS", "valid") \in Awaited
  /\ action = "FLIGHT_LOOP" /\ state = "WAITING_FOR_ROUTE" => Payload("ROUTE_CONTAINER", "valid") \in Awaited
  /\ action = "DOWNLOAD_SETTINGS" /\ state = "DOWNLOADING_DATA" => Payload("CONTROL_SETTINGS", "valid") \in Awaited
<1>1. \A c : Payload(c, "valid") \in Record(c)
  BY DEF Record, Contents
<1>2. action \in Procedures \cup {"CONNECT"} /\ state = "WAITING_FOR_CALIBRATION_DATA" =>
        Awaited = Record("CALIBRATION_SETTINGS")
  BY DEF Awaited, Procedures
<1>3. action = "FLIGHT_LOOP" =>
        /\ state = "WAITING_FOR_CONTROLS" => Awaited = Record("CONTROL_SETTINGS")
        /\ state = "WAITING_FOR_ROUTE" => Awaited = Record("ROUTE_CONTAINER")
  BY DEF Awaited
<1>4. action = "DOWNLOAD_SETTINGS" /\ state = "DOWNLOADING_DATA" => Awaited = Record(DataCommand[action])
  BY DEF Awaited
<1> QED BY <1>1, <1>2, <1>3, <1>4, DataCommands

(* Nothing is left to hear, at either end.                                 *)
LEMMA QuietPhase ==
  ASSUME Phase(<<>>), boardNews = <<>>, down = <<>>
  PROVE  Rest \/ Hang
<1> PICK q : q = <<>>
  OBVIOUS
<1>1. Phase(q)
  OBVIOUS
<1>2. \A a : <<a>> # <<>> /\ \A b : <<a, b>> # <<>> /\ \A c : <<a, b, c>> # <<>>
  OBVIOUS
<1>3. ~Greets(q) /\ (Fresh /\ Lost(q) => Hang)
  BY <1>2 DEF Greets, Fresh, Lost, Hang
<1>4. \A c \in {"CALIBRATION_SETTINGS", "CONTROL_SETTINGS", "ROUTE_CONTAINER"} :
        cut /\ B!Sending(c) /\ Payload(c, "valid") \in Awaited => Hang
  BY DEF Hang, HangsOnRecord
<1>12. \A c : Offered(q, c) => cut
  BY <1>2 DEF Offered, Between
<1>13. ASSUME action = "CONNECT", Connects(q) PROVE Hang
  <2>1. At("WAITING_FOR_CALIBRATION_DATA", "CONNECTING_APP_LOOP", "CALIBRATION_ACK") /\ cut
    BY <1>2, <1>12, <1>13 DEF Connects, Between
  <2> QED BY <1>4, <1>13, <2>1, RecordsAwaited DEF At, B!Sending
<1>14. ASSUME action = "CALIBRATE_ACCEL", CalibratesAccel(q) PROVE Hang
  <2>1. state = "WAITING_FOR_CALIBRATION_DATA" /\ board = "CALIBRATE_ACCEL" /\ cut
    BY <1>2, <1>12, <1>14 DEF CalibratesAccel, Between
  <2> QED BY <1>4, <1>14, <2>1, RecordsAwaited DEF B!Sending, Procedures
<1>5. ASSUME NEW rest, Wants(rest), Settles(q, rest) PROVE rest = <<>> /\ board = "APP_LOOP"
  <2>1. \A c \in {"CALIBRATION_SETTINGS", "CONTROL_SETTINGS"} : Signal(c, "ACK") \in Messages
    BY Significant, NamesAreKnown
  <2>2. /\ Break \in Messages
        /\ action \in Procedures => Signal(action, "START") \in Messages
    BY Significant, NamesAreKnown DEF Break
  <2>3. rest = <<>> \/ \E m \in Messages : rest = <<m>>
    BY <1>5, <2>2 DEF Wants
  <2>4. \A c \in {"CALIBRATION_SETTINGS", "CONTROL_SETTINGS"} : <<Signal(c, "ACK")>> \o rest # <<>>
    BY <2>1, <2>3, ShortQueues
  <2> QED BY <1>5, <2>4 DEF Settles
<1>6. ASSUME action = "FLIGHT_LOOP", InFlightWith(q) PROVE Rest \/ Hang
  <2>1. \/ At("WAITING_FOR_CONTROLS", "FLIGHT_LOOP", "CONTROLS_ACK") /\ cut
        \/ At("WAITING_FOR_ROUTE", "FLIGHT_LOOP", "ROUTE_ACK") /\ cut
        \/ state \in {"FLING", "BREAKING"} /\ stage = "RUNNING"
    BY <1>2, <1>12, <1>6 DEF InFlightWith, Between
  <2> QED BY <1>4, <1>6, <2>1, RecordsAwaited DEF At, B!Sending, Rest
<1>7. ASSUME action = "CALIBRATE_MAGNET", CalibratesMagnet(q) PROVE Rest \/ Hang
  <2>1. \/ At("WAITING_FOR_CALIBRATION_DATA", "CALIBRATE_MAGNET", "CALIBRATION_ACK") /\ cut
        \/ state = "WAITING_FOR_USER_COMMAND" /\ stage = "USER_COMMAND"
    BY <1>2, <1>7 DEF CalibratesMagnet, At, Between
  <2> QED BY <1>4, <1>7, <2>1, RecordsAwaited DEF At, B!Sending, Rest, Procedures
<1>8. ASSUME action = "DOWNLOAD_SETTINGS", Downloads(q, "CONTROL_SETTINGS") PROVE Hang
  <2>1. state = "DOWNLOADING_DATA" /\ board = "DOWNLOAD_SETTINGS" /\ cut
    BY <1>2, <1>12, <1>8 DEF Downloads, Between
  <2> QED BY <1>4, <1>8, <2>1, RecordsAwaited DEF B!Sending
<1>15. ASSUME action = "DOWNLOAD_ROUTE", Downloads(q, "ROUTE_CONTAINER") PROVE Hang
  BY <1>15 DEF Downloads, Hang
<1>9. ASSUME NEW c, UploadsRecord(q, c), action \in Uploads PROVE Hang
  <2>1. \/ board = action /\ state = "UPLOADING_DATA" /\ cut
        \/ board = "APP_LOOP" /\ (fails = 3 \/ tasks.strays["ping"] > 0)
    BY <1>2, <1>9 DEF UploadsRecord, Between
  <2> QED BY <1>9, <2>1 DEF Hang, HangsOnRecord
<1>10. \A rest : Wants(rest) /\ Settles(q, rest) => action = "APP_LOOP" /\ board = "APP_LOOP"
  BY <1>2, <1>5 DEF Wants
<1>11. /\ action = "APP_LOOP" /\ Settles(q, <<>>) => Rest
       /\ ~(action = "DISCONNECT" /\ state = "WAITING" /\ Settles(q, <<Break>>))
       /\ ~(action \in Procedures /\ Asks(q))
  BY <1>10 DEF Wants, Asks, Rest, Procedures
<1> QED BY <1>1, <1>3, <1>6, <1>7, <1>8, <1>9, <1>11, <1>13, <1>14, <1>15 DEF Phase, Uploads

LEMMA StepsAreInStep == StepInv => InStep
<1> SUFFICES ASSUME StepInv, Quiet, ~astray PROVE Rest \/ Hang
  BY DEF InStep
<1>1. PICK q \in Seq(Messages) : Reads(up, q) /\ Phase(q)
  BY DEF StepInv, PhaseInv, Quiet
<1>2. up \in Seq(Messages) /\ \A k \in DOMAIN up : up[k] \in Noise
  BY DEF StepInv, SessionInv, LinkInv, Quiet, Range, Noise
<1>3. q = <<>>
  BY <1>1, <1>2, ReadsNoiseOnly
<1> QED BY <1>1, <1>3, QuietPhase DEF Quiet

(* Once all messages are handled both ends are in the same procedure, or   *)
(* in one of the hangs of the code that Hang names, whatever was lost with *)
(* a connection, damaged or cut short on its way, or left running from an  *)
(* earlier session.                                                        *)
THEOREM BothInStep == Spec => []InStep
<1>1. [](StepInv => InStep)
  BY StepsAreInStep, PTL
<1> QED BY <1>1, InitIsInStep, NextKeepsSteps, PTL DEF Spec
=============================================================================
