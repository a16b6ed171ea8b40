------------------------ MODULE CommandExchangeProofs ------------------------
(***************************************************************************)
(* Theorems about CommandExchange, for any calls at both ends, however     *)
(* many, any timeout, and any number of lost and of stray messages.        *)
(*                                                                         *)
(* The argument counts signals.  Those in a buffer were sent and not read; *)
(* a buffer keeps their order, so what was read or sent before a message   *)
(* with a tag belongs to earlier calls (ReadBefore, GivenBefore).          *)
(***************************************************************************)
EXTENDS CommandExchange, FunctionTheorems, FiniteSetTheorems, SequenceTheorems, TLAPS

Everything == [kind : {"signal", "payload", "control"}, cmd : Commands,
               par : Parameters, tag : Nat]

(* Signals among the first n messages of a buffer.                         *)
SignalsIn(s, n) == {i \in 1..n : s[i].kind = "signal"}
Count(s, n) == Cardinality(SignalsIn(s, n))

One(m) == IF m.kind = "signal" THEN 1 ELSE 0
-----------------------------------------------------------------------------
LEMMA CountIsNat ==
  ASSUME NEW s, NEW n \in Nat
  PROVE  IsFiniteSet(SignalsIn(s, n)) /\ Count(s, n) \in Nat
<1>1. IsFiniteSet(1..n)
  BY FS_Interval, 1 \in Int, n \in Int
<1>2. SignalsIn(s, n) \in SUBSET (1..n)
  BY DEF SignalsIn
<1>3. IsFiniteSet(SignalsIn(s, n))
  BY <1>1, <1>2, FS_Subset
<1> QED BY <1>3, FS_CardinalityType DEF Count

(* The first signals of a buffer stay the first when one is appended.      *)
LEMMA CountOfAppend ==
  ASSUME NEW s \in Seq(Everything), NEW m \in Everything
  PROVE  /\ \A n \in 0..Len(s) : Count(Append(s, m), n) = Count(s, n)
         /\ Count(Append(s, m), Len(s) + 1) = Count(s, Len(s)) + One(m)
         /\ Len(Append(s, m)) = Len(s) + 1
<1>1. /\ Len(s) \in Nat /\ Len(Append(s, m)) = Len(s) + 1
      /\ \A i \in 1..Len(s) : Append(s, m)[i] = s[i]
      /\ Append(s, m)[Len(s) + 1] = m
  BY LenProperties, AppendProperties
<1>2. ASSUME NEW n \in 0..Len(s) PROVE Count(Append(s, m), n) = Count(s, n)
  <2>1. \A i \in 1..n : Append(s, m)[i] = s[i]
    BY <1>1, <1>2
  <2>2. SignalsIn(Append(s, m), n) = SignalsIn(s, n)
    BY <2>1 DEF SignalsIn
  <2> QED BY <2>2 DEF Count
<1>3. SignalsIn(Append(s, m), Len(s) + 1) =
        IF m.kind = "signal" THEN SignalsIn(s, Len(s)) \cup {Len(s) + 1}
        ELSE SignalsIn(s, Len(s))
  BY <1>1 DEF SignalsIn
<1>4. Len(s) + 1 \notin SignalsIn(s, Len(s))
  BY <1>1 DEF SignalsIn
<1>5. Count(Append(s, m), Len(s) + 1) = Count(s, Len(s)) + One(m)
  BY <1>1, <1>3, <1>4, CountIsNat, FS_AddElement DEF Count, One
<1> QED BY <1>1, <1>2, <1>5

(* Reading or losing the first message moves the others up.                *)
LEMMA CountOfTail ==
  ASSUME NEW s \in Seq(Everything), s # <<>>, NEW n \in 0..(Len(s) - 1)
  PROVE  Count(Tail(s), n) = Count(s, n + 1) - One(Head(s))
<1> DEFINE S == SignalsIn(s, n + 1) \ {1}
           T == SignalsIn(Tail(s), n)
           f == [i \in S |-> i - 1]
<1>1. /\ Len(s) \in Nat \ {0} /\ Head(s) = s[1] /\ n \in Nat
      /\ \A i \in 1..n : Tail(s)[i] = s[i + 1]
  BY LenProperties, EmptySeq, HeadTailProperties
<1>2. T = {i \in 1..n : s[i + 1].kind = "signal"}
  BY <1>1 DEF SignalsIn
<1>3. S = {i \in 2..(n + 1) : s[i].kind = "signal"}
  BY <1>1 DEF SignalsIn
<1>4. f \in [S -> T]
  BY <1>1, <1>2, <1>3
<1>5. ASSUME NEW i \in S, NEW j \in S, f[i] = f[j] PROVE i = j
  BY <1>1, <1>3, <1>5
<1>6. ASSUME NEW j \in T PROVE \E i \in S : f[i] = j
  <2>1. j + 1 \in S /\ f[j + 1] = j
    BY <1>1, <1>2, <1>3
  <2> QED BY <2>1
<1>7. ExistsBijection(S, T)
  <2>1. f \in Bijection(S, T)
    BY <1>4, <1>5, <1>6, Fun_IsBij
  <2> QED BY <2>1 DEF ExistsBijection
<1>8. IsFiniteSet(SignalsIn(s, n + 1))
  BY <1>1, CountIsNat
<1>9. 1 \in SignalsIn(s, n + 1) <=> Head(s).kind = "signal"
  BY <1>1 DEF SignalsIn
<1>10. IsFiniteSet(S) /\ Cardinality(S) = IF Head(s).kind = "signal" THEN Count(s, n + 1) - 1
                                         ELSE Count(s, n + 1)
  BY <1>8, <1>9, FS_RemoveElement DEF Count
<1>11. Count(s, n + 1) \in Nat
  BY <1>1, CountIsNat
<1>12. Cardinality(S) = Cardinality(T)
  BY <1>7, <1>10, FS_Bijection
<1> QED BY <1>10, <1>11, <1>12 DEF Count, One
-----------------------------------------------------------------------------
(***************************************************************************)
(* What is said of a buffer s: with a signals taken from it before, no     *)
(* more than b were put there; and one with a tag comes after fewer than   *)
(* that, but for c that were sent without being asked for.                 *)
(***************************************************************************)
Room(s, a, b) == a + Count(s, Len(s)) <= b

InOrder(s, a, c) ==
    \A i \in 1..Len(s) :
        s[i].kind = "signal" /\ s[i].tag # 0 => a + Count(s, i - 1) < s[i].tag + c

LEMMA BufferTypes ==
  ASSUME NEW s \in Seq(Everything)
  PROVE  /\ Len(s) \in Nat /\ \A i \in 1..Len(s) : s[i].tag \in Nat
         /\ \A n \in 0..Len(s) : Count(s, n) \in Nat
<1>1. Len(s) \in Nat /\ \A i \in 1..Len(s) : s[i] \in Everything
  BY LenProperties, ElementOfSeq
<1>2. \A i \in 1..Len(s) : s[i].tag \in Nat
  BY <1>1 DEF Everything
<1> QED BY <1>1, <1>2, CountIsNat

LEMMA OneIsBit ==
  ASSUME NEW m
  PROVE  One(m) \in 0..1
BY DEF One

LEMMA AddKeeps ==
  ASSUME NEW s \in Seq(Everything), NEW m \in Everything, NEW a \in Int, NEW b \in Int,
         NEW c \in Int, NEW d \in Int, c <= d, Room(s, a, b), InOrder(s, a, c),
         m.kind = "signal" /\ m.tag # 0 => b < m.tag + d
  PROVE  /\ Append(s, m) \in Seq(Everything)
         /\ Room(Append(s, m), a, b + One(m)) /\ InOrder(Append(s, m), a, d)
<1>1. /\ Append(s, m) \in Seq(Everything) /\ Append(s, m)[Len(s) + 1] = m
      /\ \A i \in 1..Len(s) : Append(s, m)[i] = s[i]
  BY AppendProperties
<1>2. /\ Len(s) \in Nat /\ \A i \in 1..Len(s) : s[i].tag \in Nat
      /\ \A n \in 0..Len(s) : Count(s, n) \in Nat
      /\ m.tag \in Nat /\ One(m) \in 0..1
  <2>1. m.tag \in Nat BY DEF Everything
  <2> QED BY <2>1, BufferTypes, OneIsBit
<1>3. /\ \A n \in 0..Len(s) : Count(Append(s, m), n) = Count(s, n)
      /\ Count(Append(s, m), Len(s) + 1) = Count(s, Len(s)) + One(m)
      /\ Len(Append(s, m)) = Len(s) + 1
  BY CountOfAppend
<1>4. Room(Append(s, m), a, b + One(m))
  BY <1>2, <1>3 DEF Room
<1>5. ASSUME NEW i \in 1..(Len(s) + 1), Append(s, m)[i].kind = "signal",
             Append(s, m)[i].tag # 0
      PROVE  a + Count(Append(s, m), i - 1) < Append(s, m)[i].tag + d
  <2>1. CASE i \in 1..Len(s)
    <3>1. a + Count(s, i - 1) < s[i].tag + c
      BY <1>1, <1>5, <2>1 DEF InOrder
    <3>2. Count(Append(s, m), i - 1) = Count(s, i - 1) /\ Count(s, i - 1) \in Nat
      BY <1>2, <1>3, <2>1
    <3>3. Append(s, m)[i] = s[i] /\ s[i].tag \in Nat
      BY <1>1, <1>2, <2>1
    <3> QED BY <3>1, <3>2, <3>3
  <2>2. CASE i = Len(s) + 1
    <3>1. a + Count(s, Len(s)) <= b /\ Count(s, Len(s)) \in Nat
      BY <1>2 DEF Room
    <3>2. Append(s, m)[i] = m /\ b < m.tag + d
      BY <1>1, <1>5, <2>2
    <3>3. Count(Append(s, m), i - 1) = Count(s, Len(s))
      BY <1>2, <1>3, <2>2
    <3> QED BY <1>2, <3>1, <3>2, <3>3
  <2> QED BY <1>2, <2>1, <2>2
<1> QED BY <1>1, <1>3, <1>4, <1>5 DEF InOrder

LEMMA DropKeeps ==
  ASSUME NEW s \in Seq(Everything), s # <<>>, NEW a \in Int, NEW b \in Int, NEW c \in Int,
         NEW d \in Int, d <= a + One(Head(s)), Room(s, a, b), InOrder(s, a, c)
  PROVE  Tail(s) \in Seq(Everything) /\ Room(Tail(s), d, b) /\ InOrder(Tail(s), d, c)
<1>1. /\ Tail(s) \in Seq(Everything) /\ Len(Tail(s)) = Len(s) - 1
      /\ \A i \in 1..Len(Tail(s)) : Tail(s)[i] = s[i + 1]
  BY HeadTailProperties
<1>2. /\ Len(s) \in Nat \ {0} /\ \A i \in 1..Len(s) : s[i].tag \in Nat
      /\ \A n \in 0..Len(s) : Count(s, n) \in Nat
      /\ One(Head(s)) \in 0..1
  <2>1. Len(s) # 0 BY EmptySeq
  <2> QED BY <2>1, BufferTypes, OneIsBit
<1>3. \A n \in 0..(Len(s) - 1) : Count(Tail(s), n) = Count(s, n + 1) - One(Head(s))
  BY CountOfTail
<1>4. Room(Tail(s), d, b)
  <2>1. Count(Tail(s), Len(s) - 1) = Count(s, Len(s)) - One(Head(s))
    BY <1>2, <1>3
  <2> QED BY <1>1, <1>2, <2>1 DEF Room
<1>5. ASSUME NEW i \in 1..(Len(s) - 1), Tail(s)[i].kind = "signal", Tail(s)[i].tag # 0
      PROVE  d + Count(Tail(s), i - 1) < Tail(s)[i].tag + c
  <2>1. i + 1 \in 1..Len(s) /\ i - 1 \in 0..(Len(s) - 1) /\ i \in 0..Len(s)
    BY <1>2
  <2>2. Tail(s)[i] = s[i + 1] /\ s[i + 1].tag \in Nat
    BY <1>1, <1>2, <2>1
  <2>3. a + Count(s, (i + 1) - 1) < s[i + 1].tag + c
    BY <1>5, <2>1, <2>2 DEF InOrder
  <2>4. Count(Tail(s), i - 1) = Count(s, (i - 1) + 1) - One(Head(s))
    BY <1>3, <2>1
  <2>5. (i - 1) + 1 = i /\ (i + 1) - 1 = i
    BY <1>2
  <2>6. Count(s, i) \in Nat /\ One(Head(s)) \in 0..1
    BY <1>2, <2>1
  <2> QED BY <2>2, <2>3, <2>4, <2>5, <2>6
<1> QED BY <1>1, <1>4, <1>5 DEF InOrder
-----------------------------------------------------------------------------
(***************************************************************************)
(* The inductive invariant.                                                *)
(***************************************************************************)
ExchangeTypes ==
    /\ inbox \in [Ends -> Seq(Everything)] /\ heard \in [Ends -> Everything]
    /\ call \in [Ends -> CallTypes]
    /\ stage \in [Ends -> {"idle", "asking", "waiting", "replying"}]
    /\ number \in [Ends -> Nat] /\ unanswered \in [Ends -> Nat]
    /\ asked \in [Ends -> Nat] /\ read \in Nat /\ given \in Nat

(* A call is one of its end's, at a stage it has, and passes over nothing  *)
(* it was made for.                                                        *)
CallsAreMade ==
    \A e \in Ends :
        /\ stage[e] # "idle"    => call[e] \in Calls(e)
        /\ stage[e] = "waiting" => call[e].until # "nothing"
        /\ stage[e] = "replying" => call[e].reply # None
        /\ missed[e] = FALSE

(* Each call asks once; each reply was read first, after fewer replies     *)
(* than its request's number.                                              *)
CallsAskOnce ==
    \A e \in Ends : asked[e] + (IF stage[e] = "asking" THEN 1 ELSE 0) <= number[e]

RepliesAreRead ==
    /\ given + (IF stage["answerer"] = "replying" THEN 1 ELSE 0) <= read
    /\ stage["answerer"] = "replying" /\ heard["answerer"].tag # 0
         => given < heard["answerer"].tag

Requests == /\ Room(inbox["answerer"], read, asked["asker"])
            /\ InOrder(inbox["answerer"], read, 0)

Answers ==
    /\ Room(inbox["asker"], Answered("asker"), given + asked["answerer"])
    /\ InOrder(inbox["asker"], Answered("asker"), asked["answerer"])

ExchangeInv == /\ ExchangeTypes /\ CallsAreMade /\ CallsAskOnce
               /\ RepliesAreRead /\ Requests /\ Answers
-----------------------------------------------------------------------------
(***************************************************************************)
(* Parts of a step.                                                        *)
(***************************************************************************)
LEMMA TaggedIsMessage ==
  ASSUME NEW m \in Signals, NEW n \in Nat
  PROVE  /\ Tagged(m, n) \in Everything /\ Tagged(m, n).kind = "signal"
         /\ Tagged(m, n).tag = n
BY DEF Signals, Everything, Tagged

LEMMA PlainIsCall == None \in Signals /\ Plain \in CallTypes
<1>1. None \in Signals
  BY DEF None, Signal, Signals, Commands, Parameters
<1> QED BY <1>1 DEF Plain, CallTypes

LEMMA FirstOf ==
  ASSUME NEW s \in Seq(Everything), s # <<>>
  PROVE  Head(s) \in Everything /\ Head(s) = s[1] /\ 1 \in 1..Len(s) /\ Count(s, 0) = 0
<1>1. SignalsIn(s, 0) = {}
  BY DEF SignalsIn
<1>2. Len(s) \in Nat /\ Len(s) # 0
  BY LenProperties, EmptySeq
<1>3. Count(s, 0) = 0
  BY <1>1, FS_EmptySet DEF Count
<1>4. Head(s) = s[1] /\ Head(s) \in Everything
  BY HeadTailProperties
<1> QED BY <1>2, <1>3, <1>4

LEMMA AnsweredIsInt ==
  ASSUME ExchangeTypes
  PROVE  Answered("asker") \in Int
BY DEF ExchangeTypes, Answered, Ends

(* What an end reads from its buffer, if anything, leaves it in order.     *)
LEMMA TakeKeeps ==
  ASSUME ExchangeTypes, NEW e \in Ends, Take(e),
         NEW a \in Int, NEW b \in Int, NEW c \in Int, NEW d \in Int,
         \/ d = a
         \/ inbox[e] # <<>> /\ First(e).kind = "signal" /\ d = a + 1,
         Room(inbox[e], a, b), InOrder(inbox[e], a, c)
  PROVE  Room(inbox'[e], d, b) /\ InOrder(inbox'[e], d, c)
<1>1. inbox[e] \in Seq(Everything)
  BY DEF ExchangeTypes
<1>2. CASE inbox[e] = <<>>
  BY <1>2 DEF Take, ExchangeTypes
<1>3. CASE inbox[e] # <<>>
  <2>1. d <= a + One(Head(inbox[e]))
    BY <1>3, OneIsBit DEF One, First
  <2>2. inbox'[e] = Tail(inbox[e])
    BY <1>3 DEF Take, ExchangeTypes
  <2> QED BY <1>1, <1>3, <2>1, <2>2, DropKeeps
<1> QED BY <1>2, <1>3

LEMMA TakeTypes ==
  ASSUME ExchangeTypes, NEW e \in Ends, Take(e)
  PROVE  /\ inbox' \in [Ends -> Seq(Everything)]
         /\ \A x \in Ends \ {e} : inbox'[x] = inbox[x]
<1>1. inbox[e] # <<>> => Tail(inbox[e]) \in Seq(Everything)
  BY HeadTailProperties DEF ExchangeTypes
<1> QED BY <1>1 DEF Take, ExchangeTypes

LEMMA DeliverTypes ==
  ASSUME ExchangeTypes, NEW e \in Ends, NEW m \in Everything, Deliver(e, m)
  PROVE  /\ inbox' \in [Ends -> Seq(Everything)]
         /\ inbox'[e] = inbox[e] /\ inbox'[Peer(e)] = Append(inbox[Peer(e)], m)
<1>1. Peer(e) \in Ends /\ Peer(e) # e
  BY DEF Ends, Peer
<1>2. Append(inbox[Peer(e)], m) \in Seq(Everything)
  BY <1>1, AppendProperties DEF ExchangeTypes
<1> QED BY <1>1, <1>2 DEF Deliver, ExchangeTypes

(* A call that returns was answered or was not.                            *)
LEMMA FinishCounts ==
  ASSUME ExchangeTypes, CallsAreMade, NEW e \in Ends, NEW ok \in BOOLEAN,
         stage[e] # "idle", Finish(e, ok), UNCHANGED number
  PROVE  /\ heard' \in [Ends -> Everything] /\ call' \in [Ends -> CallTypes]
         /\ stage' = [stage EXCEPT ![e] = "idle"]
         /\ unanswered' \in [Ends -> Nat] /\ CallsAreMade'
         /\ e = "answerer" => Answered("asker")' = Answered("asker")
         /\ e = "asker" =>
              Answered("asker")' = Answered("asker") +
                (IF ok /\ call[e].until # "nothing" THEN 1 ELSE 0)
         /\ ~ok \/ call[e].until = "nothing" =>
              Answered("asker")' = Answered("asker")
<1>1. Tagged(None, 0) \in Everything
  BY PlainIsCall, TaggedIsMessage
<1>2. heard' \in [Ends -> Everything] /\ call' \in [Ends -> CallTypes]
  BY <1>1, PlainIsCall DEF Finish, ExchangeTypes
<1>3. stage' = [stage EXCEPT ![e] = "idle"] /\ unanswered' \in [Ends -> Nat]
  BY DEF Finish, ExchangeTypes
<1>4. CallsAreMade'
  BY DEF Finish, ExchangeTypes, CallsAreMade
<1>5. e = "answerer" => Answered("asker")' = Answered("asker")
  BY DEF Finish, ExchangeTypes, Answered, Ends
<1>6. e = "asker" => Answered("asker")' = Answered("asker") +
                       (IF ok /\ call[e].until # "nothing" THEN 1 ELSE 0)
  BY DEF Finish, ExchangeTypes, Answered, Ends
<1>7. ~ok \/ call[e].until = "nothing" => Answered("asker")' = Answered("asker")
  BY <1>5, <1>6, AnsweredIsInt DEF Ends
<1> QED BY <1>2, <1>3, <1>4, <1>5, <1>6, <1>7

(* The end e does not go on to ask.                                        *)
LEMMA AskOnceKeeps ==
  ASSUME ExchangeTypes, CallsAskOnce, NEW e \in Ends, NEW s, s # "asking",
         stage' = [stage EXCEPT ![e] = s], asked' \in [Ends -> Nat],
         asked'[e] <= number[e], \A x \in Ends \ {e} : asked'[x] = asked[x],
         UNCHANGED number
  PROVE  CallsAskOnce'
<1> SUFFICES ASSUME NEW x \in Ends
             PROVE  asked'[x] + (IF stage'[x] = "asking" THEN 1 ELSE 0) <= number'[x]
  BY DEF CallsAskOnce
<1>1. CASE x = e
  <2>1. stage'[x] # "asking" /\ asked'[x] \in Nat
    BY <1>1 DEF ExchangeTypes
  <2> QED BY <1>1, <2>1
<1>2. CASE x # e
  <2>1. stage'[x] = stage[x] /\ asked'[x] = asked[x]
    BY <1>2 DEF ExchangeTypes
  <2> QED BY <2>1 DEF CallsAskOnce
<1> QED BY <1>1, <1>2
-----------------------------------------------------------------------------
(***************************************************************************)
(* The actions.                                                            *)
(***************************************************************************)
LEMMA BeginKeeps ==
  ASSUME ExchangeInv, NEW e \in Ends, Begin(e)
  PROVE  ExchangeInv'
<1> USE DEF ExchangeInv
<1>1. PICK c \in Calls(e) :
         /\ call' = [call EXCEPT ![e] = c]
         /\ stage' = [stage EXCEPT ![e] = IF c.ask = None THEN "waiting" ELSE "asking"]
  BY DEF Begin
<1>2. c \in CallTypes /\ (c.ask # None \/ c.until # "nothing")
  BY ExchangeAssumption DEF ExchangeAssumption, Calls
<1>3. ExchangeTypes'
  BY <1>1, <1>2 DEF Begin, ExchangeTypes, ghosts
<1>4. CallsAreMade'
  BY <1>1, <1>2 DEF Begin, ExchangeTypes, CallsAreMade, Calls
<1>5. CallsAskOnce'
  BY <1>1 DEF Begin, ExchangeTypes, CallsAskOnce, ghosts
<1>6. RepliesAreRead'
  BY <1>1 DEF Begin, ExchangeTypes, RepliesAreRead, ghosts, Ends
<1>7. Requests'
  BY DEF Begin, Requests, ghosts
<1>8. Answered("asker")' = Answered("asker")
  BY <1>1 DEF Begin, ExchangeTypes, Answered, Ends
<1>9. Answers'
  BY <1>8 DEF Begin, Answers, ghosts
<1> QED BY <1>3, <1>4, <1>5, <1>6, <1>7, <1>9

(* What an end says first: the asking end a request with the call's        *)
(* number, the answering end something nobody asked for.                   *)
LEMMA UtterKeeps ==
  ASSUME ExchangeInv, NEW e \in Ends, stage[e] = "asking", Utter(e),
         UNCHANGED <<number, read, given>>, Answered("asker")' = Answered("asker")
  PROVE  /\ inbox' \in [Ends -> Seq(Everything)] /\ asked' \in [Ends -> Nat]
         /\ asked'[e] <= number[e] /\ \A x \in Ends \ {e} : asked'[x] = asked[x]
         /\ Requests' /\ Answers'
<1> USE DEF ExchangeInv
<1> DEFINE m == Tagged(call[e].ask, IF e = "asker" THEN number[e] ELSE 0)
<1>1. call[e].ask \in Signals
  BY DEF ExchangeTypes, CallTypes
<1>2. m \in Everything /\ m.kind = "signal" /\ m.tag = IF e = "asker" THEN number[e] ELSE 0
  BY <1>1, TaggedIsMessage DEF ExchangeTypes
<1>3. Deliver(e, m) /\ asked' = [asked EXCEPT ![e] = @ + 1]
  BY DEF Utter
<1>4. /\ asked' \in [Ends -> Nat] /\ asked[e] + 1 <= number[e]
      /\ asked'[e] = asked[e] + 1 /\ \A x \in Ends \ {e} : asked'[x] = asked[x]
  BY <1>3 DEF ExchangeTypes, CallsAskOnce
<1>5. /\ inbox' \in [Ends -> Seq(Everything)]
      /\ inbox'[e] = inbox[e] /\ inbox'[Peer(e)] = Append(inbox[Peer(e)], m)
  BY <1>2, <1>3, DeliverTypes
<1>6. CASE e = "asker"
  <2>1. /\ asked["asker"] \in Nat /\ read \in Nat /\ inbox["answerer"] \in Seq(Everything)
        /\ number["asker"] \in Nat
    BY DEF ExchangeTypes, Ends
  <2>2. asked["asker"] < m.tag + 0 /\ One(m) = 1
    BY <1>2, <1>4, <1>6, <2>1 DEF One
  <2>3. /\ Room(Append(inbox["answerer"], m), read, asked["asker"] + One(m))
        /\ InOrder(Append(inbox["answerer"], m), read, 0)
    BY <1>2, <2>1, <2>2, AddKeeps DEF Requests
  <2>4. Requests'
    BY <1>4, <1>5, <1>6, <2>2, <2>3 DEF Requests, Peer
  <2>5. Answers'
    BY <1>4, <1>5, <1>6 DEF Answers, Ends
  <2> QED BY <1>4, <1>5, <2>4, <2>5
<1>7. CASE e = "answerer"
  <2>1. /\ asked["answerer"] \in Nat /\ given \in Nat /\ inbox["asker"] \in Seq(Everything)
        /\ Answered("asker") \in Int
    BY AnsweredIsInt DEF ExchangeTypes, Ends
  <2>2. m.tag = 0 /\ One(m) = 1
    BY <1>2, <1>7 DEF One
  <2>3. /\ Room(Append(inbox["asker"], m), Answered("asker"), given + asked["answerer"] + One(m))
        /\ InOrder(Append(inbox["asker"], m), Answered("asker"), asked["answerer"] + 1)
    BY <1>2, <2>1, <2>2, AddKeeps DEF Answers
  <2>4. given + asked["answerer"] + One(m) = given + (asked["answerer"] + 1)
    BY <2>1, <2>2
  <2>5. Answers'
    BY <1>4, <1>5, <1>7, <2>3, <2>4 DEF Answers, Peer
  <2>6. Requests'
    BY <1>4, <1>5, <1>7 DEF Requests, Ends
  <2> QED BY <1>4, <1>5, <2>5, <2>6
<1> QED BY <1>6, <1>7 DEF Ends

LEMMA AskKeeps ==
  ASSUME ExchangeInv, NEW e \in Ends, Ask(e)
  PROVE  ExchangeInv'
<1> USE DEF ExchangeInv
<1>1. stage[e] = "asking" /\ UNCHANGED <<number, read, given>>
  BY DEF Ask
<1>2. CASE Utter(e) /\ call[e].until = "nothing" /\ Finish(e, TRUE)
  <2>1. /\ heard' \in [Ends -> Everything] /\ call' \in [Ends -> CallTypes]
        /\ stage' = [stage EXCEPT ![e] = "idle"]
        /\ unanswered' \in [Ends -> Nat] /\ CallsAreMade'
        /\ Answered("asker")' = Answered("asker")
    BY <1>1, <1>2, FinishCounts
  <2>2. /\ inbox' \in [Ends -> Seq(Everything)] /\ asked' \in [Ends -> Nat]
        /\ asked'[e] <= number[e] /\ \A x \in Ends \ {e} : asked'[x] = asked[x]
        /\ Requests' /\ Answers'
    BY <1>1, <1>2, <2>1, UtterKeeps
  <2>3. ExchangeTypes'
    BY <1>1, <2>1, <2>2 DEF ExchangeTypes
  <2>4. CallsAskOnce'
    BY <1>1, <2>1, <2>2, AskOnceKeeps
  <2>5. RepliesAreRead'
    BY <1>1, <2>1, <1>2 DEF RepliesAreRead, ExchangeTypes, Finish, Ends
  <2> QED BY <2>1, <2>2, <2>3, <2>4, <2>5
<1>3. CASE /\ Utter(e) /\ call[e].until # "nothing" /\ Continue(e, "waiting")
           /\ UNCHANGED <<timer, heard, missed>>
  <2>1. /\ stage' = [stage EXCEPT ![e] = "waiting"] /\ call' = call
        /\ unanswered' = unanswered
    BY <1>3 DEF Continue
  <2>2. Answered("asker")' = Answered("asker")
    BY <1>1, <2>1 DEF Answered, ExchangeTypes, Ends
  <2>3. /\ inbox' \in [Ends -> Seq(Everything)] /\ asked' \in [Ends -> Nat]
        /\ asked'[e] <= number[e] /\ \A x \in Ends \ {e} : asked'[x] = asked[x]
        /\ Requests' /\ Answers'
    BY <1>1, <1>3, <2>2, UtterKeeps
  <2>4. ExchangeTypes'
    BY <1>1, <1>3, <2>1, <2>3 DEF ExchangeTypes
  <2>5. CallsAreMade'
    BY <1>1, <1>3, <2>1 DEF CallsAreMade, ExchangeTypes
  <2>6. CallsAskOnce'
    BY <1>1, <2>1, <2>3, AskOnceKeeps
  <2>7. RepliesAreRead'
    BY <1>1, <1>3, <2>1 DEF RepliesAreRead, ExchangeTypes, Ends
  <2> QED BY <2>3, <2>4, <2>5, <2>6, <2>7
<1>4. CASE Finish(e, FALSE) /\ UNCHANGED <<inbox, asked>>
  <2>1. /\ heard' \in [Ends -> Everything] /\ call' \in [Ends -> CallTypes]
        /\ stage' = [stage EXCEPT ![e] = "idle"]
        /\ unanswered' \in [Ends -> Nat] /\ CallsAreMade'
        /\ Answered("asker")' = Answered("asker")
    BY <1>1, <1>4, FinishCounts
  <2>2. ExchangeTypes'
    BY <1>1, <1>4, <2>1 DEF ExchangeTypes
  <2>3. CallsAskOnce'
    <3>1. asked' = asked /\ asked[e] <= number[e] /\ asked \in [Ends -> Nat]
      BY <1>1, <1>4 DEF CallsAskOnce, ExchangeTypes
    <3> QED BY <1>1, <2>1, <3>1, AskOnceKeeps
  <2>4. RepliesAreRead'
    BY <1>1, <2>1, <1>4 DEF RepliesAreRead, ExchangeTypes, Finish, Ends
  <2>5. Requests' /\ Answers'
    BY <1>1, <1>4, <2>1 DEF Requests, Answers
  <2> QED BY <2>1, <2>2, <2>3, <2>4, <2>5
<1> QED BY <1>2, <1>3, <1>4 DEF Ask

LEMMA AskedOnce ==
  ASSUME ExchangeInv, NEW e \in Ends
  PROVE  asked \in [Ends -> Nat] /\ asked[e] <= number[e]
<1>1. asked[e] \in Nat /\ number[e] \in Nat /\ asked \in [Ends -> Nat]
  BY DEF ExchangeInv, ExchangeTypes
<1>2. asked[e] + (IF stage[e] = "asking" THEN 1 ELSE 0) <= number[e]
  BY DEF ExchangeInv, CallsAskOnce
<1>3. CASE stage[e] = "asking"
  BY <1>1, <1>2, <1>3
<1>4. CASE stage[e] # "asking"
  BY <1>1, <1>2, <1>4
<1> QED BY <1>3, <1>4

(* What a call is made for ends its wait.                                  *)
LEMMA WantedMatches ==
  ASSUME NEW c \in CallTypes, NEW m \in Everything, c.until # "nothing", Wanted(c, m)
  PROVE  Matches(c, m)
<1>1. c.until \in {"command", "any", "parameter", "response"}
  BY DEF CallTypes
<1> QED BY <1>1 DEF Wanted, Matches

(* A read message the asking end takes as an answer counts as one.         *)
LEMMA HitByAsker ==
  ASSUME ExchangeInv, Hit("asker")
  PROVE  ExchangeInv'
<1> USE DEF ExchangeInv
<1> DEFINE e == "asker"
           ok == Satisfies(call[e], First(e))
<1>1. /\ e \in Ends /\ stage[e] = "waiting" /\ call[e] \in Calls(e)
      /\ call[e].until # "nothing"
  BY DEF Hit, Waits, Ends, CallsAreMade
<1>2. call[e].reply = None
  BY <1>1, ExchangeAssumption DEF ExchangeAssumption, Calls
<1>3. Finish(e, ok) /\ Take(e) /\ ok \in BOOLEAN /\ UNCHANGED <<number, asked, given, read>>
  BY <1>2 DEF Hit, Satisfies
<1>4. inbox[e] # <<>> /\ First(e).kind = "signal"
  BY DEF Hit, Holds, Matches
<1>5. /\ heard' \in [Ends -> Everything] /\ call' \in [Ends -> CallTypes]
      /\ stage' = [stage EXCEPT ![e] = "idle"]
      /\ unanswered' \in [Ends -> Nat] /\ CallsAreMade'
      /\ Answered("asker")' = Answered("asker") + (IF ok THEN 1 ELSE 0)
  BY <1>1, <1>3, FinishCounts
<1>6. /\ inbox' \in [Ends -> Seq(Everything)]
      /\ \A x \in Ends \ {e} : inbox'[x] = inbox[x]
  BY <1>1, <1>3, TakeTypes
<1>7. ExchangeTypes'
  BY <1>3, <1>5, <1>6 DEF ExchangeTypes
<1>8. CallsAskOnce'
  <2>1. asked' = asked /\ asked[e] <= number[e] /\ asked \in [Ends -> Nat]
    BY <1>1, <1>3, AskedOnce
  <2> QED BY <1>1, <1>3, <1>5, <2>1, AskOnceKeeps
<1>9. RepliesAreRead'
  BY <1>3 DEF RepliesAreRead, ExchangeTypes, Finish, Ends
<1>10. Requests'
  BY <1>3, <1>6 DEF Requests, Ends
<1>11. Answers'
  <2> DEFINE d == Answered("asker")'
  <2>1. Answered("asker") \in Int /\ d \in Int
    BY <1>5, AnsweredIsInt
  <2>2. d = Answered("asker") \/ d = Answered("asker") + 1
    BY <1>5, AnsweredIsInt
  <2>3. given + asked["answerer"] \in Int /\ asked["answerer"] \in Int
    BY DEF ExchangeTypes, Ends
  <2>4. /\ Room(inbox[e], Answered("asker"), given + asked["answerer"])
        /\ InOrder(inbox[e], Answered("asker"), asked["answerer"])
    BY DEF Answers
  <2> HIDE DEF d
  <2>5. /\ Room(inbox'[e], d, given + asked["answerer"])
        /\ InOrder(inbox'[e], d, asked["answerer"])
    BY <1>1, <1>3, <1>4, <2>1, <2>2, <2>3, <2>4, TakeKeeps
  <2> QED BY <1>3, <2>5 DEF Answers, d
<1> QED BY <1>5, <1>7, <1>8, <1>9, <1>10, <1>11

(* What the answering end reads, it was asked; a reply is owed for it.     *)
LEMMA HitByAnswerer ==
  ASSUME ExchangeInv, Hit("answerer")
  PROVE  ExchangeInv'
<1> USE DEF ExchangeInv
<1> DEFINE e == "answerer"
<1>1. /\ e \in Ends /\ stage[e] = "waiting" /\ call[e] \in Calls(e)
      /\ Take(e) /\ read' = read + 1 /\ UNCHANGED <<number, asked, given>>
      /\ inbox[e] # <<>> /\ First(e).kind = "signal"
  BY DEF Hit, Waits, Ends, CallsAreMade, Holds, Matches
<1>2. /\ inbox' \in [Ends -> Seq(Everything)]
      /\ \A x \in Ends \ {e} : inbox'[x] = inbox[x]
  BY <1>1, TakeTypes
<1>3. Requests'
  <2>1. read \in Int /\ read + 1 \in Int /\ asked["asker"] \in Int /\ 0 \in Int
    BY DEF ExchangeTypes, Ends
  <2>2. Room(inbox[e], read, asked["asker"]) /\ InOrder(inbox[e], read, 0)
    BY DEF Requests
  <2>3. Room(inbox'[e], read + 1, asked["asker"]) /\ InOrder(inbox'[e], read + 1, 0)
    BY <1>1, <2>1, <2>2, TakeKeeps
  <2> QED BY <1>1, <2>3 DEF Requests
<1>4. asked' = asked /\ asked[e] <= number[e] /\ asked \in [Ends -> Nat]
  BY <1>1, AskedOnce
<1>5. given <= read /\ given \in Nat /\ read \in Nat
  BY <1>1 DEF RepliesAreRead, ExchangeTypes
<1>6. CASE call[e].reply = None
  <2> DEFINE ok == Satisfies(call[e], First(e))
  <2>1. Finish(e, ok) /\ ok \in BOOLEAN
    BY <1>6 DEF Hit, Satisfies
  <2>2. /\ heard' \in [Ends -> Everything] /\ call' \in [Ends -> CallTypes]
        /\ stage' = [stage EXCEPT ![e] = "idle"]
        /\ unanswered' \in [Ends -> Nat] /\ CallsAreMade'
        /\ Answered("asker")' = Answered("asker")
    BY <1>1, <2>1, FinishCounts
  <2>3. ExchangeTypes'
    BY <1>1, <1>2, <2>2 DEF ExchangeTypes
  <2>4. CallsAskOnce'
    BY <1>1, <1>4, <2>2, AskOnceKeeps
  <2>5. RepliesAreRead'
    BY <1>1, <1>5, <2>2 DEF RepliesAreRead, ExchangeTypes
  <2>6. Answers'
    BY <1>1, <1>2, <2>2 DEF Answers, Ends
  <2> QED BY <1>3, <2>2, <2>3, <2>4, <2>5, <2>6
<1>7. CASE call[e].reply # None
  <2>1. /\ heard' = [heard EXCEPT ![e] = First(e)] /\ UNCHANGED missed
        /\ stage' = [stage EXCEPT ![e] = "replying"] /\ UNCHANGED <<call, unanswered>>
    BY <1>7 DEF Hit, Continue
  <2>2. First(e) \in Everything /\ First(e) = inbox[e][1]
        /\ 1 \in 1..Len(inbox[e]) /\ Count(inbox[e], 0) = 0
    BY <1>1, FirstOf DEF ExchangeTypes, First
  <2>3. Answered("asker")' = Answered("asker")
    BY <1>1, <2>1 DEF Answered, ExchangeTypes, Ends
  <2>4. ExchangeTypes'
    BY <1>1, <1>2, <2>1, <2>2 DEF ExchangeTypes
  <2>5. CallsAreMade'
    BY <1>1, <1>7, <2>1 DEF CallsAreMade, ExchangeTypes
  <2>6. CallsAskOnce'
    BY <1>1, <1>4, <2>1, AskOnceKeeps
  <2>7. RepliesAreRead'
    <3>1. heard'[e] = First(e) /\ stage'[e] = "replying" /\ given' = given
      BY <1>1, <2>1 DEF ExchangeTypes
    <3>2. First(e).tag \in Nat
      BY <2>2 DEF Everything
    <3>3. First(e).tag # 0 => read + Count(inbox[e], 1 - 1) < First(e).tag + 0
      BY <1>1, <2>2 DEF Requests, InOrder
    <3>4. 1 - 1 = 0
      OBVIOUS
    <3>5. First(e).tag # 0 => given < First(e).tag
      BY <1>5, <2>2, <3>2, <3>3, <3>4
    <3> QED BY <1>1, <1>5, <3>1, <3>5 DEF RepliesAreRead
  <2>8. Answers'
    BY <1>1, <1>2, <2>3 DEF Answers, Ends
  <2> QED BY <1>3, <2>4, <2>5, <2>6, <2>7, <2>8
<1> QED BY <1>6, <1>7

(* A message that is passed over, or lost on the link.                     *)
LEMMA TakenForNothing ==
  ASSUME ExchangeInv, NEW e \in Ends, Take(e),
         Answered("asker")' = Answered("asker"), UNCHANGED <<asked, read, given>>
  PROVE  inbox' \in [Ends -> Seq(Everything)] /\ Requests' /\ Answers'
<1> USE DEF ExchangeInv
<1>1. /\ inbox' \in [Ends -> Seq(Everything)]
      /\ \A x \in Ends \ {e} : inbox'[x] = inbox[x]
  BY TakeTypes
<1>2. /\ read \in Int /\ asked["asker"] \in Int /\ asked["answerer"] \in Int /\ 0 \in Int
      /\ given + asked["answerer"] \in Int /\ Answered("asker") \in Int
  BY AnsweredIsInt DEF ExchangeTypes, Ends
<1>3. Room(inbox'["answerer"], read, asked["asker"]) /\ InOrder(inbox'["answerer"], read, 0)
  <2>1. Room(inbox["answerer"], read, asked["asker"]) /\ InOrder(inbox["answerer"], read, 0)
    BY DEF Requests
  <2>2. CASE e = "answerer"
    BY <1>2, <2>1, <2>2, TakeKeeps
  <2>3. CASE e # "answerer"
    BY <1>1, <2>1, <2>3 DEF Ends
  <2> QED BY <2>2, <2>3
<1>4. /\ Room(inbox'["asker"], Answered("asker"), given + asked["answerer"])
      /\ InOrder(inbox'["asker"], Answered("asker"), asked["answerer"])
  <2>1. /\ Room(inbox["asker"], Answered("asker"), given + asked["answerer"])
        /\ InOrder(inbox["asker"], Answered("asker"), asked["answerer"])
    BY DEF Answers
  <2>2. CASE e = "asker"
    BY <1>2, <2>1, <2>2, TakeKeeps
  <2>3. CASE e # "asker"
    BY <1>1, <2>1, <2>3 DEF Ends
  <2> QED BY <2>2, <2>3
<1> QED BY <1>1, <1>3, <1>4 DEF Requests, Answers

LEMMA MissKeeps ==
  ASSUME ExchangeInv, NEW e \in Ends, Miss(e)
  PROVE  ExchangeInv'
<1> USE DEF ExchangeInv
<1>1. /\ stage[e] = "waiting" /\ ~Holds(e) /\ Take(e)
      /\ UNCHANGED <<call, stage, heard, number, unanswered, asked, read, given>>
      /\ missed' = [missed EXCEPT ![e] =
                       @ \/ (inbox[e] # <<>> /\ Wanted(call[e], First(e)))]
  BY DEF Miss, Waits, ghosts
<1>2. Answered("asker")' = Answered("asker")
  BY <1>1 DEF Answered
<1>3. inbox' \in [Ends -> Seq(Everything)] /\ Requests' /\ Answers'
  BY <1>1, <1>2, TakenForNothing
<1>4. ~(inbox[e] # <<>> /\ Wanted(call[e], First(e)))
  <2> SUFFICES ASSUME inbox[e] # <<>> PROVE ~Wanted(call[e], First(e))
    OBVIOUS
  <2>1. First(e) \in Everything
    BY FirstOf DEF First, ExchangeTypes
  <2>2. call[e] \in CallTypes /\ call[e].until # "nothing"
    BY <1>1 DEF CallsAreMade, ExchangeTypes
  <2>3. ~Matches(call[e], First(e))
    BY <1>1 DEF Holds
  <2> QED BY <2>1, <2>2, <2>3, WantedMatches
<1>5. ExchangeTypes'
  BY <1>1, <1>3 DEF ExchangeTypes
<1>6. CallsAreMade'
  <2> SUFFICES ASSUME NEW x \in Ends
               PROVE  /\ stage[x] # "idle"    => call[x] \in Calls(x)
                      /\ stage[x] = "waiting" => call[x].until # "nothing"
                      /\ stage[x] = "replying" => call[x].reply # None
                      /\ missed'[x] = FALSE
    BY <1>1 DEF CallsAreMade, Calls
  <2>1. missed'[x] = FALSE
    <3>1. missed[x] = FALSE
      BY DEF CallsAreMade
    <3>2. CASE x # e
      BY <1>1, <3>1, <3>2
    <3>3. CASE x = e /\ e \in DOMAIN missed
      BY <1>1, <1>4, <3>1, <3>3
    <3>4. CASE x = e /\ e \notin DOMAIN missed
      BY <1>1, <3>1, <3>4
    <3> QED BY <3>2, <3>3, <3>4
  <2> QED BY <2>1 DEF CallsAreMade
<1>7. CallsAskOnce' /\ RepliesAreRead'
  BY <1>1 DEF CallsAskOnce, RepliesAreRead
<1> QED BY <1>3, <1>5, <1>6, <1>7

LEMMA GiveUpKeeps ==
  ASSUME ExchangeInv, NEW e \in Ends, GiveUp(e)
  PROVE  ExchangeInv'
<1> USE DEF ExchangeInv
<1>1. /\ stage[e] = "waiting" /\ Take(e) /\ Finish(e, FALSE)
      /\ UNCHANGED <<number, asked, read, given>>
  BY DEF GiveUp, Waits, ghosts
<1>2. /\ heard' \in [Ends -> Everything] /\ call' \in [Ends -> CallTypes]
      /\ stage' = [stage EXCEPT ![e] = "idle"]
      /\ unanswered' \in [Ends -> Nat] /\ CallsAreMade'
      /\ Answered("asker")' = Answered("asker")
  BY <1>1, FinishCounts
<1>3. inbox' \in [Ends -> Seq(Everything)] /\ Requests' /\ Answers'
  BY <1>1, <1>2, TakenForNothing
<1>4. ExchangeTypes'
  BY <1>1, <1>2, <1>3 DEF ExchangeTypes
<1>5. CallsAskOnce'
  <2>1. asked' = asked /\ asked[e] <= number[e] /\ asked \in [Ends -> Nat]
    BY <1>1, AskedOnce
  <2> QED BY <1>1, <1>2, <2>1, AskOnceKeeps
<1>6. RepliesAreRead'
  BY <1>1 DEF RepliesAreRead, ExchangeTypes, Finish, Ends
<1> QED BY <1>2, <1>3, <1>4, <1>5, <1>6
-----------------------------------------------------------------------------
(* Only the answering end replies, with the number of what it has read.    *)
LEMMA ReplyKeeps ==
  ASSUME ExchangeInv, NEW e \in Ends, Reply(e)
  PROVE  ExchangeInv'
<1> USE DEF ExchangeInv
<1>1. stage[e] = "replying" /\ UNCHANGED <<number, asked, read>>
  BY DEF Reply
<1>2. e = "answerer"
  <2>1. call[e] \in Calls(e) /\ call[e].reply # None
    BY <1>1 DEF CallsAreMade
  <2>2. e # "asker"
    BY <2>1, ExchangeAssumption DEF ExchangeAssumption, Calls
  <2> QED BY <2>2 DEF Ends
<1>3. /\ given + 1 <= read /\ given \in Nat /\ read \in Nat
      /\ heard[e].tag # 0 => given < heard[e].tag
  BY <1>1, <1>2 DEF RepliesAreRead, ExchangeTypes
<1>4. asked \in [Ends -> Nat] /\ asked[e] <= number[e]
  BY AskedOnce
<1>5. CASE Finish(e, FALSE) /\ UNCHANGED <<inbox, given>>
  <2>1. /\ heard' \in [Ends -> Everything] /\ call' \in [Ends -> CallTypes]
        /\ stage' = [stage EXCEPT ![e] = "idle"]
        /\ unanswered' \in [Ends -> Nat] /\ CallsAreMade'
        /\ Answered("asker")' = Answered("asker")
    BY <1>1, <1>5, FinishCounts
  <2>2. ExchangeTypes'
    BY <1>1, <1>5, <2>1 DEF ExchangeTypes
  <2>3. CallsAskOnce'
    BY <1>1, <1>4, <2>1, AskOnceKeeps
  <2>4. RepliesAreRead'
    <3>1. stage'["answerer"] = "idle"
      BY <1>2, <2>1 DEF ExchangeTypes
    <3> QED BY <1>1, <1>3, <1>5, <3>1 DEF RepliesAreRead
  <2>5. Requests' /\ Answers'
    BY <1>1, <1>5, <2>1 DEF Requests, Answers
  <2> QED BY <2>1, <2>2, <2>3, <2>4, <2>5
<1>6. CASE /\ Deliver(e, Tagged(call[e].reply, heard[e].tag))
           /\ given' = given + 1 /\ Finish(e, TRUE)
  <2> DEFINE m == Tagged(call[e].reply, heard[e].tag)
  <2>1. /\ heard' \in [Ends -> Everything] /\ call' \in [Ends -> CallTypes]
        /\ stage' = [stage EXCEPT ![e] = "idle"]
        /\ unanswered' \in [Ends -> Nat] /\ CallsAreMade'
        /\ Answered("asker")' = Answered("asker")
    BY <1>1, <1>2, <1>6, FinishCounts
  <2>2. call[e].reply \in Signals /\ heard[e].tag \in Nat
    <3>1. call[e].reply \in Signals
      BY DEF ExchangeTypes, CallTypes
    <3>2. heard[e] \in Everything
      BY DEF ExchangeTypes
    <3> QED BY <3>1, <3>2 DEF Everything
  <2>3. m \in Everything /\ m.kind = "signal" /\ m.tag = heard[e].tag
    BY <2>2, TaggedIsMessage
  <2>4. /\ inbox' \in [Ends -> Seq(Everything)]
        /\ inbox'["answerer"] = inbox["answerer"]
        /\ inbox'["asker"] = Append(inbox["asker"], m)
    BY <1>2, <1>6, <2>3, DeliverTypes DEF Peer
  <2>5. ExchangeTypes'
    <3>1. given' \in Nat /\ read' \in Nat /\ asked' \in [Ends -> Nat]
      BY <1>1, <1>3, <1>4, <1>6
    <3>2. number' \in [Ends -> Nat] /\ stage' \in [Ends -> {"idle", "asking", "waiting", "replying"}]
      BY <1>1, <2>1 DEF ExchangeTypes
    <3> QED BY <2>1, <2>4, <3>1, <3>2 DEF ExchangeTypes
  <2>6. CallsAskOnce'
    BY <1>1, <1>4, <2>1, AskOnceKeeps
  <2>7. RepliesAreRead'
    <3>1. stage'["answerer"] = "idle"
      BY <1>2, <2>1 DEF ExchangeTypes
    <3> QED BY <1>1, <1>3, <1>6, <3>1 DEF RepliesAreRead
  <2>8. Requests'
    BY <1>1, <2>4 DEF Requests
  <2>9. Answers'
    <3>1. /\ asked["answerer"] \in Nat /\ inbox["asker"] \in Seq(Everything)
          /\ Answered("asker") \in Int /\ given + asked["answerer"] \in Int
      BY <1>3, AnsweredIsInt DEF ExchangeTypes, Ends
    <3>2. One(m) = 1
      BY <2>3 DEF One
    <3>3. m.tag # 0 => given + asked["answerer"] < m.tag + asked["answerer"]
      BY <1>2, <1>3, <2>2, <2>3, <3>1
    <3>4. /\ Room(inbox["asker"], Answered("asker"), given + asked["answerer"])
          /\ InOrder(inbox["asker"], Answered("asker"), asked["answerer"])
      BY DEF Answers
    <3> HIDE DEF m
    <3>5. /\ Room(Append(inbox["asker"], m), Answered("asker"),
                  given + asked["answerer"] + One(m))
          /\ InOrder(Append(inbox["asker"], m), Answered("asker"), asked["answerer"])
      BY <2>3, <3>1, <3>3, <3>4, AddKeeps
    <3>6. given + asked["answerer"] + One(m) = given' + asked'["answerer"]
      <4>1. given' = given + 1 /\ asked' = asked
        BY <1>1, <1>6
      <4> QED BY <1>3, <3>1, <3>2, <4>1
    <3> QED BY <1>1, <2>1, <2>4, <3>5, <3>6 DEF Answers
  <2> QED BY <2>1, <2>5, <2>6, <2>7, <2>8, <2>9
<1> QED BY <1>5, <1>6 DEF Reply

LEMMA EmptyIsInOrder ==
  ASSUME NEW s \in Seq(Everything), NEW a \in Int, NEW b \in Int, NEW c \in Int, Room(s, a, b)
  PROVE  <<>> \in Seq(Everything) /\ Room(<<>>, a, b) /\ InOrder(<<>>, a, c)
<1>1. Len(<<>>) = 0 /\ <<>> \in Seq(Everything)
  BY EmptySeq
<1>2. SignalsIn(<<>>, 0) = {}
  BY DEF SignalsIn
<1>3. Count(<<>>, 0) = 0
  BY <1>2, FS_EmptySet DEF Count
<1>4. Len(s) \in Nat /\ Count(s, Len(s)) \in Nat
  BY LenProperties, CountIsNat
<1>5. Room(<<>>, a, b)
  BY <1>1, <1>3, <1>4 DEF Room
<1> QED BY <1>1, <1>5 DEF InOrder

LEMMA ResetKeeps ==
  ASSUME ExchangeInv, NEW e \in Ends, Reset(e)
  PROVE  ExchangeInv'
<1> USE DEF ExchangeInv
<1>1. /\ inbox' = [inbox EXCEPT ![e] = <<>>]
      /\ UNCHANGED <<call, stage, heard, number, unanswered, missed, asked, read, given>>
  BY DEF Reset, ghosts
<1>2. Answered("asker")' = Answered("asker")
  BY <1>1 DEF Answered
<1>3. <<>> \in Seq(Everything)
  BY EmptySeq
<1>4. ExchangeTypes'
  BY <1>1, <1>3 DEF ExchangeTypes
<1>5. CallsAreMade' /\ CallsAskOnce' /\ RepliesAreRead'
  BY <1>1 DEF CallsAreMade, CallsAskOnce, RepliesAreRead, Calls
<1>6. /\ read \in Int /\ asked["asker"] \in Int /\ asked["answerer"] \in Int /\ 0 \in Int
      /\ given + asked["answerer"] \in Int /\ Answered("asker") \in Int
      /\ inbox["asker"] \in Seq(Everything) /\ inbox["answerer"] \in Seq(Everything)
  BY AnsweredIsInt DEF ExchangeTypes, Ends
<1>7. Requests'
  <2>1. /\ Room(inbox'["answerer"], read, asked["asker"])
        /\ InOrder(inbox'["answerer"], read, 0)
    <3>1. inbox'["answerer"] = inbox["answerer"] \/ inbox'["answerer"] = <<>>
      BY <1>1 DEF ExchangeTypes, Ends
    <3> QED BY <1>6, <3>1, EmptyIsInOrder DEF Requests
  <2> QED BY <1>1, <2>1 DEF Requests
<1>8. Answers'
  <2>1. /\ Room(inbox'["asker"], Answered("asker"), given + asked["answerer"])
        /\ InOrder(inbox'["asker"], Answered("asker"), asked["answerer"])
    <3>1. inbox'["asker"] = inbox["asker"] \/ inbox'["asker"] = <<>>
      BY <1>1 DEF ExchangeTypes, Ends
    <3> QED BY <1>6, <3>1, EmptyIsInOrder DEF Answers
  <2> QED BY <1>1, <1>2, <2>1 DEF Answers
<1> QED BY <1>4, <1>5, <1>7, <1>8

LEMMA LoseKeeps ==
  ASSUME ExchangeInv, NEW e \in Ends, Lose(e)
  PROVE  ExchangeInv'
<1> USE DEF ExchangeInv
<1>1. /\ Take(e)
      /\ UNCHANGED <<call, stage, heard, number, unanswered, missed, asked, read, given>>
  BY DEF Lose, ghosts
<1>2. Answered("asker")' = Answered("asker")
  BY <1>1 DEF Answered
<1>3. inbox' \in [Ends -> Seq(Everything)] /\ Requests' /\ Answers'
  BY <1>1, <1>2, TakenForNothing
<1>4. ExchangeTypes'
  BY <1>1, <1>3 DEF ExchangeTypes
<1>5. CallsAreMade' /\ CallsAskOnce' /\ RepliesAreRead'
  BY <1>1 DEF CallsAreMade, CallsAskOnce, RepliesAreRead, Calls
<1> QED BY <1>3, <1>4, <1>5

(* A stray message is no signal: nothing is counted.                       *)
LEMMA NoiseKeeps ==
  ASSUME ExchangeInv, NEW e \in Ends, Noise(e)
  PROVE  ExchangeInv'
<1> USE DEF ExchangeInv
<1>1. PICK n \in {Frame, Payload("ROUTE_CONTAINER", TRUE)} :
         inbox' = [inbox EXCEPT ![e] = Append(@, Tagged(n, 0))]
  BY DEF Noise
<1> DEFINE m == Tagged(n, 0)
<1>2. UNCHANGED <<call, stage, heard, number, unanswered, missed, asked, read, given>>
  BY DEF Noise, ghosts
<1>3. m \in Everything /\ m.kind # "signal"
  BY <1>1 DEF Frame, Control, Payload, Tagged, Everything, Commands, Parameters
<1>4. One(m) = 0
  BY <1>3 DEF One
<1> HIDE DEF m
<1>5. inbox[e] \in Seq(Everything) /\ Append(inbox[e], m) \in Seq(Everything)
  BY <1>3, AppendProperties DEF ExchangeTypes
<1>6. ExchangeTypes'
  BY <1>1, <1>2, <1>5 DEF ExchangeTypes, m
<1>7. Answered("asker")' = Answered("asker")
  BY <1>2 DEF Answered
<1>8. CallsAreMade' /\ CallsAskOnce' /\ RepliesAreRead'
  BY <1>2 DEF CallsAreMade, CallsAskOnce, RepliesAreRead, Calls
<1>9. /\ read \in Int /\ asked["asker"] \in Int /\ asked["answerer"] \in Int /\ 0 \in Int
      /\ given + asked["answerer"] \in Int /\ Answered("asker") \in Int
      /\ inbox["asker"] \in Seq(Everything) /\ inbox["answerer"] \in Seq(Everything)
  BY AnsweredIsInt DEF ExchangeTypes, Ends
<1>10. \A x \in Ends : inbox'[x] = inbox[x] \/ inbox'[x] = Append(inbox[x], m)
  BY <1>1 DEF ExchangeTypes, m
<1>11. ASSUME NEW s \in Seq(Everything), NEW a \in Int, NEW b \in Int, NEW c \in Int,
              Room(s, a, b), InOrder(s, a, c)
       PROVE  Room(Append(s, m), a, b) /\ InOrder(Append(s, m), a, c)
  <2>1. Room(Append(s, m), a, b + One(m)) /\ InOrder(Append(s, m), a, c)
    BY <1>3, <1>11, AddKeeps
  <2>2. b + One(m) = b
    BY <1>4
  <2> QED BY <2>1, <2>2
<1>12. Requests'
  <2>1. /\ Room(inbox'["answerer"], read, asked["asker"])
        /\ InOrder(inbox'["answerer"], read, 0)
    BY <1>9, <1>10, <1>11 DEF Requests, Ends
  <2> QED BY <1>2, <2>1 DEF Requests
<1>13. Answers'
  <2>1. /\ Room(inbox'["asker"], Answered("asker"), given + asked["answerer"])
        /\ InOrder(inbox'["asker"], Answered("asker"), asked["answerer"])
    BY <1>9, <1>10, <1>11 DEF Answers, Ends
  <2> QED BY <1>2, <1>7, <2>1 DEF Answers
<1> QED BY <1>6, <1>8, <1>12, <1>13

LEMMA InitKeeps == Init => ExchangeInv
<1> SUFFICES ASSUME Init PROVE ExchangeInv
  OBVIOUS
<1>1. None \in Signals /\ Plain \in CallTypes /\ Tagged(None, 0) \in Everything
  BY PlainIsCall, TaggedIsMessage
<1>2. <<>> \in Seq(Everything) /\ Len(<<>>) = 0
  BY EmptySeq
<1>3. ExchangeTypes
  BY <1>1, <1>2 DEF Init, ExchangeTypes
<1>4. CallsAreMade /\ CallsAskOnce /\ RepliesAreRead
  BY DEF Init, CallsAreMade, CallsAskOnce, RepliesAreRead, Ends
<1>5. Answered("asker") = 0
  BY DEF Init, Answered, Ends
<1>6. Count(<<>>, 0) = 0
  <2>1. SignalsIn(<<>>, 0) = {}
    BY DEF SignalsIn
  <2> QED BY <2>1, FS_EmptySet DEF Count
<1>7. Requests /\ Answers
  <2>1. /\ inbox["asker"] = <<>> /\ inbox["answerer"] = <<>>
        /\ asked["asker"] = 0 /\ asked["answerer"] = 0 /\ read = 0 /\ given = 0
    BY DEF Init, Ends
  <2>2. Room(<<>>, 0, 0) /\ InOrder(<<>>, 0, 0)
    BY <1>2, <1>6 DEF Room, InOrder
  <2> QED BY <1>5, <2>1, <2>2 DEF Requests, Answers
<1> QED BY <1>3, <1>4, <1>7 DEF ExchangeInv

LEMMA NextKeeps == ExchangeInv /\ [Next]_vars => ExchangeInv'
<1> SUFFICES ASSUME ExchangeInv, [Next]_vars PROVE ExchangeInv'
  OBVIOUS
<1>1. CASE UNCHANGED vars
  BY <1>1 DEF vars, ghosts, link, ExchangeInv, ExchangeTypes, CallsAreMade, CallsAskOnce,
     RepliesAreRead, Requests, Answers, Answered, Calls
<1>2. ASSUME NEW e \in Ends, Hit(e) PROVE ExchangeInv'
  BY <1>2, HitByAsker, HitByAnswerer DEF Ends
<1>3. CASE Next
  BY <1>2, <1>3, BeginKeeps, AskKeeps, MissKeeps, GiveUpKeeps, ReplyKeeps, ResetKeeps,
     LoseKeeps, NoiseKeeps DEF Next, Progress
<1> QED BY <1>1, <1>3
-----------------------------------------------------------------------------
(***************************************************************************)
(* The theorems.                                                           *)
(***************************************************************************)
(* The inductive invariant holds: of the order of what the links carry,    *)
(* and of the calls under way in ICommHandler.                             *)
THEOREM ExchangeIsOrderly == Spec => []ExchangeInv
<1> QED BY InitKeeps, NextKeeps, PTL DEF Spec

(* AnswersAreOwed: the calls of ICommHandler take no more answers than     *)
(* the other end gave, and that gives none to what it has not read.        *)
THEOREM AnswersOwed == Spec => []AnswersAreOwed
<1>1. ExchangeInv => AnswersAreOwed
  <2> SUFFICES ASSUME ExchangeInv PROVE AnswersAreOwed
    OBVIOUS
  <2> USE DEF ExchangeInv
  <2>1. /\ read \in Nat /\ given \in Nat /\ \A e \in Ends : asked[e] \in Nat
        /\ Answered("asker") \in Int
    BY AnsweredIsInt DEF ExchangeTypes
  <2>2. \A e \in Ends : Count(inbox[e], Len(inbox[e])) \in Nat
    BY LenProperties, CountIsNat DEF ExchangeTypes
  <2>3. Answered("asker") <= given + asked["answerer"]
    BY <2>1, <2>2 DEF Answers, Room, Ends
  <2>4. read <= asked["asker"]
    BY <2>1, <2>2 DEF Requests, Room, Ends
  <2>5. given <= read
    BY <2>1 DEF RepliesAreRead
  <2> QED BY <2>3, <2>4, <2>5 DEF AnswersAreOwed
<1> QED BY <1>1, ExchangeIsOrderly, PTL

(* LateByFailures: an answer a call of ICommHandler takes belongs to it or *)
(* to one before, no further back than calls have ended without an answer. *)
THEOREM LateByFailuresOnly == Spec => LateByFailures
<1>1. ExchangeInv /\ Hit("asker") /\ First("asker").tag # 0
        => number["asker"] - First("asker").tag <= unanswered["asker"] + asked["answerer"]
  <2> SUFFICES ASSUME ExchangeInv, Hit("asker"), First("asker").tag # 0
               PROVE  number["asker"] - First("asker").tag
                        <= unanswered["asker"] + asked["answerer"]
    OBVIOUS
  <2> USE DEF ExchangeInv
  <2>1. /\ stage["asker"] = "waiting" /\ inbox["asker"] # <<>>
        /\ First("asker").kind = "signal"
    BY DEF Hit, Waits, Holds, Matches
  <2>2. /\ First("asker") \in Everything /\ First("asker") = inbox["asker"][1]
        /\ 1 \in 1..Len(inbox["asker"]) /\ Count(inbox["asker"], 0) = 0
    BY <2>1, FirstOf DEF First, ExchangeTypes, Ends
  <2>3. First("asker").tag \in Nat
    BY <2>2 DEF Everything
  <2>4. number["asker"] \in Nat /\ unanswered["asker"] \in Nat /\ asked["answerer"] \in Nat
    BY DEF ExchangeTypes, Ends
  <2>5. Answered("asker") = number["asker"] - unanswered["asker"] - 1
    BY <2>1 DEF Answered
  <2>6. Answered("asker") + Count(inbox["asker"], 1 - 1)
          < First("asker").tag + asked["answerer"]
    BY <2>1, <2>2 DEF Answers, InOrder
  <2>7. 1 - 1 = 0
    OBVIOUS
  <2>8. number["asker"] - unanswered["asker"] - 1 < First("asker").tag + asked["answerer"]
    BY <2>2, <2>4, <2>5, <2>6, <2>7
  <2> QED BY <2>3, <2>4, <2>8
<1> QED BY <1>1, ExchangeIsOrderly, PTL DEF LateByFailures

(* GivesUpEmptyHanded: a wait of ICommHandler that gives up has neither    *)
(* passed over what it was made for nor leaves it next in the buffer.      *)
THEOREM GiveUpsAreEmptyHanded == Spec => GivesUpEmptyHanded
<1>1. ExchangeInv => \A e \in Ends : GiveUp(e) =>
        ~missed[e] /\ (inbox[e] # <<>> => ~Wanted(call[e], First(e)))
  <2> SUFFICES ASSUME ExchangeInv, NEW e \in Ends, GiveUp(e)
               PROVE  ~missed[e] /\ (inbox[e] # <<>> => ~Wanted(call[e], First(e)))
    OBVIOUS
  <2> USE DEF ExchangeInv
  <2>1. stage[e] = "waiting" /\ ~Holds(e)
    BY DEF GiveUp, Waits
  <2>2. missed[e] = FALSE /\ call[e] \in CallTypes /\ call[e].until # "nothing"
    BY <2>1 DEF CallsAreMade, ExchangeTypes
  <2>3. inbox[e] # <<>> => First(e) \in Everything
    BY FirstOf DEF First, ExchangeTypes
  <2> QED BY <2>1, <2>2, <2>3, WantedMatches DEF Holds
<1> QED BY <1>1, ExchangeIsOrderly, PTL DEF GivesUpEmptyHanded
=============================================================================
