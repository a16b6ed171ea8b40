--------------------------- MODULE UavThreadsProofs ---------------------------
(***************************************************************************)
(* Theorems about UavThreads, for any number of events: no handler runs on *)
(* an action that was destroyed; none is destroyed while a pointer to it   *)
(* is left; none is left over when the calls have returned; and calls that *)
(* come one after the other leave the tasks as the current action needs.   *)
(***************************************************************************)
EXTENDS UavThreads, SequenceTheorems, TLAPS

(* Every shared pointer keeps what it points to alive, and the handler's   *)
(* parameter is one.  Nothing is said of todo: whatever steps a thread has *)
(* to do, and in whatever order, they cannot lose an action in use.        *)
PointersKeep ==
    /\ action \in alive \cup {None}
    /\ lock \in [Threads -> alive \cup {None}]
    /\ local \in [Threads -> alive \cup {None}]
    /\ notified = lock
-----------------------------------------------------------------------------
(* What still has a pointer survives a pointer's end.                      *)
LEMMA CollectedKeeps ==
  ASSUME Collected, action' \in alive \cup {None},
         lock' \in [Threads -> alive \cup {None}],
         local' \in [Threads -> alive \cup {None}]
  PROVE  /\ action' \in alive' \cup {None}
         /\ lock' \in [Threads -> alive' \cup {None}]
         /\ local' \in [Threads -> alive' \cup {None}]
<1>1. action' \in alive' \cup {None}
  BY DEF Collected
<1>2. \A t \in Threads : /\ lock'[t] \in alive' \cup {None}
                         /\ local'[t] \in alive' \cup {None}
  BY DEF Collected
<1> QED BY <1>1, <1>2

(* A pointer that is set to what is alive, or to nothing, is one again.    *)
LEMMA PointerIsSet ==
  ASSUME NEW S, NEW f \in [Threads -> S], NEW t \in Threads, NEW v \in S
  PROVE  [f EXCEPT ![t] = v] \in [Threads -> S]
OBVIOUS

LEMMA EntersKeeps ==
  ASSUME PointersKeep,
         PushUserUavEvent \/ OnDataReceived \/ OnError \/ OnTimeout
  PROVE  PointersKeep'
<1>1. CASE PushUserUavEvent
  <2>1. PICK s : Notify("user", s) BY <1>1 DEF PushUserUavEvent
  <2>2. UNCHANGED <<alive, action, local>> BY <1>1 DEF PushUserUavEvent, memory
  <2>3. lock' \in [Threads -> alive \cup {None}]
    BY <2>1, PointerIsSet DEF Notify, PointersKeep, Threads
  <2> QED BY <2>1, <2>2, <2>3 DEF PointersKeep, Notify
<1>2. CASE OnDataReceived
  <2>1. PICK s : Notify("link", s) BY <1>2 DEF OnDataReceived
  <2>2. UNCHANGED <<alive, action, local>> BY <1>2 DEF OnDataReceived, memory
  <2>3. lock' \in [Threads -> alive \cup {None}]
    BY <2>1, PointerIsSet DEF Notify, PointersKeep, Threads
  <2> QED BY <2>1, <2>2, <2>3 DEF PointersKeep, Notify
<1>3. CASE OnError \/ OnTimeout
  BY <1>3 DEF OnError, OnTimeout, memory, held, PointersKeep
<1> QED BY <1>1, <1>2, <1>3

(* A new action comes with its first pointer.                              *)
LEMMA CreateKeeps ==
  ASSUME PointersKeep, NEW t \in Threads, Create(t)
  PROVE  PointersKeep'
<1>1. PICK o : alive' = alive \cup {o} /\ local' = [local EXCEPT ![t] = o]
  BY DEF Create
<1>2. local' \in [Threads -> alive' \cup {None}]
  BY <1>1 DEF PointersKeep
<1> QED BY <1>1, <1>2 DEF PointersKeep, Create

LEMMA SwapKeeps ==
  ASSUME PointersKeep, NEW t \in Threads, Swap(t)
  PROVE  PointersKeep'
<1>1. action' \in alive \cup {None}
  BY DEF PointersKeep, Swap
<1>2. local' \in [Threads -> alive \cup {None}]
  BY PointerIsSet DEF PointersKeep, Swap
<1> QED BY <1>1, <1>2 DEF PointersKeep, Swap

(* An action startAction refuses loses its pointer, and is not destroyed.  *)
LEMMA CheckKeeps ==
  ASSUME PointersKeep, NEW t \in Threads, Check(t)
  PROVE  PointersKeep'
<1>1. local' \in [Threads -> alive \cup {None}]
  BY PointerIsSet DEF PointersKeep, Check
<1> QED BY <1>1 DEF PointersKeep, Check

LEMMA LeaveKeeps ==
  ASSUME PointersKeep, NEW t \in Threads, Leave(t)
  PROVE  PointersKeep'
<1>1. lock' \in [Threads -> alive \cup {None}] /\ notified' = lock'
  BY PointerIsSet DEF PointersKeep, Leave
<1>2. local' \in [Threads -> alive \cup {None}]
  BY PointerIsSet DEF PointersKeep, Leave
<1>3. action' \in alive \cup {None} /\ Collected
  BY DEF PointersKeep, Leave
<1> QED BY <1>1, <1>2, <1>3, CollectedKeeps DEF PointersKeep

LEMMA StepKeeps ==
  ASSUME PointersKeep, NEW t \in Threads, Step(t)
  PROVE  PointersKeep'
<1>1. CASE \/ Enable(t) \/ DisableTask(t) \/ SetState(t) \/ Expect(t)
           \/ Disconnect(t) \/ Handle(t)
  BY <1>1 DEF Enable, DisableTask, SetState, Expect, Disconnect, Handle,
              memory, held, PointersKeep
<1> QED BY <1>1, CreateKeeps, CheckKeeps, SwapKeeps, LeaveKeeps DEF Step

LEMMA PointersKeepAlways == Spec => []PointersKeep
<1>1. Init => PointersKeep
  BY DEF Init, PointersKeep
<1>2. PointersKeep /\ [Next]_vars => PointersKeep'
  <2> SUFFICES ASSUME PointersKeep, [Next]_vars PROVE PointersKeep'
    OBVIOUS
  <2>1. CASE UNCHANGED vars
    BY <2>1 DEF vars, memory, held, PointersKeep
  <2>2. CASE Next
    BY <2>2, EntersKeeps, StepKeeps DEF Next
  <2> QED BY <2>1, <2>2
<1> QED BY <1>1, <1>2, PTL DEF Spec

(* The action a user event or a frame was handed to (MulticopterUav::      *)
(* notifyUserUavEvent and notifyReception) exists until its handler        *)
(* returns, however many threads' steps replace it meanwhile.              *)
THEOREM HandlersAlwaysRunOnLiveActions == Spec => []HandlersRunOnLiveActions
<1>1. PointersKeep => HandlersRunOnLiveActions
  BY DEF PointersKeep, HandlersRunOnLiveActions
<1> QED BY <1>1, PointersKeepAlways, PTL
-----------------------------------------------------------------------------
(***************************************************************************)
(* What a thread has still to do with its pointers.  Here it matters: an   *)
(* action is lost, or the current one replaced by nothing, if a thread     *)
(* creates another while it holds one, swaps or checks what it does not    *)
(* hold, or ends its call without letting go.  All of that is said of the  *)
(* order of the steps that remain (s), whether the thread holds an action  *)
(* of its own (holds) and whether it keeps one for its handler (locks).    *)
(***************************************************************************)
What(s, i) == s[i][1]

NoneBetween(s, what, i, j) == \A k \in DOMAIN s : i < k /\ k < j => What(s, k) # what

(* The next thing done to the pointer after step i is to drop it.          *)
Drops(s, i) == \E j \in DOMAIN s :
                  i < j /\ What(s, j) = "leave" /\ NoneBetween(s, "create", i, j)

(* At step i there is an action to be checked or swapped.                  *)
Has(s, holds, i) ==
    \/ holds /\ NoneBetween(s, "leave", 0, i)
    \/ \E j \in DOMAIN s : j < i /\ What(s, j) = "create" /\ NoneBetween(s, "leave", j, i)

Entries == {"user", "hear", "timeout"}

NoEntry(s) == \A i \in DOMAIN s : What(s, i) \notin Entries

Orderly(s, holds, locks) ==
    /\ holds => Drops(s, 0)
    /\ locks => \E j \in DOMAIN s : What(s, j) = "return"
    /\ \A i \in DOMAIN s :
         /\ What(s, i) = "create" => Drops(s, i)
         /\ What(s, i) \in {"check", "swap"} => Has(s, holds, i)
         /\ What(s, i) \in Entries => i = 1 /\ ~holds

IsSeq(s) == \E S : s \in Seq(S)

InOrder(t) == IsSeq(todo[t]) /\ Orderly(todo[t], local[t] # None, lock[t] # None)

PointersAreHeld ==
    /\ IsSeq(object) /\ todo = [t \in Threads |-> todo[t]]
    /\ action \in alive /\ None \notin alive /\ refused \subseteq alive
    /\ \A o \in alive : o = action \/ o \in refused \/ \E t \in Threads : o \in {local[t], lock[t]}
    /\ \A t \in Threads : InOrder(t)

(* Steps that leave the pointers alone, and whole pieces of a handler.     *)
Neutral(s) ==
    IsSeq(s) /\ \A i \in DOMAIN s :
        What(s, i) \in {"enable", "disable", "state", "expect", "answered", "disconnect", "end", "start"}

Whole(s) ==
    IsSeq(s) /\ Orderly(s, FALSE, FALSE) /\ NoEntry(s)
-----------------------------------------------------------------------------
LEMMA SeqFacts ==
  ASSUME NEW s, IsSeq(s)
  PROVE  /\ Len(s) \in Nat /\ DOMAIN s = 1..Len(s)
         /\ s # <<>> => /\ IsSeq(Tail(s)) /\ Len(s) > 0 /\ Len(Tail(s)) = Len(s) - 1
                        /\ Head(s) = s[1]
                        /\ \A i \in 1..(Len(s) - 1) : Tail(s)[i] = s[i + 1]
                        /\ DOMAIN Tail(s) = 1..(Len(s) - 1)
<1>1. PICK S : s \in Seq(S)
  BY DEF IsSeq
<1>2. Len(s) \in Nat /\ DOMAIN s = 1..Len(s)
  BY <1>1, LenProperties
<1>3. ASSUME s # <<>>
      PROVE  /\ IsSeq(Tail(s)) /\ Len(s) > 0 /\ Len(Tail(s)) = Len(s) - 1
             /\ Head(s) = s[1]
             /\ \A i \in 1..(Len(s) - 1) : Tail(s)[i] = s[i + 1]
             /\ DOMAIN Tail(s) = 1..(Len(s) - 1)
  <2>1. Len(s) > 0
    BY <1>1, <1>2, <1>3, EmptySeq
  <2>2. /\ Tail(s) \in Seq(S) /\ Len(Tail(s)) = Len(s) - 1
        /\ \A i \in 1..Len(Tail(s)) : Tail(s)[i] = s[i + 1]
    BY <1>1, <1>3, HeadTailProperties
  <2>3. DOMAIN Tail(s) = 1..(Len(s) - 1)
    BY <2>2, LenProperties
  <2> QED BY <1>1, <2>1, <2>2, <2>3 DEF IsSeq
<1> QED BY <1>2, <1>3

LEMMA ConcatFacts ==
  ASSUME NEW p, NEW s, IsSeq(p), IsSeq(s)
  PROVE  /\ IsSeq(p \o s) /\ DOMAIN (p \o s) = 1..(Len(p) + Len(s))
         /\ \A i \in 1..Len(p) : What(p \o s, i) = What(p, i)
         /\ \A i \in (Len(p) + 1)..(Len(p) + Len(s)) : What(p \o s, i) = What(s, i - Len(p))
         /\ \A i \in 1..Len(s) : What(p \o s, Len(p) + i) = What(s, i)
<1>1. PICK S, T : p \in Seq(S) /\ s \in Seq(T)
  BY DEF IsSeq
<1>2. p \in Seq(S \cup T) /\ s \in Seq(S \cup T)
  BY <1>1, SeqMonotonic
<1>3. /\ p \o s \in Seq(S \cup T) /\ Len(p \o s) = Len(p) + Len(s)
      /\ \A i \in 1..(Len(p) + Len(s)) : (p \o s)[i] = IF i <= Len(p) THEN p[i] ELSE s[i - Len(p)]
  BY <1>2, ConcatProperties
<1>4. DOMAIN (p \o s) = 1..(Len(p) + Len(s))
  BY <1>3, LenProperties
<1>5. Len(p) \in Nat /\ Len(s) \in Nat
  BY SeqFacts
<1>6. \A i \in 1..Len(p) : What(p \o s, i) = What(p, i)
  BY <1>3, <1>5 DEF What
<1>7. \A i \in (Len(p) + 1)..(Len(p) + Len(s)) : What(p \o s, i) = What(s, i - Len(p))
  BY <1>3, <1>5 DEF What
<1>8. \A i \in 1..Len(s) : What(p \o s, Len(p) + i) = What(s, i)
  BY <1>5, <1>7
<1> QED BY <1>3, <1>4, <1>6, <1>7, <1>8 DEF IsSeq

(* Taking the first step away.                                             *)
LEMMA BetweenTail ==
  ASSUME NEW s, IsSeq(s), s # <<>>, NEW what, NEW i \in Nat, NEW j \in Nat,
         NoneBetween(s, what, i + 1, j + 1)
  PROVE  NoneBetween(Tail(s), what, i, j)
<1> SUFFICES ASSUME NEW k \in DOMAIN Tail(s), i < k, k < j PROVE What(Tail(s), k) # what
  BY DEF NoneBetween
<1>1. k \in 1..(Len(s) - 1) /\ Tail(s)[k] = s[k + 1] /\ k + 1 \in DOMAIN s
  BY SeqFacts
<1>2. What(s, k + 1) # what
  BY <1>1 DEF NoneBetween
<1> QED BY <1>1, <1>2 DEF What

LEMMA DropsTail ==
  ASSUME NEW s, IsSeq(s), s # <<>>, NEW i \in Nat, Drops(s, i + 1)
  PROVE  Drops(Tail(s), i)
<1>1. PICK j \in DOMAIN s : i + 1 < j /\ What(s, j) = "leave" /\ NoneBetween(s, "create", i + 1, j)
  BY DEF Drops
<1>2. j - 1 \in DOMAIN Tail(s) /\ j - 1 \in Nat /\ i < j - 1 /\ (j - 1) + 1 = j /\ Tail(s)[j - 1] = s[j]
  BY <1>1, SeqFacts
<1>3. NoneBetween(Tail(s), "create", i, j - 1)
  BY <1>1, <1>2, BetweenTail
<1> QED BY <1>1, <1>2, <1>3 DEF Drops, What

LEMMA HasTail ==
  ASSUME NEW s, IsSeq(s), s # <<>>, NEW i \in Nat \ {0}, NEW holds \in BOOLEAN,
         Has(s, holds, i + 1)
  PROVE  Has(Tail(s), What(s, 1) = "create" \/ (holds /\ What(s, 1) # "leave"), i)
<1> DEFINE h == What(s, 1) = "create" \/ (holds /\ What(s, 1) # "leave")
<1>0. 1 \in DOMAIN s
  BY SeqFacts
<1>1. CASE holds /\ NoneBetween(s, "leave", 0, i + 1)
  <2>1. What(s, 1) # "leave"
    BY <1>0, <1>1 DEF NoneBetween
  <2>2. NoneBetween(s, "leave", 0 + 1, i + 1)
    BY <1>1, SeqFacts DEF NoneBetween
  <2>3. NoneBetween(Tail(s), "leave", 0, i)
    BY <2>2, BetweenTail
  <2> QED BY <1>1, <2>1, <2>3 DEF Has
<1>2. ASSUME NEW j \in DOMAIN s, j < i + 1, What(s, j) = "create", NoneBetween(s, "leave", j, i + 1)
      PROVE  Has(Tail(s), h, i)
  <2>1. CASE j = 1
    <3>1. NoneBetween(Tail(s), "leave", 0, i)
      BY <1>2, <2>1, BetweenTail, 0 + 1 = 1
    <3> QED BY <1>2, <2>1, <3>1 DEF Has
  <2>2. CASE j # 1
    <3>1. j - 1 \in DOMAIN Tail(s) /\ j - 1 \in Nat /\ j - 1 < i /\ (j - 1) + 1 = j /\ Tail(s)[j - 1] = s[j]
      BY <1>2, <2>2, SeqFacts
    <3>2. NoneBetween(Tail(s), "leave", j - 1, i)
      BY <1>2, <3>1, BetweenTail
    <3> QED BY <1>2, <3>1, <3>2 DEF Has, What
  <2> QED BY <2>1, <2>2
<1> QED BY <1>1, <1>2 DEF Has

LEMMA OrderlyTail ==
  ASSUME NEW s, IsSeq(s), s # <<>>, NEW holds \in BOOLEAN, NEW locks \in BOOLEAN,
         Orderly(s, holds, locks)
  PROVE  /\ IsSeq(Tail(s))
         /\ Orderly(Tail(s), What(s, 1) = "create" \/ (holds /\ What(s, 1) # "leave"),
                    locks /\ What(s, 1) # "return")
         /\ What(s, 1) = "create" => ~holds
         /\ What(s, 1) \in {"check", "swap"} => holds
         /\ What(s, 1) \in Entries => ~holds
         /\ NoEntry(Tail(s))
<1> DEFINE h == What(s, 1) = "create" \/ (holds /\ What(s, 1) # "leave")
           l == locks /\ What(s, 1) # "return"
<1>1. 1 \in DOMAIN s /\ IsSeq(Tail(s))
  BY SeqFacts
<1>2. What(s, 1) = "create" => ~holds
  <2> SUFFICES ASSUME What(s, 1) = "create", holds PROVE FALSE
    OBVIOUS
  <2>1. PICK j \in DOMAIN s : 0 < j /\ What(s, j) = "leave" /\ NoneBetween(s, "create", 0, j)
    BY DEF Orderly, Drops
  <2>2. 1 < j
    BY <2>1, SeqFacts
  <2> QED BY <1>1, <2>1, <2>2 DEF NoneBetween
<1>3. What(s, 1) \in {"check", "swap"} => holds
  BY <1>1, SeqFacts DEF Orderly, Has
<1>4. What(s, 1) \in Entries => ~holds
  BY <1>1 DEF Orderly
<1>5. h => Drops(Tail(s), 0)
  <2>1. CASE What(s, 1) = "create"
    BY <1>1, <2>1, DropsTail, 0 + 1 = 1 DEF Orderly
  <2>2. CASE holds /\ What(s, 1) # "leave"
    <3>1. PICK j \in DOMAIN s : 0 < j /\ What(s, j) = "leave" /\ NoneBetween(s, "create", 0, j)
      BY <2>2 DEF Orderly, Drops
    <3>2. Drops(s, 0 + 1)
      BY <2>2, <3>1, SeqFacts DEF Drops, NoneBetween
    <3> QED BY <3>2, DropsTail
  <2> QED BY <2>1, <2>2
<1>6. l => \E j \in DOMAIN Tail(s) : What(Tail(s), j) = "return"
  <2> SUFFICES ASSUME l PROVE \E j \in DOMAIN Tail(s) : What(Tail(s), j) = "return"
    OBVIOUS
  <2>1. PICK j \in DOMAIN s : What(s, j) = "return"
    BY DEF Orderly
  <2>2. j - 1 \in DOMAIN Tail(s) /\ Tail(s)[j - 1] = s[j]
    BY <2>1, SeqFacts
  <2> QED BY <2>1, <2>2 DEF What
<1>7. ASSUME NEW i \in DOMAIN Tail(s)
      PROVE  /\ What(Tail(s), i) = "create" => Drops(Tail(s), i)
             /\ What(Tail(s), i) \in {"check", "swap"} => Has(Tail(s), h, i)
             /\ What(Tail(s), i) \notin Entries
  <2>1. i \in Nat \ {0} /\ i + 1 \in DOMAIN s /\ What(Tail(s), i) = What(s, i + 1) /\ i + 1 # 1
    BY SeqFacts DEF What
  <2>2. /\ What(s, i + 1) = "create" => Drops(s, i + 1)
        /\ What(s, i + 1) \in {"check", "swap"} => Has(s, holds, i + 1)
        /\ What(s, i + 1) \notin Entries
    BY <2>1 DEF Orderly
  <2> QED BY <2>1, <2>2, DropsTail, HasTail
<1> HIDE DEF h, l
<1>8. Orderly(Tail(s), h, l)
  BY <1>5, <1>6, <1>7 DEF Orderly
<1>9. NoEntry(Tail(s))
  BY <1>7 DEF NoEntry
<1> QED BY <1>1, <1>2, <1>3, <1>4, <1>8, <1>9 DEF h, l
-----------------------------------------------------------------------------
(***************************************************************************)
(* A piece of a handler put before the steps that remain.                  *)
(***************************************************************************)
LEMMA BetweenLeft ==
  ASSUME NEW p, NEW r, IsSeq(p), IsSeq(r), NEW what, NEW i \in Nat, NEW j \in 1..Len(p),
         NoneBetween(p, what, i, j)
  PROVE  NoneBetween(p \o r, what, i, j)
<1> SUFFICES ASSUME NEW k \in DOMAIN (p \o r), i < k, k < j PROVE What(p \o r, k) # what
  BY DEF NoneBetween
<1>1. k \in 1..Len(p) /\ k \in DOMAIN p
  BY ConcatFacts, SeqFacts
<1> QED BY <1>1, ConcatFacts DEF NoneBetween

LEMMA BetweenRight ==
  ASSUME NEW p, NEW r, IsSeq(p), IsSeq(r), NEW what, NEW i \in Nat, NEW j \in 1..Len(r),
         NoneBetween(r, what, i, j)
  PROVE  NoneBetween(p \o r, what, Len(p) + i, Len(p) + j)
<1> SUFFICES ASSUME NEW k \in DOMAIN (p \o r), Len(p) + i < k, k < Len(p) + j
             PROVE What(p \o r, k) # what
  BY DEF NoneBetween
<1>1. Len(p) \in Nat /\ Len(r) \in Nat /\ DOMAIN r = 1..Len(r)
  BY SeqFacts
<1>2. k \in (Len(p) + 1)..(Len(p) + Len(r)) /\ k - Len(p) \in DOMAIN r
      /\ i < k - Len(p) /\ k - Len(p) < j
  BY <1>1, ConcatFacts
<1>3. What(r, k - Len(p)) # what
  BY <1>2 DEF NoneBetween
<1> QED BY <1>2, <1>3, ConcatFacts

LEMMA BetweenAll ==
  ASSUME NEW p, NEW r, IsSeq(p), IsSeq(r), NEW what, NEW j \in 1..Len(r),
         NoneBetween(r, what, 0, j), \A k \in DOMAIN p : What(p, k) # what
  PROVE  NoneBetween(p \o r, what, 0, Len(p) + j)
<1> SUFFICES ASSUME NEW k \in DOMAIN (p \o r), 0 < k, k < Len(p) + j
             PROVE What(p \o r, k) # what
  BY DEF NoneBetween
<1>1. Len(p) \in Nat /\ DOMAIN p = 1..Len(p)
  BY SeqFacts
<1>2. CASE k \in 1..Len(p)
  BY <1>1, <1>2, ConcatFacts
<1>3. CASE k \notin 1..Len(p)
  <2>1. NoneBetween(p \o r, what, Len(p) + 0, Len(p) + j)
    BY BetweenRight
  <2>2. Len(p) + 0 < k
    BY <1>1, <1>3, ConcatFacts
  <2> QED BY <2>1, <2>2 DEF NoneBetween
<1> QED BY <1>2, <1>3

LEMMA DropsLeft ==
  ASSUME NEW p, NEW r, IsSeq(p), IsSeq(r), NEW i \in Nat, Drops(p, i)
  PROVE  Drops(p \o r, i)
<1>1. PICK j \in DOMAIN p : i < j /\ What(p, j) = "leave" /\ NoneBetween(p, "create", i, j)
  BY DEF Drops
<1>2. j \in 1..Len(p) /\ j \in DOMAIN (p \o r)
  BY ConcatFacts, SeqFacts
<1>3. What(p \o r, j) = "leave" /\ NoneBetween(p \o r, "create", i, j)
  BY <1>1, <1>2, ConcatFacts, BetweenLeft
<1> QED BY <1>1, <1>2, <1>3 DEF Drops

LEMMA DropsRight ==
  ASSUME NEW p, NEW r, IsSeq(p), IsSeq(r), NEW i \in Nat, Drops(r, i)
  PROVE  Drops(p \o r, Len(p) + i)
<1>1. PICK j \in DOMAIN r : i < j /\ What(r, j) = "leave" /\ NoneBetween(r, "create", i, j)
  BY DEF Drops
<1>0. Len(p) \in Nat /\ Len(r) \in Nat /\ DOMAIN r = 1..Len(r)
      /\ DOMAIN (p \o r) = 1..(Len(p) + Len(r))
  BY ConcatFacts, SeqFacts
<1>2. j \in 1..Len(r) /\ Len(p) + j \in DOMAIN (p \o r) /\ Len(p) + i < Len(p) + j
  BY <1>0, <1>1
<1>3. What(p \o r, Len(p) + j) = "leave" /\ NoneBetween(p \o r, "create", Len(p) + i, Len(p) + j)
  BY <1>1, <1>2, ConcatFacts, BetweenRight
<1> QED BY <1>2, <1>3 DEF Drops

LEMMA HasLeft ==
  ASSUME NEW p, NEW r, IsSeq(p), IsSeq(r), NEW i \in 1..Len(p), NEW h, Has(p, FALSE, i)
  PROVE  Has(p \o r, h, i)
<1>1. PICK j \in DOMAIN p : j < i /\ What(p, j) = "create" /\ NoneBetween(p, "leave", j, i)
  BY DEF Has
<1>2. j \in 1..Len(p) /\ j \in Nat /\ j \in DOMAIN (p \o r)
  BY ConcatFacts, SeqFacts
<1>3. What(p \o r, j) = "create" /\ NoneBetween(p \o r, "leave", j, i)
  BY <1>1, <1>2, ConcatFacts, BetweenLeft
<1> QED BY <1>1, <1>2, <1>3 DEF Has

LEMMA HasRight ==
  ASSUME NEW p, NEW r, IsSeq(p), IsSeq(r), NEW i \in 1..Len(r), NEW h, Has(r, h, i),
         h => \A k \in DOMAIN p : What(p, k) # "leave"
  PROVE  Has(p \o r, h, Len(p) + i)
<1>1. CASE h /\ NoneBetween(r, "leave", 0, i)
  BY <1>1, BetweenAll DEF Has
<1>2. ASSUME NEW j \in DOMAIN r, j < i, What(r, j) = "create", NoneBetween(r, "leave", j, i)
      PROVE  Has(p \o r, h, Len(p) + i)
  <2>1. j \in 1..Len(r) /\ j \in Nat /\ Len(p) + j \in DOMAIN (p \o r) /\ Len(p) + j < Len(p) + i
    BY <1>2, ConcatFacts, SeqFacts
  <2>2. What(p \o r, Len(p) + j) = "create" /\ NoneBetween(p \o r, "leave", Len(p) + j, Len(p) + i)
    BY <1>2, <2>1, ConcatFacts, BetweenRight
  <2> QED BY <2>1, <2>2 DEF Has
<1> QED BY <1>1, <1>2 DEF Has

LEMMA NeutralIsWhole ==
  ASSUME NEW p, Neutral(p)
  PROVE  Whole(p) /\ \A k \in DOMAIN p : What(p, k) \notin {"create", "leave"}
BY DEF Neutral, Whole, Orderly, NoEntry, Entries

LEMMA Follows ==
  ASSUME NEW p, NEW r, IsSeq(r), NoEntry(r), NEW h \in BOOLEAN, NEW l \in BOOLEAN,
         Orderly(r, h, l), Neutral(p) \/ (Whole(p) /\ ~h)
  PROVE  IsSeq(p \o r) /\ Orderly(p \o r, h, l) /\ NoEntry(p \o r)
<1>1. Whole(p) /\ IsSeq(p) /\ (h => Neutral(p))
  BY NeutralIsWhole DEF Whole
<1>2. /\ IsSeq(p \o r) /\ Len(p) \in Nat /\ Len(r) \in Nat
      /\ DOMAIN p = 1..Len(p) /\ DOMAIN r = 1..Len(r)
      /\ DOMAIN (p \o r) = 1..(Len(p) + Len(r))
  BY <1>1, ConcatFacts, SeqFacts
<1>3. h => Drops(p \o r, 0)
  <2> SUFFICES ASSUME h PROVE Drops(p \o r, 0)
    OBVIOUS
  <2>1. PICK j \in DOMAIN r : 0 < j /\ What(r, j) = "leave" /\ NoneBetween(r, "create", 0, j)
    BY DEF Orderly, Drops
  <2>2. NoneBetween(p \o r, "create", 0, Len(p) + j)
    BY <1>1, <1>2, <2>1, BetweenAll, NeutralIsWhole
  <2>3. What(p \o r, Len(p) + j) = "leave" /\ Len(p) + j \in DOMAIN (p \o r) /\ 0 < Len(p) + j
    BY <1>1, <1>2, <2>1, ConcatFacts
  <2> QED BY <2>2, <2>3 DEF Drops
<1>4. l => \E j \in DOMAIN (p \o r) : What(p \o r, j) = "return"
  <2> SUFFICES ASSUME l PROVE \E j \in DOMAIN (p \o r) : What(p \o r, j) = "return"
    OBVIOUS
  <2>1. PICK j \in DOMAIN r : What(r, j) = "return"
    BY DEF Orderly
  <2>2. Len(p) + j \in DOMAIN (p \o r) /\ What(p \o r, Len(p) + j) = "return"
    BY <1>1, <1>2, <2>1, ConcatFacts
  <2> QED BY <2>2
<1>5. ASSUME NEW i \in DOMAIN (p \o r)
      PROVE  /\ What(p \o r, i) = "create" => Drops(p \o r, i)
             /\ What(p \o r, i) \in {"check", "swap"} => Has(p \o r, h, i)
             /\ What(p \o r, i) \notin Entries
  <2>1. CASE i \in 1..Len(p)
    <3>1. What(p \o r, i) = What(p, i) /\ i \in DOMAIN p /\ i \in Nat
      BY <1>1, <1>2, <2>1, ConcatFacts
    <3>2. /\ What(p, i) = "create" => Drops(p, i)
          /\ What(p, i) \in {"check", "swap"} => Has(p, FALSE, i)
          /\ What(p, i) \notin Entries
      BY <1>1, <3>1 DEF Whole, Orderly, NoEntry
    <3> QED BY <1>1, <2>1, <3>1, <3>2, DropsLeft, HasLeft
  <2>2. CASE i \notin 1..Len(p)
    <3> DEFINE j == i - Len(p)
    <3>1. j \in 1..Len(r) /\ j \in Nat /\ j \in DOMAIN r /\ i = Len(p) + j
      BY <1>2, <2>2
    <3> HIDE DEF j
    <3>2. What(p \o r, i) = What(r, j)
      BY <1>1, <3>1, ConcatFacts
    <3>3. /\ What(r, j) = "create" => Drops(r, j)
          /\ What(r, j) \in {"check", "swap"} => Has(r, h, j)
          /\ What(r, j) \notin Entries
      BY <3>1 DEF Orderly, NoEntry
    <3>4. What(r, j) = "create" => Drops(p \o r, i)
      BY <1>1, <3>1, <3>3, DropsRight
    <3>5. h => \A k \in DOMAIN p : What(p, k) # "leave"
      BY <1>1, NeutralIsWhole
    <3>6. What(r, j) \in {"check", "swap"} => Has(p \o r, h, i)
      BY <1>1, <3>1, <3>3, <3>5, HasRight
    <3> QED BY <3>2, <3>3, <3>4, <3>6
  <2> QED BY <2>1, <2>2
<1> QED BY <1>2, <1>3, <1>4, <1>5 DEF Orderly, NoEntry

(* Pieces one after the other.                                             *)
LEMMA WholeFollows ==
  ASSUME NEW p, NEW r, Whole(p), Whole(r)
  PROVE  Whole(p \o r)
BY Follows DEF Whole
-----------------------------------------------------------------------------
(***************************************************************************)
(* What handlers do is orderly.                                            *)
(***************************************************************************)
LEMMA NothingIsNeutral == IsSeq(<<>>) /\ Neutral(<<>>) /\ Whole(<<>>)
<1>1. IsSeq(<<>>)
  BY <<>> \in Seq({}) DEF IsSeq
<1> QED BY <1>1 DEF Neutral, Whole, Orderly, NoEntry

LEMMA DisableIsNeutral ==
  ASSUME NEW o, NEW names, IsSeq(names)
  PROVE  Neutral(Disable(o, names))
<1>1. Len(names) \in Nat
  BY SeqFacts
<1>2. Disable(o, names) \in Seq({Disable(o, names)[i] : i \in 1..Len(names)})
  BY <1>1, IsASeq DEF Disable
<1> QED BY <1>1, <1>2 DEF Neutral, IsSeq, What, Disable

LEMMA TupleIsSeq ==
  ASSUME NEW a, NEW b, NEW c, NEW d, NEW e, NEW f
  PROVE  /\ IsSeq(<<a>>) /\ IsSeq(<<a, b>>) /\ IsSeq(<<a, b, c>>)
         /\ IsSeq(<<a, b, c, d>>) /\ IsSeq(<<a, b, c, d, e, f>>)
<1>1. <<a>> \in Seq({a}) /\ <<a, b>> \in Seq({a, b}) /\ <<a, b, c>> \in Seq({a, b, c})
  OBVIOUS
<1>2. <<a, b, c, d>> \in Seq({a, b, c, d})
  OBVIOUS
<1>3. <<a, b, c, d, e, f>> \in Seq({a, b, c, d, e, f})
  OBVIOUS
<1> QED BY <1>1, <1>2, <1>3 DEF IsSeq

LEMMA StartsIsWhole ==
  ASSUME NEW class
  PROVE  Whole(Starts(class))
<1> DEFINE s == Starts(class)
<1>1. IsSeq(s)
  BY TupleIsSeq DEF Starts
<1>2. /\ DOMAIN s = 1..6
      /\ What(s, 1) = "create" /\ What(s, 2) = "check" /\ What(s, 3) = "end"
      /\ What(s, 4) = "swap" /\ What(s, 5) = "start" /\ What(s, 6) = "leave"
  BY DEF Starts, What
<1> HIDE DEF s
<1>3. Drops(s, 1) /\ Has(s, FALSE, 2) /\ Has(s, FALSE, 4)
  BY <1>2 DEF Drops, Has, NoneBetween
<1>4. ASSUME NEW i \in DOMAIN s
      PROVE  /\ What(s, i) = "create" => i = 1
             /\ What(s, i) \in {"check", "swap"} => i = 2 \/ i = 4
             /\ What(s, i) \notin Entries
  <2>1. i = 1 \/ i = 2 \/ i = 3 \/ i = 4 \/ i = 5 \/ i = 6
    BY <1>2
  <2> QED BY <1>2, <2>1 DEF Entries
<1>5. Orderly(s, FALSE, FALSE) /\ NoEntry(s)
  BY <1>3, <1>4 DEF Orderly, NoEntry
<1> QED BY <1>1, <1>5 DEF Whole, s

LEMMA HandleErrorIsWhole == Whole(HandleError)
<1> DEFINE s == <<<<"disconnect", None, None>>, <<"create", None, "IDLE_ACTION">>,
                  <<"swap", None, None>>, <<"leave", None, None>>>>
<1>1. IsSeq(s)
  BY TupleIsSeq
<1>2. /\ DOMAIN s = 1..4
      /\ What(s, 1) = "disconnect" /\ What(s, 2) = "create" /\ What(s, 3) = "swap"
      /\ What(s, 4) = "leave"
  BY DEF What
<1>3. Whole(Disable(None, <<"ping", "connection">>))
  BY DisableIsNeutral, NeutralIsWhole, TupleIsSeq
<1>4. HandleError = Disable(None, <<"ping", "connection">>) \o s
  BY DEF HandleError
<1> HIDE DEF s
<1>5. Drops(s, 2) /\ Has(s, FALSE, 3)
  BY <1>2 DEF Drops, Has, NoneBetween
<1>6. ASSUME NEW i \in DOMAIN s
      PROVE  /\ What(s, i) = "create" => i = 2
             /\ What(s, i) \in {"check", "swap"} => i = 3
             /\ What(s, i) \notin Entries
  <2>1. i = 1 \/ i = 2 \/ i = 3 \/ i = 4
    BY <1>2
  <2> QED BY <1>2, <2>1 DEF Entries
<1>7. Orderly(s, FALSE, FALSE) /\ NoEntry(s)
  BY <1>5, <1>6 DEF Orderly, NoEntry
<1>8. Whole(s)
  BY <1>1, <1>7 DEF Whole
<1> QED BY <1>3, <1>4, <1>8, WholeFollows

(* One step that leaves the pointers alone.                                *)
LEMMA StepIsNeutral ==
  ASSUME NEW o, NEW how,
         NEW what \in {"enable", "disable", "state", "expect", "answered", "disconnect"}
  PROVE  Neutral(<<<<what, o, how>>>>) /\ Whole(<<<<what, o, how>>>>)
<1>1. Neutral(<<<<what, o, how>>>>)
  <2> DEFINE s == <<<<what, o, how>>>>
  <2>0. IsSeq(s)
    BY TupleIsSeq
  <2>1. DOMAIN s = 1..1 /\ What(s, 1) = what
    BY DEF What
  <2> HIDE DEF s
  <2>2. \A i \in DOMAIN s : What(s, i) = what
    BY <2>1
  <2>3. Neutral(s)
    BY <2>0, <2>2 DEF Neutral
  <2> QED BY <2>3 DEF s
<1> QED BY <1>1, NeutralIsWhole

LEMMA FlightEndedIsWhole ==
  ASSUME NEW o
  PROVE  Whole(FlightEnded(o))
<1>1. Whole(Disable(o, <<"ping">>))
  BY DisableIsNeutral, NeutralIsWhole, TupleIsSeq
<1>2. Whole(<<<<"state", o, "IDLE">>>> \o Starts("APP"))
  BY StepIsNeutral, StartsIsWhole, WholeFollows
<1>3. Whole(Disable(o, <<"ping">>) \o (<<<<"state", o, "IDLE">>>> \o Starts("APP")))
  BY <1>1, <1>2, WholeFollows
<1>4. Whole(Disable(o, <<"ping">>) \o <<<<"state", o, "IDLE">>>>)
  BY <1>1, StepIsNeutral, WholeFollows
<1> QED BY <1>4, StartsIsWhole, WholeFollows DEF FlightEnded

LEMMA HandledIsWhole ==
  ASSUME NEW o, NEW event
  PROVE  Whole(Handled(o, event))
<1>1. Whole(Disable(o, <<"ping", "connection">>) \o <<<<"state", o, "BREAKING">>>>)
  BY DisableIsNeutral, NeutralIsWhole, TupleIsSeq, StepIsNeutral, WholeFollows
<1>2. Whole(<<<<"state", o, "BREAKING">>>> \o Disable(o, <<"connection">>)
            \o <<<<"expect", o, None>>>>)
  <2>1. Whole(<<<<"state", o, "BREAKING">>>> \o Disable(o, <<"connection">>))
    BY DisableIsNeutral, NeutralIsWhole, TupleIsSeq, StepIsNeutral, WholeFollows
  <2> QED BY <2>1, StepIsNeutral, WholeFollows
<1>3. Whole(Starts("SENSORS_LOGGER")) /\ Whole(<<>>)
  BY StartsIsWhole, NothingIsNeutral
<1> QED BY <1>1, <1>2, <1>3 DEF Handled

LEMMA HeardIsWhole ==
  ASSUME NEW o, NEW frame
  PROVE  Whole(Heard(o, frame))
<1> DEFINE answer ==
       CASE frame = "LOGGER_ACK" /\ In(o, "SENSORS_LOGGER", {"INITIAL_COMMAND"}) ->
                    <<<<"state", o, "LOGGING">>>>
         [] frame = "LOGGER_BREAK_ACK" /\ In(o, "SENSORS_LOGGER", {"BREAKING"}) ->
                    <<<<"state", o, "IDLE">>>> \o Starts("APP")
         [] OTHER -> HandleError
<1>1. Whole(HandleError) /\ Whole(<<>>) /\ Whole(FlightEnded(o))
  BY HandleErrorIsWhole, NothingIsNeutral, FlightEndedIsWhole
<1>2. Whole(<<<<"state", o, "LOGGING">>>>) /\ Whole(<<<<"state", o, "IDLE">>>> \o Starts("APP"))
  BY StepIsNeutral, StartsIsWhole, WholeFollows
<1>3. Whole(answer)
  BY <1>1, <1>2
<1>4. Whole(<<<<"answered", o, None>>>> \o answer)
  <2> HIDE DEF answer
  <2> QED BY <1>3, StepIsNeutral, WholeFollows
<1>5. Heard(o, frame) \in {HandleError, <<>>, FlightEnded(o), <<<<"answered", o, None>>>> \o answer}
  BY DEF Heard
<1> HIDE DEF answer
<1> QED BY <1>1, <1>4, <1>5

LEMMA StartOfIsNeutral ==
  ASSUME NEW o
  PROVE  Neutral(StartOf(o)) /\ Neutral(EndOf(o))
<1>1. Neutral(<<<<"state", o, "APP_LOOP">>, <<"enable", o, "ping">>, <<"enable", o, "connection">>>>)
  <2> DEFINE s == <<<<"state", o, "APP_LOOP">>, <<"enable", o, "ping">>, <<"enable", o, "connection">>>>
  <2>0. IsSeq(s)
    BY TupleIsSeq
  <2>1. /\ DOMAIN s = 1..3
        /\ What(s, 1) = "state" /\ What(s, 2) = "enable" /\ What(s, 3) = "enable"
    BY DEF What
  <2> HIDE DEF s
  <2>2. \A i \in DOMAIN s : What(s, i) \in {"enable", "state", "expect"}
    BY <2>1
  <2>3. Neutral(s)
    BY <2>0, <2>2 DEF Neutral
  <2> QED BY <2>3 DEF s
<1>2. Neutral(<<<<"enable", o, "connection">>, <<"state", o, "INITIAL_COMMAND">>, <<"expect", o, None>>>>)
  <2> DEFINE s == <<<<"enable", o, "connection">>, <<"state", o, "INITIAL_COMMAND">>, <<"expect", o, None>>>>
  <2>0. IsSeq(s)
    BY TupleIsSeq
  <2>1. /\ DOMAIN s = 1..3
        /\ What(s, 1) = "enable" /\ What(s, 2) = "state" /\ What(s, 3) = "expect"
    BY DEF What
  <2> HIDE DEF s
  <2>2. \A i \in DOMAIN s : What(s, i) \in {"enable", "state", "expect"}
    BY <2>1
  <2>3. Neutral(s)
    BY <2>0, <2>2 DEF Neutral
  <2> QED BY <2>3 DEF s
<1>3. Neutral(<<>>) /\ Neutral(Disable(o, <<"ping", "connection">>))
  BY DisableIsNeutral, TupleIsSeq, NothingIsNeutral
<1> QED BY <1>1, <1>2, <1>3 DEF StartOf, EndOf
-----------------------------------------------------------------------------
(***************************************************************************)
(* The steps of the threads.                                               *)
(***************************************************************************)
LEMMA IdleHoldsNothing ==
  ASSUME NEW t \in Threads, InOrder(t), Idle(t)
  PROVE  local[t] = None /\ lock[t] = None
<1>1. DOMAIN todo[t] = {}
  BY SeqFacts DEF Idle, InOrder
<1> QED BY <1>1 DEF InOrder, Orderly, Drops

(* A call that begins: with its event, its frame or its timeout.           *)
LEMMA CallIsOrderly ==
  ASSUME NEW o, NEW how, NEW what \in Entries, NEW l \in BOOLEAN
  PROVE  /\ IsSeq(<<<<what, o, how>>, <<"return", None, None>>>>)
         /\ Orderly(<<<<what, o, how>>, <<"return", None, None>>>>, FALSE, l)
         /\ IsSeq(<<<<what, o, how>>>>) /\ Orderly(<<<<what, o, how>>>>, FALSE, FALSE)
<1>1. /\ IsSeq(<<<<what, o, how>>, <<"return", None, None>>>>)
      /\ Orderly(<<<<what, o, how>>, <<"return", None, None>>>>, FALSE, l)
  <2> DEFINE s == <<<<what, o, how>>, <<"return", None, None>>>>
  <2>1. IsSeq(s)
    BY TupleIsSeq
  <2>2. DOMAIN s = 1..2 /\ What(s, 1) = what /\ What(s, 2) = "return"
    BY DEF What
  <2> HIDE DEF s
  <2>3. \A i \in DOMAIN s : What(s, i) \notin {"create", "check", "swap"}
    BY <2>2 DEF Entries
  <2>4. \A i \in DOMAIN s : What(s, i) \in Entries => i = 1
    BY <2>2 DEF Entries
  <2>5. 2 \in DOMAIN s /\ \A i \in DOMAIN s : What(s, i) \in Entries => i = 1 /\ ~FALSE
    BY <2>2, <2>4
  <2>6. Orderly(s, FALSE, l)
    BY <2>2, <2>3, <2>5 DEF Orderly
  <2> QED BY <2>1, <2>6 DEF s
<1>2. IsSeq(<<<<what, o, how>>>>) /\ Orderly(<<<<what, o, how>>>>, FALSE, FALSE)
  <2> DEFINE s == <<<<what, o, how>>>>
  <2>1. IsSeq(s)
    BY TupleIsSeq
  <2>2. DOMAIN s = 1..1 /\ What(s, 1) = what
    BY DEF What
  <2> HIDE DEF s
  <2>3. \A i \in DOMAIN s : What(s, i) \notin {"create", "check", "swap"} /\ i = 1
    BY <2>2 DEF Entries
  <2>4. Orderly(s, FALSE, FALSE)
    BY <2>3 DEF Orderly
  <2> QED BY <2>1, <2>4 DEF s
<1> QED BY <1>1, <1>2

LEMMA ReturnIsOrderly ==
  ASSUME NEW l \in BOOLEAN
  PROVE  LET s == <<<<"return", None, None>>>> IN IsSeq(s) /\ Orderly(s, FALSE, l) /\ NoEntry(s)
<1> DEFINE s == <<<<"return", None, None>>>>
<1>1. IsSeq(s)
  BY TupleIsSeq
<1>2. DOMAIN s = 1..1 /\ What(s, 1) = "return"
  BY DEF What
<1> HIDE DEF s
<1>3. 1 \in DOMAIN s /\ \A i \in DOMAIN s : What(s, i) = "return"
  BY <1>2
<1>4. Orderly(s, FALSE, l) /\ NoEntry(s)
  BY <1>2, <1>3 DEF Orderly, NoEntry, Entries
<1> QED BY <1>1, <1>4 DEF s

(* The first step is done, and what follows from it comes before the rest. *)
LEMMA ThenIsOrderly ==
  ASSUME PointersAreHeld, NEW t \in Threads, ~Idle(t), NEW p, Then(t, p),
         Neutral(p) \/ (Whole(p) /\ local'[t] = None),
         (local'[t] # None) = (\/ What(todo[t], 1) = "create"
                               \/ local[t] # None /\ What(todo[t], 1) # "leave"),
         (lock'[t] # None) = (lock[t] # None /\ What(todo[t], 1) # "return"),
         \A u \in Threads : u # t => local'[u] = local[u] /\ lock'[u] = lock[u]
  PROVE  todo' = [u \in Threads |-> todo'[u]] /\ \A u \in Threads : InOrder(u)'
<1> DEFINE h == local[t] # None
           l == lock[t] # None
           s == todo[t]
<1>1. IsSeq(s) /\ s # <<>> /\ Orderly(s, h, l) /\ h \in BOOLEAN /\ l \in BOOLEAN
  BY DEF PointersAreHeld, InOrder, Idle
<1>2. todo' = [todo EXCEPT ![t] = p \o Tail(s)]
  BY DEF Then
<1>3. todo' = [u \in Threads |-> todo'[u]] /\ todo'[t] = p \o Tail(s)
      /\ \A u \in Threads : u # t => todo'[u] = todo[u]
  BY <1>2 DEF PointersAreHeld
<1> DEFINE h2 == What(s, 1) = "create" \/ (h /\ What(s, 1) # "leave")
           l2 == l /\ What(s, 1) # "return"
<1> HIDE DEF s, h, l
<1>4. IsSeq(Tail(s)) /\ Orderly(Tail(s), h2, l2) /\ NoEntry(Tail(s))
  BY <1>1, OrderlyTail
<1>5. h2 = (local'[t] # None) /\ l2 = (lock'[t] # None) /\ h2 \in BOOLEAN /\ l2 \in BOOLEAN
  BY DEF s, h, l
<1>6. Neutral(p) \/ (Whole(p) /\ ~h2)
  BY <1>5
<1> HIDE DEF h2, l2
<1>7. IsSeq(p \o Tail(s)) /\ Orderly(p \o Tail(s), h2, l2)
  BY <1>4, <1>5, <1>6, Follows
<1>8. InOrder(t)'
  BY <1>3, <1>5, <1>7 DEF InOrder
<1>9. \A u \in Threads : u # t => InOrder(u)'
  BY <1>3 DEF InOrder, PointersAreHeld
<1> QED BY <1>3, <1>8, <1>9

LEMMA EntersHolds ==
  ASSUME PointersAreHeld, PointersKeep,
         PushUserUavEvent \/ OnDataReceived \/ OnError \/ OnTimeout
  PROVE  PointersAreHeld'
<1> DEFINE Begins(t, s) ==
       /\ Idle(t) /\ todo' = [todo EXCEPT ![t] = s] /\ UNCHANGED <<memory, local>>
       /\ IsSeq(s) /\ Orderly(s, FALSE, lock'[t] # None)
       /\ \A u \in Threads : u # t => lock'[u] = lock[u]
<1>1. ASSUME NEW t \in Threads, NEW s, Begins(t, s)
      PROVE  PointersAreHeld'
  <2>1. local[t] = None /\ lock[t] = None
    BY <1>1, IdleHoldsNothing DEF PointersAreHeld
  <2>2. todo' = [u \in Threads |-> todo'[u]] /\ todo'[t] = s
        /\ \A u \in Threads : u # t => todo'[u] = todo[u]
    BY <1>1 DEF PointersAreHeld
  <2>3. InOrder(t)'
    BY <1>1, <2>1, <2>2 DEF InOrder
  <2>4. \A u \in Threads : u # t => InOrder(u)'
    BY <1>1, <2>2 DEF InOrder, PointersAreHeld
  <2>5. UNCHANGED <<object, alive, action, refused, local>>
    BY <1>1 DEF memory
  <2>6. \A u \in Threads : {local[u], lock[u]} \subseteq {None} \cup {local'[u], lock'[u]}
    BY <1>1, <2>1, <2>5
  <2>7. \A o \in alive : o = action \/ o \in refused \/ \E u \in Threads : o \in {local'[u], lock'[u]}
    BY <2>6 DEF PointersAreHeld
  <2> QED BY <2>2, <2>3, <2>4, <2>5, <2>7 DEF PointersAreHeld
<1>2. CASE PushUserUavEvent
  <2>1. PICK e \in UserEvents : Notify("user", <<<<"user", action, e>>, <<"return", None, None>>>>)
    BY <1>2 DEF PushUserUavEvent
  <2>2. \A u \in Threads : u # "user" => lock'[u] = lock[u]
    BY <2>1 DEF Notify, PointersKeep
  <2>3. Begins("user", <<<<"user", action, e>>, <<"return", None, None>>>>)
    BY <1>2, <2>1, <2>2, CallIsOrderly DEF PushUserUavEvent, Enters, Notify, Entries
  <2> QED BY <1>1, <2>3 DEF Threads
<1>3. CASE OnDataReceived
  <2>1. PICK f \in Frames : Notify("link", <<<<"hear", action, f>>, <<"return", None, None>>>>)
    BY <1>3 DEF OnDataReceived
  <2>2. \A u \in Threads : u # "link" => lock'[u] = lock[u]
    BY <2>1 DEF Notify, PointersKeep
  <2>3. Begins("link", <<<<"hear", action, f>>, <<"return", None, None>>>>)
    BY <1>3, <2>1, <2>2, CallIsOrderly DEF OnDataReceived, Enters, Notify, Entries
  <2> QED BY <1>1, <2>3 DEF Threads
<1>4. CASE OnError
  <2>1. lock'["link"] = None /\ \A u \in Threads : lock'[u] = lock[u]
    BY <1>4, IdleHoldsNothing DEF OnError, Enters, held, PointersAreHeld, Threads
  <2>2. Begins("link", HandleError)
    BY <1>4, <2>1, HandleErrorIsWhole DEF OnError, Enters, Whole, held
  <2> QED BY <1>1, <2>2 DEF Threads
<1>5. CASE OnTimeout
  <2>1. lock'["timer"] = None /\ \A u \in Threads : lock'[u] = lock[u]
    BY <1>5, IdleHoldsNothing DEF OnTimeout, Enters, held, PointersAreHeld, Threads
  <2>2. PICK o \in expecting : todo' = [todo EXCEPT !["timer"] = <<<<"timeout", o, None>>>>]
    BY <1>5 DEF OnTimeout
  <2>3. Begins("timer", <<<<"timeout", o, None>>>>)
    BY <1>5, <2>1, <2>2, CallIsOrderly DEF OnTimeout, Enters, Entries, held
  <2> QED BY <1>1, <2>3 DEF Threads
<1> QED BY <1>2, <1>3, <1>4, <1>5

(* What a thread is about to do to its pointers it may do.                 *)
LEMMA NextIsOrderly ==
  ASSUME PointersAreHeld, NEW t \in Threads, ~Idle(t)
  PROVE  /\ What(todo[t], 1) = Head(todo[t])[1]
         /\ What(todo[t], 1) = "create" => local[t] = None
         /\ What(todo[t], 1) \in {"check", "swap"} => local[t] # None
         /\ What(todo[t], 1) \in Entries => local[t] = None
<1>1. IsSeq(todo[t]) /\ todo[t] # <<>> /\ Orderly(todo[t], local[t] # None, lock[t] # None)
  BY DEF PointersAreHeld, InOrder, Idle
<1> QED BY <1>1, SeqFacts, OrderlyTail DEF What

(* Steps that leave every pointer as it is.                                *)
LEMMA PlainStepHolds ==
  ASSUME PointersAreHeld, NEW t \in Threads, ~Idle(t), NEW p, Then(t, p),
         Neutral(p) \/ (Whole(p) /\ local[t] = None),
         What(todo[t], 1) \notin {"create", "leave", "return"},
         UNCHANGED <<alive, action, refused, held>>, IsSeq(object')
  PROVE  PointersAreHeld'
<1>1. UNCHANGED <<alive, action, refused, local, lock>>
  BY DEF held
<1>2. todo' = [u \in Threads |-> todo'[u]] /\ \A u \in Threads : InOrder(u)'
  BY <1>1, ThenIsOrderly
<1> QED BY <1>1, <1>2 DEF PointersAreHeld

LEMMA StateIsSet ==
  ASSUME NEW s, IsSeq(s), NEW i, NEW v
  PROVE  IsSeq([s EXCEPT ![i] = v])
<1>1. PICK S : s \in Seq(S)
  BY DEF IsSeq
<1>2. s \in [1..Len(s) -> S] /\ Len(s) \in Nat
  BY <1>1, LenProperties
<1> DEFINE T == S \cup {v}
<1>3. [s EXCEPT ![i] = v] \in [1..Len(s) -> T]
  BY <1>2
<1> HIDE DEF T
<1> DEFINE n == Len(s)
           r == [s EXCEPT ![i] = v]
<1>4. r \in [1..n -> T] /\ n \in Nat
  BY <1>2, <1>3
<1> HIDE DEF n, r
<1>5. r \in Seq(T)
  BY <1>4, SeqDef
<1> QED BY <1>5 DEF IsSeq, r

LEMMA QuietHolds ==
  ASSUME PointersAreHeld, NEW t \in Threads,
         \/ Enable(t) \/ DisableTask(t) \/ SetState(t) \/ Expect(t)
         \/ Disconnect(t) \/ Handle(t)
  PROVE  PointersAreHeld'
<1>1. CASE \/ Enable(t) \/ DisableTask(t) \/ Expect(t) \/ Disconnect(t)
  <2>1. ~Idle(t) /\ Then(t, <<>>) /\ UNCHANGED <<memory, held>>
        /\ Head(todo[t])[1] \notin {"create", "leave", "return"}
    BY <1>1 DEF Enable, DisableTask, Expect, Disconnect, Does
  <2> QED BY <2>1, NextIsOrderly, PlainStepHolds, NothingIsNeutral DEF memory, PointersAreHeld
<1>2. CASE SetState(t)
  <2>1. ~Idle(t) /\ Then(t, <<>>) /\ UNCHANGED <<alive, action, refused, held>>
        /\ Head(todo[t])[1] \notin {"create", "leave", "return"}
    BY <1>2 DEF SetState, Does
  <2>2. IsSeq(object')
    BY <1>2, StateIsSet DEF SetState, PointersAreHeld
  <2> QED BY <2>1, <2>2, NextIsOrderly, PlainStepHolds, NothingIsNeutral
<1>3. CASE Handle(t)
  <2>1. UNCHANGED <<alive, action, refused, held>> /\ IsSeq(object')
    BY <1>3 DEF Handle, memory, PointersAreHeld
  <2>2. CASE Does(t, "user") /\ Then(t, Handled(On(t), How(t)))
    BY <2>1, <2>2, NextIsOrderly, PlainStepHolds, HandledIsWhole DEF Does, Entries
  <2>3. CASE Does(t, "hear") /\ Then(t, Heard(On(t), How(t)))
    BY <2>1, <2>3, NextIsOrderly, PlainStepHolds, HeardIsWhole DEF Does, Entries
  <2>4. CASE Does(t, "timeout") /\ Then(t, IF On(t) \in expecting THEN HandleError ELSE <<>>)
    <3>1. Whole(IF On(t) \in expecting THEN HandleError ELSE <<>>)
      BY HandleErrorIsWhole, NothingIsNeutral
    <3> QED BY <2>1, <2>4, <3>1, NextIsOrderly, PlainStepHolds DEF Does, Entries
  <2>5. CASE Does(t, "end") /\ Then(t, EndOf(action))
    BY <2>1, <2>5, NextIsOrderly, PlainStepHolds, StartOfIsNeutral DEF Does
  <2>6. CASE Does(t, "start") /\ Then(t, StartOf(action))
    BY <2>1, <2>6, NextIsOrderly, PlainStepHolds, StartOfIsNeutral DEF Does
  <2> QED BY <1>3, <2>2, <2>3, <2>4, <2>5, <2>6 DEF Handle
<1> QED BY <1>1, <1>2, <1>3

LEMMA CreateHolds ==
  ASSUME PointersAreHeld, PointersKeep, NEW t \in Threads, Create(t)
  PROVE  PointersAreHeld'
<1> DEFINE o == Len(object')
<1>1. /\ ~Idle(t) /\ Head(todo[t])[1] = "create" /\ Then(t, <<>>)
      /\ alive' = alive \cup {o} /\ local' = [local EXCEPT ![t] = o]
      /\ UNCHANGED <<action, refused, lock>>
  BY DEF Create, Does
<1>2. IsSeq(object') /\ o \in Nat
  <2>1. PICK S : object \in Seq(S)
    BY DEF PointersAreHeld, IsSeq
  <2>2. object' \in Seq(S \cup {[class |-> How(t), state |-> "IDLE"]})
    BY <2>1, SeqMonotonic, AppendProperties DEF Create
  <2> QED BY <2>2, LenProperties DEF IsSeq
<1> HIDE DEF o
<1>3. o # None
  BY <1>2, NoneAssumption
<1>4. local'[t] = o /\ \A u \in Threads : u # t => local'[u] = local[u]
  BY <1>1 DEF PointersKeep
<1>5. todo' = [u \in Threads |-> todo'[u]] /\ \A u \in Threads : InOrder(u)'
  BY <1>1, <1>3, <1>4, NextIsOrderly, ThenIsOrderly, NothingIsNeutral
<1>6. local[t] = None
  BY <1>1, NextIsOrderly
<1>7. \A x \in alive' : x = action \/ x \in refused \/ \E u \in Threads : x \in {local'[u], lock'[u]}
  <2> SUFFICES ASSUME NEW x \in alive'
               PROVE  x = action \/ x \in refused \/ \E u \in Threads : x \in {local'[u], lock'[u]}
    OBVIOUS
  <2>1. CASE x = o
    BY <1>4, <2>1
  <2>2. CASE x # o
    BY <1>1, <1>4, <1>6, <2>2 DEF PointersAreHeld
  <2> QED BY <2>1, <2>2
<1> QED BY <1>1, <1>2, <1>3, <1>5, <1>7 DEF PointersAreHeld

LEMMA CheckHolds ==
  ASSUME PointersAreHeld, PointersKeep, NEW t \in Threads, Check(t)
  PROVE  PointersAreHeld'
<1>1. ~Idle(t) /\ What(todo[t], 1) = "check" /\ local[t] # None
      /\ UNCHANGED <<object, alive, action, lock>>
  BY NextIsOrderly DEF Check, Does
<1>2. CASE IsActionDone(action)
  <2>1. Then(t, <<>>) /\ UNCHANGED <<alive, action, refused, held>>
    BY <1>2 DEF Check, held
  <2> QED BY <1>1, <2>1, PlainStepHolds, NothingIsNeutral DEF PointersAreHeld
<1>3. CASE ~IsActionDone(action)
  <2> DEFINE p == IF t = "user" THEN <<>> ELSE HandleError
             s == <<<<"return", None, None>>>>
  <2>1. /\ refused' = refused \cup {local[t]} /\ local' = [local EXCEPT ![t] = None]
        /\ todo' = [todo EXCEPT ![t] = p \o s]
    BY <1>3 DEF Check
  <2>2. Whole(p) /\ IsSeq(s) /\ Orderly(s, FALSE, lock[t] # None) /\ NoEntry(s)
    BY HandleErrorIsWhole, NothingIsNeutral, ReturnIsOrderly
  <2> HIDE DEF p, s
  <2>3. IsSeq(p \o s) /\ Orderly(p \o s, FALSE, lock[t] # None)
    BY <2>2, Follows
  <2>4. todo' = [u \in Threads |-> todo'[u]] /\ todo'[t] = p \o s
        /\ \A u \in Threads : u # t => todo'[u] = todo[u]
    BY <2>1 DEF PointersAreHeld
  <2>5. local'[t] = None /\ \A u \in Threads : u # t => local'[u] = local[u]
    BY <2>1 DEF PointersKeep
  <2>6. InOrder(t)'
    BY <1>1, <2>3, <2>4, <2>5 DEF InOrder
  <2>7. \A u \in Threads : u # t => InOrder(u)'
    BY <1>1, <2>4, <2>5 DEF InOrder, PointersAreHeld
  <2>8. local[t] \in alive
    BY <1>1 DEF PointersKeep
  <2>9. \A o \in alive : o = action \/ o \in refused' \/ \E u \in Threads : o \in {local'[u], lock[u]}
    BY <2>1, <2>5 DEF PointersAreHeld
  <2> QED BY <1>1, <2>1, <2>4, <2>6, <2>7, <2>8, <2>9 DEF PointersAreHeld
<1> QED BY <1>2, <1>3

LEMMA SwapHolds ==
  ASSUME PointersAreHeld, PointersKeep, NEW t \in Threads, Swap(t)
  PROVE  PointersAreHeld'
<1>1. /\ ~Idle(t) /\ What(todo[t], 1) = "swap" /\ local[t] # None /\ Then(t, <<>>)
      /\ action' = local[t] /\ local' = [local EXCEPT ![t] = action]
      /\ UNCHANGED <<object, alive, refused, lock>>
  BY NextIsOrderly DEF Swap, Does
<1>2. local'[t] = action /\ \A u \in Threads : u # t => local'[u] = local[u]
  BY <1>1 DEF PointersKeep
<1>3. action # None /\ action' \in alive
  BY <1>1 DEF PointersAreHeld, PointersKeep
<1>4. todo' = [u \in Threads |-> todo'[u]] /\ \A u \in Threads : InOrder(u)'
  BY <1>1, <1>2, <1>3, ThenIsOrderly, NothingIsNeutral
<1>5. \A o \in alive : o = action' \/ o \in refused \/ \E u \in Threads : o \in {local'[u], lock[u]}
  BY <1>1, <1>2 DEF PointersAreHeld
<1> QED BY <1>1, <1>3, <1>4, <1>5 DEF PointersAreHeld

LEMMA LeaveHolds ==
  ASSUME PointersAreHeld, PointersKeep, NEW t \in Threads, Leave(t)
  PROVE  PointersAreHeld'
<1>1. ~Idle(t) /\ Then(t, <<>>) /\ Collected /\ UNCHANGED <<object, action, refused>>
  BY DEF Leave, Does
<1>2. \/ /\ What(todo[t], 1) = "leave" /\ local' = [local EXCEPT ![t] = None] /\ lock' = lock
      \/ /\ What(todo[t], 1) = "return" /\ lock' = [lock EXCEPT ![t] = None] /\ local' = local
  BY <1>1, NextIsOrderly DEF Leave, Does
<1>3. \A u \in Threads : u # t => local'[u] = local[u] /\ lock'[u] = lock[u]
  BY <1>2 DEF PointersKeep
<1>4. \/ What(todo[t], 1) = "leave" /\ local'[t] = None /\ lock'[t] = lock[t]
      \/ What(todo[t], 1) = "return" /\ lock'[t] = None /\ local'[t] = local[t]
  BY <1>2 DEF PointersKeep
<1>5. todo' = [u \in Threads |-> todo'[u]] /\ \A u \in Threads : InOrder(u)'
  BY <1>1, <1>3, <1>4, ThenIsOrderly, NothingIsNeutral
<1>6. action' \in alive' /\ None \notin alive' /\ refused' \subseteq alive'
  BY <1>1 DEF Collected, PointersAreHeld
<1>7. \A o \in alive' : o = action' \/ o \in refused' \/ \E u \in Threads : o \in {local'[u], lock'[u]}
  BY <1>1 DEF Collected
<1> QED BY <1>1, <1>5, <1>6, <1>7 DEF PointersAreHeld

LEMMA PointersAreAlwaysHeld == Spec => []PointersAreHeld
<1>1. Init => PointersAreHeld
  <2> SUFFICES ASSUME Init PROVE PointersAreHeld
    OBVIOUS
  <2>1. IsSeq(object)
    BY TupleIsSeq DEF Init
  <2>2. action = 1 /\ alive = {1} /\ refused = {} /\ None \notin alive
    BY NoneAssumption DEF Init
  <2>3. \A t \in Threads : todo[t] = <<>> /\ local[t] = None /\ lock[t] = None
    BY DEF Init
  <2>4. \A t \in Threads : InOrder(t)
    BY <2>3, NothingIsNeutral DEF InOrder, Whole
  <2>5. todo = [t \in Threads |-> todo[t]]
    BY DEF Init
  <2> QED BY <2>1, <2>2, <2>4, <2>5 DEF PointersAreHeld
<1>2. PointersAreHeld /\ PointersKeep /\ [Next]_vars => PointersAreHeld'
  <2> SUFFICES ASSUME PointersAreHeld, PointersKeep, [Next]_vars PROVE PointersAreHeld'
    OBVIOUS
  <2>1. CASE UNCHANGED vars
    BY <2>1 DEF vars, memory, held, PointersAreHeld, InOrder
  <2>2. CASE PushUserUavEvent \/ OnDataReceived \/ OnError \/ OnTimeout
    BY <2>2, EntersHolds
  <2>3. ASSUME NEW t \in Threads, Step(t)
        PROVE  PointersAreHeld'
    BY <2>3, QuietHolds, CreateHolds, CheckHolds, SwapHolds, LeaveHolds DEF Step
  <2> QED BY <2>1, <2>2, <2>3 DEF Next
<1> QED BY <1>1, <1>2, PointersKeepAlways, PTL DEF Spec

(* With no call under way nothing but the current action is left of those  *)
(* that were created, save those startAction refused (its release() keeps  *)
(* them for ever), in whatever order the threads' steps came.              *)
THEOREM NoActionIsEverLost == Spec => []NoActionIsLost
<1>1. PointersAreHeld => NoActionIsLost
  <2> SUFFICES ASSUME PointersAreHeld, AtRest PROVE alive = {action} \cup refused
    BY DEF NoActionIsLost
  <2>1. \A t \in Threads : local[t] = None /\ lock[t] = None
    BY IdleHoldsNothing DEF AtRest, PointersAreHeld
  <2> QED BY <2>1 DEF PointersAreHeld
<1> QED BY <1>1, PointersAreAlwaysHeld, PTL
-----------------------------------------------------------------------------
(***************************************************************************)
(* One thread at a time.  While no thread has entered before another left, *)
(* the steps that remain of the one that is inside are known, and with     *)
(* them what the tasks still lack: they are the current action's when the  *)
(* last step is done.  r is what remains after the handler: the end of the *)
(* call, if it has a parameter to let go of.                               *)
(***************************************************************************)
Do(what, o, how, s) == <<<<what, o, how>>>> \o s

(* s is this step, and rest after it.                                      *)
First(s, what, o, how, rest) ==
    /\ s # <<>> /\ Head(s)[1] = what /\ Head(s)[2] = o /\ Head(s)[3] = how
    /\ Tail(s) = rest

Return == <<<<"return", None, None>>>>

Class(o) == object[o].class

(* The steps of handleError, of startAction and of start, from one on.     *)
Leaves(r)   == Do("leave", None, None, r)
Idles(r)    == Do("swap", None, None, Leaves(r))
Breaks(r)   == Do("create", None, "IDLE_ACTION", Idles(r))
Cuts(r)     == Do("disconnect", None, None, Breaks(r))
Stops(o, r) == Do("disable", o, "connection", r)
Fails(r)    == Do("disable", None, "ping", Stops(None, Cuts(r)))

Begins(r)    == Do("start", None, None, Leaves(r))
TakesOver(r) == Do("swap", None, None, Begins(r))
Ends(r)      == Do("end", None, None, TakesOver(r))
Checks(r)    == Do("check", None, None, Ends(r))
Asks(c, r)   == Do("create", None, c, Checks(r))

Awaits(o, r)    == Do("expect", o, None, r)
Commands(o, r)  == Do("state", o, "INITIAL_COMMAND", Awaits(o, Leaves(r)))
Watches(o, r)   == Do("enable", o, "connection", Leaves(r))
Pings(o, r)     == Do("enable", o, "ping", Watches(o, r))
IsBroken(o, r)  == Do("state", o, "BREAKING", r)
IsOver(o, r)    == Do("state", o, "IDLE", Asks("APP", r))

Failing(t, s, r) ==
    \/ First(s, "disable", None, "ping", Stops(None, Cuts(r)))
    \/ First(s, "disable", None, "connection", Cuts(r)) /\ "ping" \notin tasks
    \/ First(s, "disconnect", None, None, Breaks(r)) /\ tasks = {}
    \/ First(s, "create", None, "IDLE_ACTION", Idles(r)) /\ tasks = {}
    \/ First(s, "swap", None, None, Leaves(r)) /\ tasks = {} /\ Class(local[t]) = "IDLE_ACTION"

(* The link asks for the application loop, the user for the logger.        *)
MayAsk(t, c) ==
    \/ c = "APP" /\ t # "user"
    \/ c = "SENSORS_LOGGER" /\ t = "user" /\ Class(action) = "APP" /\ TasksMatch

(* The application loop, which enables both tasks, may find any; the       *)
(* logger, which enables one, must find none.                              *)
Replacing(t, s, r) ==
    \/ \E c \in {"APP", "SENSORS_LOGGER"} :
         /\ MayAsk(t, c)
         /\ \/ First(s, "create", None, c, Checks(r))
            \/ First(s, "check", None, None, Ends(r)) /\ Class(local[t]) = c
            \/ First(s, "end", None, None, TakesOver(r)) /\ Class(local[t]) = c
    \/ /\ First(s, "disable", action, "ping", Stops(action, TakesOver(r)))
       /\ Class(local[t]) \in {"APP", "SENSORS_LOGGER"}
    \/ /\ First(s, "disable", action, "connection", TakesOver(r))
       /\ Class(local[t]) = "APP" \/ (Class(local[t]) = "SENSORS_LOGGER" /\ "ping" \notin tasks)
    \/ /\ First(s, "swap", None, None, Begins(r))
       /\ Class(local[t]) = "APP" \/ (Class(local[t]) = "SENSORS_LOGGER" /\ tasks = {})

Starting(s, r) ==
    \/ /\ First(s, "start", None, None, Leaves(r))
       /\ Class(action) = "APP" \/ (Class(action) = "SENSORS_LOGGER" /\ tasks = {})
    \/ /\ Class(action) = "APP"
       /\ \/ First(s, "state", action, "APP_LOOP", Pings(action, r))
          \/ First(s, "enable", action, "ping", Watches(action, r))
          \/ First(s, "enable", action, "connection", Leaves(r)) /\ "ping" \in tasks
    \/ /\ Class(action) = "SENSORS_LOGGER"
       /\ \/ First(s, "enable", action, "connection", Commands(action, r)) /\ tasks = {}
          \/ /\ First(s, "state", action, "INITIAL_COMMAND", Awaits(action, Leaves(r)))
             /\ tasks = {"connection"}
    \/ First(s, "expect", action, None, Leaves(r)) /\ TasksMatch
    \/ First(s, "leave", None, None, r) /\ TasksMatch

UserWants(s, r) ==
    \/ TasksMatch /\ \E e \in UserEvents : First(s, "user", action, e, r)
    \/ /\ Class(action) = "FLIGHT"
       /\ \/ First(s, "disable", action, "ping", Stops(action, IsBroken(action, r)))
          \/ /\ First(s, "disable", action, "connection", IsBroken(action, r))
             /\ "ping" \notin tasks
          \/ First(s, "state", action, "BREAKING", r) /\ tasks = {}
    \/ /\ Class(action) = "SENSORS_LOGGER" /\ tasks = {"connection"}
       /\ \/ First(s, "state", action, "BREAKING", Stops(action, Awaits(action, r)))
          \/ /\ First(s, "disable", action, "connection", Awaits(action, r))
             /\ object[action].state = "BREAKING"
    \/ First(s, "expect", action, None, r) /\ TasksMatch

LinkTells(s, r) ==
    \/ TasksMatch /\ \E f \in Frames : First(s, "hear", action, f, r)
    \/ TasksMatch /\ \E o \in expecting : First(s, "timeout", o, None, r)
    \/ First(s, "disable", action, "ping", IsOver(action, r))
    \/ First(s, "answered", action, None, IsOver(action, r))
    \/ First(s, "state", action, "IDLE", Asks("APP", r))
    \/ First(s, "answered", action, None, Fails(r))
    \/ /\ Class(action) = "SENSORS_LOGGER" /\ tasks = {"connection"}
       /\ \/ First(s, "answered", action, None, Do("state", action, "LOGGING", r))
          \/ First(s, "state", action, "LOGGING", r)

Remains(t, s, r) ==
    \/ s = r /\ TasksMatch
    \/ Failing(t, s, r) \/ Replacing(t, s, r) \/ Starting(s, r)
    \/ t = "user" /\ UserWants(s, r)
    \/ t # "user" /\ LinkTells(s, r)

UnderWay(t) == \E r \in {<<>>, Return} : Remains(t, todo[t], r)

KnownTasks ==
    /\ tasks \subseteq {"ping", "connection"} /\ alive \subseteq DOMAIN object
    /\ \A o \in DOMAIN object : DOMAIN object[o] = {"class", "state"}

InTurn ==
    /\ \A t, u \in Threads : t # u => Idle(t) \/ Idle(u)
    /\ \A t \in Threads : ~Idle(t) => UnderWay(t)
    /\ AtRest => TasksMatch

TurnInv == ~overlapped => KnownTasks /\ InTurn
-----------------------------------------------------------------------------
(* A step put before others is the first, and the others come after it.    *)
LEMMA DoIs ==
  ASSUME NEW what, NEW o, NEW how, NEW s, IsSeq(s)
  PROVE  IsSeq(Do(what, o, how, s)) /\ First(Do(what, o, how, s), what, o, how, s)
<1> DEFINE x == <<what, o, how>>
<1>1. x[1] = what /\ x[2] = o /\ x[3] = how
  OBVIOUS
<1> HIDE DEF x
<1>2. PICK S : s \in Seq(S)
  BY DEF IsSeq
<1> DEFINE T == S \cup {x}
<1>3. s \in Seq(T)
  BY <1>2, SeqMonotonic
<1>4. x \in T
  OBVIOUS
<1> HIDE DEF T
<1>5. <<x>> \in Seq(T) /\ Len(<<x>>) = 1 /\ <<x>>[1] = x
  BY <1>4
<1>6. /\ <<x>> \o s \in Seq(T) /\ Len(<<x>> \o s) = 1 + Len(s)
      /\ \A i \in 1..(1 + Len(s)) : (<<x>> \o s)[i] = IF i <= 1 THEN <<x>>[i] ELSE s[i - 1]
  BY <1>3, <1>5, ConcatProperties
<1>7. Len(s) \in Nat
  BY <1>2, LenProperties
<1> DEFINE d == <<x>> \o s
<1>8. d # <<>> /\ d[1] = x
  BY <1>5, <1>6, <1>7, EmptySeq
<1>9. /\ Head(d) = x /\ Tail(d) \in Seq(T) /\ Len(Tail(d)) = Len(s)
      /\ \A i \in 1..Len(s) : Tail(d)[i] = s[i]
  BY <1>6, <1>7, <1>8, HeadTailProperties
<1>10. Tail(d) = s
  BY <1>3, <1>9, SeqEqual
<1> HIDE DEF d
<1>11. IsSeq(d) /\ First(d, what, o, how, s)
  BY <1>1, <1>6, <1>8, <1>9, <1>10 DEF IsSeq, First, d
<1> QED BY <1>11 DEF d, x, Do

LEMMA PiecesAreSeqs ==
  ASSUME NEW r, IsSeq(r)
  PROVE  /\ IsSeq(Leaves(r)) /\ IsSeq(Idles(r)) /\ IsSeq(Breaks(r)) /\ IsSeq(Cuts(r))
         /\ \A o : IsSeq(Stops(o, r))
         /\ IsSeq(Fails(r))
         /\ IsSeq(Begins(r)) /\ IsSeq(TakesOver(r)) /\ IsSeq(Ends(r)) /\ IsSeq(Checks(r))
         /\ \A c : IsSeq(Asks(c, r))
         /\ \A o : /\ IsSeq(Awaits(o, r)) /\ IsSeq(Commands(o, r)) /\ IsSeq(Watches(o, r))
                   /\ IsSeq(Pings(o, r)) /\ IsSeq(IsBroken(o, r)) /\ IsSeq(IsOver(o, r))
<1>1. /\ IsSeq(Leaves(r)) /\ IsSeq(Idles(r)) /\ IsSeq(Breaks(r)) /\ IsSeq(Cuts(r))
      /\ \A o : IsSeq(Stops(o, r))
  BY DoIs DEF Leaves, Idles, Breaks, Cuts, Stops
<1>2. \A o, q : IsSeq(q) => IsSeq(Stops(o, q))
  BY DoIs DEF Stops
<1>3. IsSeq(Fails(r))
  BY <1>1, <1>2, DoIs DEF Fails
<1>4. IsSeq(Begins(r)) /\ IsSeq(TakesOver(r)) /\ IsSeq(Ends(r)) /\ IsSeq(Checks(r))
  BY <1>1, DoIs DEF Begins, TakesOver, Ends, Checks
<1>5. \A c : IsSeq(Asks(c, r))
  BY <1>4, DoIs DEF Asks
<1>6. \A o, q : IsSeq(q) => IsSeq(Awaits(o, q))
  BY DoIs DEF Awaits
<1>7. \A o : /\ IsSeq(Awaits(o, r)) /\ IsSeq(Commands(o, r)) /\ IsSeq(Watches(o, r))
             /\ IsSeq(Pings(o, r)) /\ IsSeq(IsBroken(o, r)) /\ IsSeq(IsOver(o, r))
  BY <1>1, <1>5, <1>6, DoIs DEF Commands, Watches, Pings, IsBroken, IsOver
<1> QED BY <1>1, <1>3, <1>4, <1>5, <1>7

(* Each with its first step.                                               *)
LEMMA PiecesBegin ==
  ASSUME NEW r, IsSeq(r), NEW o
  PROVE  /\ First(Leaves(r), "leave", None, None, r)
         /\ First(Idles(r), "swap", None, None, Leaves(r))
         /\ First(Breaks(r), "create", None, "IDLE_ACTION", Idles(r))
         /\ First(Cuts(r), "disconnect", None, None, Breaks(r))
         /\ First(Stops(o, r), "disable", o, "connection", r)
         /\ First(Fails(r), "disable", None, "ping", Stops(None, Cuts(r)))
         /\ First(Begins(r), "start", None, None, Leaves(r))
         /\ First(TakesOver(r), "swap", None, None, Begins(r))
         /\ First(Ends(r), "end", None, None, TakesOver(r))
         /\ First(Checks(r), "check", None, None, Ends(r))
         /\ \A c : First(Asks(c, r), "create", None, c, Checks(r))
         /\ First(Awaits(o, r), "expect", o, None, r)
         /\ First(Commands(o, r), "state", o, "INITIAL_COMMAND", Awaits(o, Leaves(r)))
         /\ First(Watches(o, r), "enable", o, "connection", Leaves(r))
         /\ First(Pings(o, r), "enable", o, "ping", Watches(o, r))
         /\ First(IsBroken(o, r), "state", o, "BREAKING", r)
         /\ First(IsOver(o, r), "state", o, "IDLE", Asks("APP", r))
<1>1. /\ IsSeq(Leaves(r)) /\ IsSeq(Idles(r)) /\ IsSeq(Breaks(r)) /\ IsSeq(Cuts(r))
      /\ IsSeq(Begins(r)) /\ IsSeq(TakesOver(r)) /\ IsSeq(Ends(r)) /\ IsSeq(Checks(r))
      /\ IsSeq(Watches(o, r)) /\ IsSeq(Asks("APP", r))
  BY PiecesAreSeqs
<1>2. IsSeq(Stops(None, Cuts(r))) /\ IsSeq(Awaits(o, Leaves(r)))
  BY <1>1, PiecesAreSeqs
<1>3. /\ First(Leaves(r), "leave", None, None, r)
      /\ First(Idles(r), "swap", None, None, Leaves(r))
      /\ First(Breaks(r), "create", None, "IDLE_ACTION", Idles(r))
      /\ First(Cuts(r), "disconnect", None, None, Breaks(r))
      /\ First(Stops(o, r), "disable", o, "connection", r)
      /\ First(Fails(r), "disable", None, "ping", Stops(None, Cuts(r)))
  BY <1>1, <1>2, DoIs DEF Leaves, Idles, Breaks, Cuts, Stops, Fails
<1>4. /\ First(Begins(r), "start", None, None, Leaves(r))
      /\ First(TakesOver(r), "swap", None, None, Begins(r))
      /\ First(Ends(r), "end", None, None, TakesOver(r))
      /\ First(Checks(r), "check", None, None, Ends(r))
      /\ \A c : First(Asks(c, r), "create", None, c, Checks(r))
  BY <1>1, DoIs DEF Begins, TakesOver, Ends, Checks, Asks
<1>5. /\ First(Awaits(o, r), "expect", o, None, r)
      /\ First(Commands(o, r), "state", o, "INITIAL_COMMAND", Awaits(o, Leaves(r)))
      /\ First(Watches(o, r), "enable", o, "connection", Leaves(r))
      /\ First(Pings(o, r), "enable", o, "ping", Watches(o, r))
      /\ First(IsBroken(o, r), "state", o, "BREAKING", r)
      /\ First(IsOver(o, r), "state", o, "IDLE", Asks("APP", r))
  BY <1>1, <1>2, DoIs DEF Awaits, Commands, Watches, Pings, IsBroken, IsOver
<1> QED BY <1>3, <1>4, <1>5

LEMMA ReturnIs == IsSeq(<<>>) /\ IsSeq(Return) /\ First(Return, "return", None, None, <<>>)
<1>1. IsSeq(<<>>)
  BY NothingIsNeutral
<1>2. Return = Do("return", None, None, <<>>)
  BY DEF Return, Do
<1> QED BY <1>1, <1>2, DoIs

(* A step that nothing follows from leaves the rest.                       *)
LEMMA RestIs ==
  ASSUME PointersAreHeld, NEW t \in Threads, ~Idle(t), NEW p, Then(t, p)
  PROVE  /\ todo'[t] = p \o Tail(todo[t]) /\ IsSeq(Tail(todo[t]))
         /\ p = <<>> => todo'[t] = Tail(todo[t])
         /\ \A u \in Threads : u # t => todo'[u] = todo[u]
<1>1. todo'[t] = p \o Tail(todo[t]) /\ \A u \in Threads : u # t => todo'[u] = todo[u]
  BY DEF Then, PointersAreHeld
<1>2. IsSeq(Tail(todo[t]))
  BY SeqFacts DEF PointersAreHeld, InOrder, Idle
<1>3. PICK S : Tail(todo[t]) \in Seq(S)
  BY <1>2 DEF IsSeq
<1>4. <<>> \o Tail(todo[t]) = Tail(todo[t])
  BY <1>3, ConcatEmptySeq
<1> QED BY <1>1, <1>2, <1>4

(* What the thread does now is the first of the steps it has to do.        *)
LEMMA StepIsFirst ==
  ASSUME NEW t \in Threads, NEW what, Does(t, what)
  PROVE  \A w, o, h, rest : First(todo[t], w, o, h, rest) =>
            w = what /\ o = On(t) /\ h = How(t) /\ rest = Tail(todo[t])
BY DEF Does, First, On, How

(* Each kind of step leaves what remains after it, with the tasks as far   *)
(* as they have got: EnableGoesOn and the lemmas named like it.            *)
LEMMA EnableGoesOn ==
  ASSUME KnownTasks, PointersAreHeld, NEW t \in Threads,
         NEW r \in {<<>>, Return}, Remains(t, todo[t], r), Enable(t)
  PROVE  Remains(t, todo[t], r)'
<1>1. IsSeq(r) /\ (todo[t] = r => First(todo[t], "return", None, None, <<>>))
  BY ReturnIs DEF Enable, Does, Idle
<1>2. /\ Does(t, "enable") /\ todo'[t] = Tail(todo[t])
      /\ tasks' = tasks \cup {How(t)} /\ object' = object /\ action' = action /\ local' = local
  BY RestIs DEF Enable, Does, memory, held
<1>3. \A w, o, h, rest : First(todo[t], w, o, h, rest) =>
         w = "enable" /\ o = On(t) /\ h = How(t) /\ rest = todo'[t]
  BY <1>2, StepIsFirst
<1>4. \/ /\ Class(action) = "APP"
         /\ \/ First(todo[t], "enable", action, "ping", Watches(action, r))
            \/ First(todo[t], "enable", action, "connection", Leaves(r)) /\ "ping" \in tasks
      \/ /\ Class(action) = "SENSORS_LOGGER" /\ tasks = {}
         /\ First(todo[t], "enable", action, "connection", Commands(action, r))
  BY <1>1, <1>3 DEF Remains, Failing, Replacing, Starting, UserWants, LinkTells
<1>5. PICK a : a = action
  OBVIOUS
<1>6. CASE /\ Class(action) = "APP"
           /\ First(todo[t], "enable", action, "ping", Watches(action, r))
  <2>1. todo'[t] = Watches(a, r) /\ How(t) = "ping"
    BY <1>3, <1>5, <1>6
  <2>2. First(todo'[t], "enable", action, "connection", Leaves(r)) /\ "ping" \in tasks'
    BY <1>1, <1>2, <1>5, <2>1, PiecesBegin
  <2> QED BY <1>2, <1>6, <2>2 DEF Remains, Starting, Class
<1>7. CASE /\ Class(action) = "APP" /\ "ping" \in tasks
           /\ First(todo[t], "enable", action, "connection", Leaves(r))
  <2>1. todo'[t] = Leaves(r) /\ How(t) = "connection"
    BY <1>3, <1>7
  <2>2. First(todo'[t], "leave", None, None, r) /\ tasks' = {"ping", "connection"}
    BY <1>1, <1>2, <1>7, <2>1, PiecesBegin DEF KnownTasks
  <2>3. TasksMatch'
    BY <1>2, <1>7, <2>2 DEF TasksMatch, Class, In
  <2> QED BY <1>2, <2>2, <2>3 DEF Remains, Starting
<1>8. CASE /\ Class(action) = "SENSORS_LOGGER" /\ tasks = {}
           /\ First(todo[t], "enable", action, "connection", Commands(action, r))
  <2>1. todo'[t] = Commands(a, r) /\ How(t) = "connection"
    BY <1>3, <1>5, <1>8
  <2>2. /\ First(todo'[t], "state", action, "INITIAL_COMMAND", Awaits(action, Leaves(r)))
        /\ tasks' = {"connection"}
    BY <1>1, <1>2, <1>5, <1>8, <2>1, PiecesBegin
  <2> QED BY <1>2, <1>8, <2>2 DEF Remains, Starting, Class
<1> QED BY <1>4, <1>6, <1>7, <1>8

LEMMA DisableGoesOn ==
  ASSUME KnownTasks, PointersAreHeld, NEW t \in Threads,
         NEW r \in {<<>>, Return}, Remains(t, todo[t], r), DisableTask(t)
  PROVE  Remains(t, todo[t], r)'
<1>1. IsSeq(r) /\ (todo[t] = r => First(todo[t], "return", None, None, <<>>))
  BY ReturnIs DEF DisableTask, Does, Idle
<1>2. /\ Does(t, "disable") /\ todo'[t] = Tail(todo[t])
      /\ tasks' = tasks \ {How(t)} /\ object' = object /\ action' = action /\ local' = local
  BY RestIs DEF DisableTask, Does, memory, held
<1>3. \A w, o, h, rest : First(todo[t], w, o, h, rest) =>
         w = "disable" /\ o = On(t) /\ h = How(t) /\ rest = todo'[t]
  BY <1>2, StepIsFirst
<1>4. PICK a : a = action
  OBVIOUS
<1>5. IsSeq(Cuts(r)) /\ IsSeq(TakesOver(r)) /\ IsSeq(IsBroken(a, r)) /\ IsSeq(Awaits(a, r))
  BY <1>1, PiecesAreSeqs
<1>6. CASE Failing(t, todo[t], r)
  <2>1. CASE First(todo[t], "disable", None, "ping", Stops(None, Cuts(r)))
    <3>1. todo'[t] = Stops(None, Cuts(r)) /\ How(t) = "ping"
      BY <1>3, <2>1
    <3>2. First(todo'[t], "disable", None, "connection", Cuts(r))
      BY <1>5, <3>1, PiecesBegin
    <3>3. "ping" \notin tasks'
      BY <1>2, <3>1, <2>1
    <3> QED BY <3>2, <3>3 DEF Remains, Failing
  <2>2. CASE First(todo[t], "disable", None, "connection", Cuts(r)) /\ "ping" \notin tasks
    <3>1. todo'[t] = Cuts(r) /\ How(t) = "connection"
      BY <1>3, <2>2
    <3>2. First(todo'[t], "disconnect", None, None, Breaks(r))
      BY <1>1, <3>1, PiecesBegin
    <3>3. tasks' = {}
      BY <1>2, <3>1, <2>2 DEF KnownTasks
    <3> QED BY <3>2, <3>3 DEF Remains, Failing
  <2> QED BY <1>3, <1>6, <2>1, <2>2 DEF Failing
<1>7. CASE Replacing(t, todo[t], r)
  <2>1. CASE /\ First(todo[t], "disable", action, "ping", Stops(action, TakesOver(r)))
             /\ Class(local[t]) \in {"APP", "SENSORS_LOGGER"}
    <3>1. todo'[t] = Stops(a, TakesOver(r)) /\ How(t) = "ping"
      BY <1>3, <1>4, <2>1
    <3>2. First(todo'[t], "disable", action, "connection", TakesOver(r))
      BY <1>5, <1>2, <1>4, <3>1, PiecesBegin
    <3>3. "ping" \notin tasks'
      BY <1>2, <3>1, <2>1
    <3> QED BY <1>2, <2>1, <3>2, <3>3 DEF Remains, Replacing, Class
  <2>2. CASE /\ First(todo[t], "disable", action, "connection", TakesOver(r))
             /\ Class(local[t]) = "APP" \/ (Class(local[t]) = "SENSORS_LOGGER" /\ "ping" \notin tasks)
    <3>1. todo'[t] = TakesOver(r) /\ How(t) = "connection"
      BY <1>3, <2>2
    <3>2. First(todo'[t], "swap", None, None, Begins(r))
      BY <1>1, <3>1, PiecesBegin
    <3>3. ("ping" \notin tasks => tasks' = {})
      BY <1>2, <3>1, <2>2 DEF KnownTasks
    <3> QED BY <1>2, <2>2, <3>2, <3>3 DEF Remains, Replacing, Class
  <2> QED BY <1>3, <1>7, <2>1, <2>2 DEF Replacing
<1>8. CASE t = "user" /\ UserWants(todo[t], r)
  <2>1. CASE /\ First(todo[t], "disable", action, "ping", Stops(action, IsBroken(action, r)))
             /\ Class(action) = "FLIGHT"
    <3>1. todo'[t] = Stops(a, IsBroken(a, r)) /\ How(t) = "ping"
      BY <1>3, <1>4, <2>1
    <3>2. First(todo'[t], "disable", action, "connection", IsBroken(action, r))
      BY <1>5, <1>2, <1>4, <3>1, PiecesBegin
    <3>3. "ping" \notin tasks'
      BY <1>2, <3>1, <2>1
    <3> QED BY <1>2, <1>8, <2>1, <3>2, <3>3 DEF Remains, UserWants, Class
  <2>2. CASE /\ First(todo[t], "disable", action, "connection", IsBroken(action, r))
             /\ Class(action) = "FLIGHT" /\ "ping" \notin tasks
    <3>1. todo'[t] = IsBroken(a, r) /\ How(t) = "connection"
      BY <1>3, <1>4, <2>2
    <3>2. First(todo'[t], "state", action, "BREAKING", r)
      BY <1>1, <1>2, <1>4, <3>1, PiecesBegin
    <3>3. tasks' = {}
      BY <1>2, <3>1, <2>2 DEF KnownTasks
    <3> QED BY <1>2, <1>8, <2>2, <3>2, <3>3 DEF Remains, UserWants, Class
  <2>3. CASE /\ First(todo[t], "disable", action, "connection", Awaits(action, r))
             /\ Class(action) = "SENSORS_LOGGER" /\ tasks = {"connection"}
             /\ object[action].state = "BREAKING"
    <3>1. todo'[t] = Awaits(a, r) /\ How(t) = "connection"
      BY <1>3, <1>4, <2>3
    <3>2. First(todo'[t], "expect", action, None, r)
      BY <1>1, <1>2, <1>4, <3>1, PiecesBegin
    <3>3. tasks' = {}
      BY <1>2, <3>1, <2>3
    <3>4. TasksMatch'
      BY <1>2, <2>3, <3>2, <3>3 DEF TasksMatch, Class, In
    <3> QED BY <1>2, <1>8, <3>2, <3>4 DEF Remains, UserWants, Class
  <2> QED BY <1>3, <1>8, <2>1, <2>2, <2>3 DEF UserWants
<1>9. CASE t # "user" /\ LinkTells(todo[t], r)
  <2>1. First(todo[t], "disable", action, "ping", IsOver(action, r))
    BY <1>3, <1>9 DEF LinkTells
  <2>2. todo'[t] = IsOver(a, r)
    BY <1>3, <1>4, <2>1
  <2>3. First(todo'[t], "state", action, "IDLE", Asks("APP", r))
    BY <1>1, <1>2, <1>4, <2>2, PiecesBegin
  <2> QED BY <1>2, <1>9, <2>3 DEF Remains, LinkTells, Class
<1>10. ~Starting(todo[t], r)
  BY <1>3 DEF Starting
<1> QED BY <1>1, <1>3, <1>6, <1>7, <1>8, <1>9, <1>10 DEF Remains

(* The class of an action is for ever.                                     *)
LEMMA SetStateChanges ==
  ASSUME KnownTasks, PointersAreHeld, NEW t \in Threads, SetState(t), On(t) = action
  PROVE  /\ Class(action)' = Class(action) /\ object'[action].state = How(t)
         /\ DOMAIN object' = DOMAIN object
         /\ \A o \in DOMAIN object' : DOMAIN object'[o] = {"class", "state"}
<1>1. action \in DOMAIN object /\ object' = [object EXCEPT ![On(t)].state = How(t)] /\ action' = action
  BY DEF KnownTasks, PointersAreHeld, SetState
<1> QED BY <1>1 DEF KnownTasks, Class

LEMMA SetStateGoesOn ==
  ASSUME KnownTasks, PointersAreHeld, NEW t \in Threads,
         NEW r \in {<<>>, Return}, Remains(t, todo[t], r), SetState(t)
  PROVE  Remains(t, todo[t], r)'
<1>1. IsSeq(r) /\ (todo[t] = r => First(todo[t], "return", None, None, <<>>))
  BY ReturnIs DEF SetState, Does, Idle
<1>2. /\ Does(t, "state") /\ todo'[t] = Tail(todo[t])
      /\ tasks' = tasks /\ action' = action /\ local' = local
  BY RestIs DEF SetState, Does, memory, held, shared
<1>3. \A w, o, h, rest : First(todo[t], w, o, h, rest) =>
         w = "state" /\ o = On(t) /\ h = How(t) /\ rest = todo'[t]
  BY <1>2, StepIsFirst
<1>4. PICK a : a = action
  OBVIOUS
<1>5. IsSeq(Leaves(r)) /\ IsSeq(Awaits(a, r))
  BY <1>1, PiecesAreSeqs
<1>6. ~Failing(t, todo[t], r) /\ ~Replacing(t, todo[t], r)
  BY <1>3 DEF Failing, Replacing
<1>7. CASE Starting(todo[t], r)
  <2>1. CASE First(todo[t], "state", action, "APP_LOOP", Pings(action, r)) /\ Class(action) = "APP"
    <3>1. Class(action)' = "APP"
      BY <1>3, <2>1, SetStateChanges
    <3>2. todo'[t] = Pings(a, r)
      BY <1>3, <1>4, <2>1
    <3>3. First(todo'[t], "enable", action, "ping", Watches(action, r))
      BY <1>1, <1>2, <1>4, <3>2, PiecesBegin
    <3> QED BY <1>2, <3>1, <3>3 DEF Remains, Starting
  <2>2. CASE /\ First(todo[t], "state", action, "INITIAL_COMMAND", Awaits(action, Leaves(r)))
             /\ Class(action) = "SENSORS_LOGGER" /\ tasks = {"connection"}
    <3>1. Class(action)' = "SENSORS_LOGGER" /\ object'[action].state = "INITIAL_COMMAND"
      BY <1>3, <2>2, SetStateChanges
    <3>2. todo'[t] = Awaits(a, Leaves(r))
      BY <1>3, <1>4, <2>2
    <3>3. First(todo'[t], "expect", action, None, Leaves(r))
      BY <1>5, <1>2, <1>4, <3>2, PiecesBegin
    <3>4. TasksMatch'
      BY <1>2, <2>2, <3>1 DEF TasksMatch, Class, In
    <3> QED BY <1>2, <3>3, <3>4 DEF Remains, Starting
  <2> QED BY <1>3, <1>7, <2>1, <2>2 DEF Starting
<1>8. CASE t = "user" /\ UserWants(todo[t], r)
  <2>1. CASE First(todo[t], "state", action, "BREAKING", r) /\ Class(action) = "FLIGHT" /\ tasks = {}
    <3>1. Class(action)' = "FLIGHT" /\ object'[action].state = "BREAKING"
      BY <1>3, <2>1, SetStateChanges
    <3>2. todo'[t] = r /\ TasksMatch'
      BY <1>2, <1>3, <2>1, <3>1 DEF TasksMatch, Class, In
    <3> QED BY <3>2 DEF Remains
  <2>2. CASE /\ First(todo[t], "state", action, "BREAKING", Stops(action, Awaits(action, r)))
             /\ Class(action) = "SENSORS_LOGGER" /\ tasks = {"connection"}
    <3>1. Class(action)' = "SENSORS_LOGGER" /\ object'[action].state = "BREAKING"
      BY <1>3, <2>2, SetStateChanges
    <3>2. todo'[t] = Stops(a, Awaits(a, r))
      BY <1>3, <1>4, <2>2
    <3>3. First(todo'[t], "disable", action, "connection", Awaits(action, r))
      BY <1>5, <1>2, <1>4, <3>2, PiecesBegin
    <3> QED BY <1>2, <1>8, <2>2, <3>1, <3>3 DEF Remains, UserWants, Class
  <2> QED BY <1>3, <1>8, <2>1, <2>2 DEF UserWants
<1>9. CASE t # "user" /\ LinkTells(todo[t], r)
  <2>1. CASE First(todo[t], "state", action, "IDLE", Asks("APP", r))
    <3>1. todo'[t] = Asks("APP", r)
      BY <1>3, <2>1
    <3>2. First(todo'[t], "create", None, "APP", Checks(r))
      BY <1>1, <3>1, PiecesBegin
    <3> QED BY <1>9, <3>2 DEF Remains, Replacing, MayAsk
  <2>2. CASE /\ First(todo[t], "state", action, "LOGGING", r)
             /\ Class(action) = "SENSORS_LOGGER" /\ tasks = {"connection"}
    <3>1. Class(action)' = "SENSORS_LOGGER" /\ object'[action].state = "LOGGING"
      BY <1>3, <2>2, SetStateChanges
    <3>2. todo'[t] = r /\ TasksMatch'
      BY <1>2, <1>3, <2>2, <3>1 DEF TasksMatch, Class, In
    <3> QED BY <3>2 DEF Remains
  <2> QED BY <1>3, <1>9, <2>1, <2>2 DEF LinkTells
<1> QED BY <1>1, <1>3, <1>6, <1>7, <1>8, <1>9 DEF Remains

LEMMA ExpectGoesOn ==
  ASSUME KnownTasks, PointersAreHeld, NEW t \in Threads,
         NEW r \in {<<>>, Return}, Remains(t, todo[t], r), Expect(t)
  PROVE  Remains(t, todo[t], r)'
<1>1. IsSeq(r) /\ (todo[t] = r => First(todo[t], "return", None, None, <<>>))
  BY ReturnIs DEF Expect, Does, Idle
<1>2. /\ Does(t, "expect") \/ Does(t, "answered")
      /\ todo'[t] = Tail(todo[t])
      /\ tasks' = tasks /\ object' = object /\ action' = action /\ local' = local
  BY RestIs DEF Expect, Does, memory, held
<1>3. \A w, o, h, rest : First(todo[t], w, o, h, rest) =>
         w \in {"expect", "answered"} /\ rest = todo'[t]
  BY <1>2, StepIsFirst
<1>4. PICK a : a = action
  OBVIOUS
<1>5. TasksMatch' <=> TasksMatch
  BY <1>2 DEF TasksMatch, In
<1>6. ~Failing(t, todo[t], r) /\ ~Replacing(t, todo[t], r)
  BY <1>3 DEF Failing, Replacing
<1>7. CASE Starting(todo[t], r)
  <2>1. First(todo[t], "expect", action, None, Leaves(r)) /\ TasksMatch
    BY <1>3, <1>7 DEF Starting
  <2>2. First(todo'[t], "leave", None, None, r)
    BY <1>1, <1>3, <2>1, PiecesBegin
  <2> QED BY <1>5, <2>1, <2>2 DEF Remains, Starting, Class
<1>8. CASE t = "user" /\ UserWants(todo[t], r)
  <2>1. First(todo[t], "expect", action, None, r) /\ TasksMatch
    BY <1>3, <1>8 DEF UserWants
  <2> QED BY <1>3, <1>5, <2>1 DEF Remains
<1>9. CASE t # "user" /\ LinkTells(todo[t], r)
  <2>1. CASE First(todo[t], "answered", action, None, IsOver(action, r))
    <3>1. todo'[t] = IsOver(a, r)
      BY <1>3, <1>4, <2>1
    <3>2. First(todo'[t], "state", action, "IDLE", Asks("APP", r))
      BY <1>1, <1>2, <1>4, <3>1, PiecesBegin
    <3> QED BY <1>2, <1>9, <3>2 DEF Remains, LinkTells, Class
  <2>2. CASE First(todo[t], "answered", action, None, Fails(r))
    <3>1. First(todo'[t], "disable", None, "ping", Stops(None, Cuts(r)))
      BY <1>1, <1>3, <2>2, PiecesBegin
    <3> QED BY <3>1 DEF Remains, Failing
  <2>3. CASE /\ First(todo[t], "answered", action, None, Do("state", action, "LOGGING", r))
             /\ Class(action) = "SENSORS_LOGGER" /\ tasks = {"connection"}
    <3>1. todo'[t] = Do("state", a, "LOGGING", r)
      BY <1>3, <1>4, <2>3
    <3>2. First(todo'[t], "state", action, "LOGGING", r)
      BY <1>1, <1>2, <1>4, <3>1, DoIs
    <3> QED BY <1>2, <1>9, <2>3, <3>2 DEF Remains, LinkTells, Class
  <2> QED BY <1>3, <1>9, <2>1, <2>2, <2>3 DEF LinkTells
<1> QED BY <1>1, <1>3, <1>6, <1>7, <1>8, <1>9 DEF Remains

LEMMA DisconnectGoesOn ==
  ASSUME KnownTasks, PointersAreHeld, NEW t \in Threads,
         NEW r \in {<<>>, Return}, Remains(t, todo[t], r), Disconnect(t)
  PROVE  Remains(t, todo[t], r)'
<1>1. IsSeq(r) /\ (todo[t] = r => First(todo[t], "return", None, None, <<>>))
  BY ReturnIs DEF Disconnect, Does, Idle
<1>2. Does(t, "disconnect") /\ todo'[t] = Tail(todo[t]) /\ tasks' = tasks
  BY RestIs DEF Disconnect, Does
<1>3. \A w, o, h, rest : First(todo[t], w, o, h, rest) => w = "disconnect" /\ rest = todo'[t]
  BY <1>2, StepIsFirst
<1>4. First(todo[t], "disconnect", None, None, Breaks(r)) /\ tasks = {}
  BY <1>1, <1>3 DEF Remains, Failing, Replacing, Starting, UserWants, LinkTells
<1>5. First(todo'[t], "create", None, "IDLE_ACTION", Idles(r))
  BY <1>1, <1>3, <1>4, PiecesBegin
<1> QED BY <1>2, <1>4, <1>5 DEF Remains, Failing

(* The new action is none of those that were there.                        *)
LEMMA CreateAdds ==
  ASSUME KnownTasks, PointersAreHeld, PointersKeep, NEW t \in Threads, Create(t)
  PROVE  /\ \A o \in DOMAIN object : object'[o] = object[o]
         /\ DOMAIN object \subseteq DOMAIN object' /\ alive' \subseteq DOMAIN object'
         /\ \A o \in DOMAIN object' : DOMAIN object'[o] = {"class", "state"}
         /\ Class(local[t])' = How(t)
<1> DEFINE new == [class |-> How(t), state |-> "IDLE"]
<1>1. PICK S : object \in Seq(S)
  BY DEF PointersAreHeld, IsSeq
<1>2. PICK n \in Nat : n = Len(object) /\ DOMAIN object = 1..n
  BY <1>1, LenProperties
<1>3. object' = Append(object, new)
  BY DEF Create
<1>4. DOMAIN new = {"class", "state"} /\ new.class = How(t)
  OBVIOUS
<1> HIDE DEF new
<1>5. PICK x : x = new
  OBVIOUS
<1>6. object \in Seq(S \cup {x}) /\ x \in S \cup {x}
  BY <1>1, SeqMonotonic
<1>7. PICK old : old = object
  OBVIOUS
<1>8. /\ Append(old, x) \in Seq(S \cup {x}) /\ Len(Append(old, x)) = Len(old) + 1
      /\ \A i \in 1..Len(old) : Append(old, x)[i] = old[i]
      /\ Append(old, x)[Len(old) + 1] = x
  BY <1>6, <1>7, AppendProperties
<1>9. /\ object' = Append(old, x) /\ Len(object') = n + 1 /\ DOMAIN Append(old, x) = 1..(n + 1)
  BY <1>2, <1>3, <1>5, <1>7, <1>8, LenProperties
<1>10. /\ \A i \in 1..n : object'[i] = object[i]
       /\ object'[n + 1] = new /\ DOMAIN object' = 1..(n + 1)
  BY <1>2, <1>5, <1>7, <1>8, <1>9
<1>11. alive' = alive \cup {n + 1} /\ local'[t] = n + 1
  BY <1>9 DEF Create, PointersKeep
<1>12. \A o \in DOMAIN object' : o \in DOMAIN object \/ o = n + 1
  BY <1>2, <1>10
<1>13. DOMAIN object \subseteq DOMAIN object' /\ alive' \subseteq DOMAIN object'
  BY <1>2, <1>10, <1>11 DEF KnownTasks
<1>14. \A o \in DOMAIN object' : DOMAIN object'[o] = {"class", "state"}
  BY <1>2, <1>4, <1>10, <1>12 DEF KnownTasks
<1>15. Class(local[t])' = How(t)
  BY <1>4, <1>10, <1>11 DEF Class
<1> QED BY <1>2, <1>10, <1>13, <1>14, <1>15

LEMMA CreateGoesOn ==
  ASSUME KnownTasks, PointersAreHeld, PointersKeep, NEW t \in Threads,
         NEW r \in {<<>>, Return}, Remains(t, todo[t], r), Create(t)
  PROVE  Remains(t, todo[t], r)'
<1>1. IsSeq(r) /\ (todo[t] = r => First(todo[t], "return", None, None, <<>>))
  BY ReturnIs DEF Create, Does, Idle
<1>2. /\ Does(t, "create") /\ todo'[t] = Tail(todo[t])
      /\ tasks' = tasks /\ action' = action
  BY RestIs DEF Create, Does, shared
<1>3. \A w, o, h, rest : First(todo[t], w, o, h, rest) =>
         w = "create" /\ h = How(t) /\ rest = todo'[t]
  BY <1>2, StepIsFirst
<1>4. object'[action] = object[action] /\ Class(local[t])' = How(t)
  BY CreateAdds DEF PointersAreHeld, KnownTasks
<1>5. TasksMatch' <=> TasksMatch
  BY <1>2, <1>4 DEF TasksMatch, In
<1>6. CASE First(todo[t], "create", None, "IDLE_ACTION", Idles(r)) /\ tasks = {}
  <2>1. First(todo'[t], "swap", None, None, Leaves(r)) /\ Class(local[t])' = "IDLE_ACTION"
    BY <1>1, <1>3, <1>4, <1>6, PiecesBegin
  <2> QED BY <1>2, <1>6, <2>1 DEF Remains, Failing
<1>7. ASSUME NEW c \in {"APP", "SENSORS_LOGGER"}, MayAsk(t, c),
             First(todo[t], "create", None, c, Checks(r))
      PROVE  Remains(t, todo[t], r)'
  <2>1. First(todo'[t], "check", None, None, Ends(r)) /\ Class(local[t])' = c
    BY <1>1, <1>3, <1>4, <1>7, PiecesBegin
  <2>2. MayAsk(t, c)'
    BY <1>2, <1>4, <1>5, <1>7 DEF MayAsk, Class
  <2>3. Replacing(t, todo[t], r)'
    BY <1>7, <2>1, <2>2 DEF Replacing
  <2> QED BY <2>3 DEF Remains
<1>8. ~Starting(todo[t], r) /\ ~UserWants(todo[t], r) /\ ~LinkTells(todo[t], r)
  BY <1>3 DEF Starting, UserWants, LinkTells
<1>9. Failing(t, todo[t], r) => First(todo[t], "create", None, "IDLE_ACTION", Idles(r)) /\ tasks = {}
  BY <1>3 DEF Failing
<1>10. Replacing(t, todo[t], r) => \E c \in {"APP", "SENSORS_LOGGER"} :
         MayAsk(t, c) /\ First(todo[t], "create", None, c, Checks(r))
  BY <1>3 DEF Replacing
<1> QED BY <1>1, <1>3, <1>6, <1>7, <1>8, <1>9, <1>10 DEF Remains

(* Steps before those that remain.                                         *)
Before(p, r) == p \o r

LEMMA NothingAndRest ==
  ASSUME NEW r, IsSeq(r)
  PROVE  Before(<<>>, r) = r
<1>1. PICK S : r \in Seq(S)
  BY DEF IsSeq
<1> QED BY <1>1, ConcatEmptySeq DEF Before

LEMMA DoAndRest ==
  ASSUME NEW what, NEW o, NEW how, NEW p, NEW r, IsSeq(p), IsSeq(r)
  PROVE  Before(Do(what, o, how, p), r) = Do(what, o, how, Before(p, r))
<1> DEFINE x == <<what, o, how>>
<1>1. PICK S, T : p \in Seq(S) /\ r \in Seq(T)
  BY DEF IsSeq
<1> DEFINE U == S \cup T \cup {x}
<1>2. p \in Seq(U) /\ r \in Seq(U) /\ x \in U
  BY <1>1, SeqMonotonic
<1> HIDE DEF U, x
<1>3. <<x>> \in Seq(U)
  BY <1>2
<1>4. (<<x>> \o p) \o r = <<x>> \o (p \o r)
  BY <1>2, <1>3, ConcatAssociative
<1> QED BY <1>4 DEF Do, Before, x

LEMMA LastAndRest ==
  ASSUME NEW what, NEW o, NEW how, NEW r, IsSeq(r)
  PROVE  Before(Do(what, o, how, <<>>), r) = Do(what, o, how, r)
<1>1. IsSeq(<<>>) /\ Before(<<>>, r) = r
  BY ReturnIs, NothingAndRest
<1> QED BY <1>1, DoAndRest

LEMMA OneMore ==
  ASSUME NEW T, NEW p \in Seq(T), NEW q \in Seq(T), NEW what, NEW o, NEW how, <<what, o, how>> \in T,
         Len(q) = Len(p) + 1, q[1] = <<what, o, how>>, \A i \in 1..Len(p) : q[i + 1] = p[i]
  PROVE  q = Do(what, o, how, p)
<1>1. PICK a : a = <<what, o, how>>
  OBVIOUS
<1>2. PICK x : x = <<a>>
  OBVIOUS
<1>3. x \in Seq(T) /\ Len(x) = 1 /\ x[1] = a
  BY <1>1, <1>2
<1>4. PICK n \in Nat : n = Len(p)
  BY LenProperties
<1>5. /\ x \o p \in Seq(T) /\ Len(x \o p) = Len(x) + Len(p)
      /\ \A i \in 1..(Len(x) + Len(p)) : (x \o p)[i] = IF i <= Len(x) THEN x[i] ELSE p[i - Len(x)]
  BY <1>3, ConcatProperties
<1> DEFINE d == x \o p
<1>6. d \in Seq(T) /\ Len(d) = n + 1 /\ \A i \in 1..(n + 1) : d[i] = IF i <= 1 THEN a ELSE p[i - 1]
  BY <1>3, <1>4, <1>5
<1>7. d = Do(what, o, how, p)
  BY <1>1, <1>2 DEF Do
<1> HIDE DEF d
<1>8. ASSUME NEW i \in 1..(n + 1)
      PROVE  q[i] = d[i]
  <2>1. CASE i = 1
    <3>1. q[1] = a
      BY <1>1
    <3>2. d[1] = a
      BY <1>6, 1 \in 1..(n + 1), 1 <= 1
    <3> QED BY <2>1, <3>1, <3>2
  <2>2. CASE i # 1
    <3>1. i - 1 \in 1..n /\ (i - 1) + 1 = i /\ ~(i <= 1)
      BY <2>2
    <3> QED BY <1>4, <1>6, <3>1
  <2> QED BY <2>1, <2>2
<1>9. Len(q) = n + 1
  BY <1>4
<1>10. q = d
  BY <1>6, <1>8, <1>9, SeqEqual
<1> QED BY <1>7, <1>10

LEMMA OneStepIs ==
  ASSUME NEW what, NEW o, NEW how
  PROVE  <<<<what, o, how>>>> = Do(what, o, how, <<>>)
<1>1. PICK a : a = <<what, o, how>>
  OBVIOUS
<1> DEFINE T == {a}
           p == <<>>
           q == <<a>>
<1>2. p \in Seq(T) /\ q \in Seq(T) /\ a \in T
  OBVIOUS
<1>3. Len(p) = 0 /\ Len(q) = 1 /\ q[1] = a /\ \A i \in 1..0 : q[i + 1] = p[i]
  OBVIOUS
<1> HIDE DEF T, p, q
<1>4. /\ <<what, o, how>> \in T /\ Len(q) = Len(p) + 1 /\ q[1] = <<what, o, how>>
      /\ \A i \in 1..Len(p) : q[i + 1] = p[i]
  BY <1>1, <1>2, <1>3
<1>5. q = Do(what, o, how, p)
  BY <1>2, <1>4, OneMore
<1> QED BY <1>1, <1>5 DEF p, q

LEMMA TwoStepsAre ==
  ASSUME NEW what, NEW o, NEW how, NEW b
  PROVE  <<<<what, o, how>>, b>> = Do(what, o, how, <<b>>)
<1>1. PICK a : a = <<what, o, how>>
  OBVIOUS
<1> DEFINE T == {a, b}
           p == <<b>>
           q == <<a, b>>
<1>2. p \in Seq(T) /\ q \in Seq(T) /\ a \in T
  OBVIOUS
<1>3. Len(p) = 1 /\ Len(q) = 2 /\ q[1] = a /\ \A i \in 1..1 : q[i + 1] = p[i]
  OBVIOUS
<1> HIDE DEF T, p, q
<1>4. /\ <<what, o, how>> \in T /\ Len(q) = Len(p) + 1 /\ q[1] = <<what, o, how>>
      /\ \A i \in 1..Len(p) : q[i + 1] = p[i]
  BY <1>1, <1>2, <1>3
<1>5. q = Do(what, o, how, p)
  BY <1>2, <1>4, OneMore
<1> QED BY <1>1, <1>5 DEF p, q

LEMMA ThreeStepsAre ==
  ASSUME NEW what, NEW o, NEW how, NEW b, NEW c
  PROVE  <<<<what, o, how>>, b, c>> = Do(what, o, how, <<b, c>>)
<1>1. PICK a : a = <<what, o, how>>
  OBVIOUS
<1> DEFINE T == {a, b, c}
           p == <<b, c>>
           q == <<a, b, c>>
<1>2. p \in Seq(T) /\ q \in Seq(T) /\ a \in T
  OBVIOUS
<1>3. Len(p) = 2 /\ Len(q) = 3 /\ q[1] = a /\ \A i \in 1..2 : q[i + 1] = p[i]
  OBVIOUS
<1> HIDE DEF T, p, q
<1>4. /\ <<what, o, how>> \in T /\ Len(q) = Len(p) + 1 /\ q[1] = <<what, o, how>>
      /\ \A i \in 1..Len(p) : q[i + 1] = p[i]
  BY <1>1, <1>2, <1>3
<1>5. q = Do(what, o, how, p)
  BY <1>2, <1>4, OneMore
<1> QED BY <1>1, <1>5 DEF p, q

LEMMA FourStepsAre ==
  ASSUME NEW what, NEW o, NEW how, NEW b, NEW c, NEW d
  PROVE  <<<<what, o, how>>, b, c, d>> = Do(what, o, how, <<b, c, d>>)
<1>1. PICK a : a = <<what, o, how>>
  OBVIOUS
<1> DEFINE T == {a, b, c, d}
           p == <<b, c, d>>
           q == <<a, b, c, d>>
<1>2. p \in Seq(T) /\ q \in Seq(T) /\ a \in T
  OBVIOUS
<1>3. Len(p) = 3 /\ Len(q) = 4 /\ q[1] = a /\ \A i \in 1..3 : q[i + 1] = p[i]
  OBVIOUS
<1> HIDE DEF T, p, q
<1>4. /\ <<what, o, how>> \in T /\ Len(q) = Len(p) + 1 /\ q[1] = <<what, o, how>>
      /\ \A i \in 1..Len(p) : q[i + 1] = p[i]
  BY <1>1, <1>2, <1>3
<1>5. q = Do(what, o, how, p)
  BY <1>2, <1>4, OneMore
<1> QED BY <1>1, <1>5 DEF p, q

LEMMA FiveStepsAre ==
  ASSUME NEW what, NEW o, NEW how, NEW b, NEW c, NEW d, NEW e
  PROVE  <<<<what, o, how>>, b, c, d, e>> = Do(what, o, how, <<b, c, d, e>>)
<1>1. PICK a : a = <<what, o, how>>
  OBVIOUS
<1> DEFINE T == {a, b, c, d, e}
           p == <<b, c, d, e>>
           q == <<a, b, c, d, e>>
<1>2. p \in Seq(T) /\ q \in Seq(T) /\ a \in T
  OBVIOUS
<1>3. Len(p) = 4 /\ Len(q) = 5 /\ q[1] = a /\ \A i \in 1..4 : q[i + 1] = p[i]
  OBVIOUS
<1> HIDE DEF T, p, q
<1>4. /\ <<what, o, how>> \in T /\ Len(q) = Len(p) + 1 /\ q[1] = <<what, o, how>>
      /\ \A i \in 1..Len(p) : q[i + 1] = p[i]
  BY <1>1, <1>2, <1>3
<1>5. q = Do(what, o, how, p)
  BY <1>2, <1>4, OneMore
<1> QED BY <1>1, <1>5 DEF p, q

LEMMA SixStepsAre ==
  ASSUME NEW what, NEW o, NEW how, NEW b, NEW c, NEW d, NEW e, NEW f
  PROVE  <<<<what, o, how>>, b, c, d, e, f>> = Do(what, o, how, <<b, c, d, e, f>>)
<1>1. PICK a : a = <<what, o, how>>
  OBVIOUS
<1> DEFINE T == {a, b, c, d, e, f}
           p == <<b, c, d, e, f>>
           q == <<a, b, c, d, e, f>>
<1>2. p \in Seq(T) /\ q \in Seq(T) /\ a \in T
  OBVIOUS
<1>3. Len(p) = 5 /\ Len(q) = 6 /\ q[1] = a /\ \A i \in 1..5 : q[i + 1] = p[i]
  OBVIOUS
<1> HIDE DEF T, p, q
<1>4. /\ <<what, o, how>> \in T /\ Len(q) = Len(p) + 1 /\ q[1] = <<what, o, how>>
      /\ \A i \in 1..Len(p) : q[i + 1] = p[i]
  BY <1>1, <1>2, <1>3
<1>5. q = Do(what, o, how, p)
  BY <1>2, <1>4, OneMore
<1> QED BY <1>1, <1>5 DEF p, q

LEMMA DisableIs ==
  ASSUME NEW o
  PROVE  /\ Disable(o, <<"ping">>) = Do("disable", o, "ping", <<>>)
         /\ Disable(o, <<"connection">>) = Do("disable", o, "connection", <<>>)
         /\ Disable(o, <<"ping", "connection">>) =
               Do("disable", o, "ping", Do("disable", o, "connection", <<>>))
<1>1. /\ Disable(o, <<"ping">>) = <<<<"disable", o, "ping">>>>
      /\ Disable(o, <<"connection">>) = <<<<"disable", o, "connection">>>>
  BY DEF Disable
<1>2. Disable(o, <<"ping", "connection">>) = <<<<"disable", o, "ping">>, <<"disable", o, "connection">>>>
  BY DEF Disable
<1>3. PICK x : x = <<"disable", o, "connection">>
  OBVIOUS
<1>4. <<<<"disable", o, "ping">>>> = Do("disable", o, "ping", <<>>)
  BY OneStepIs
<1>5. <<x>> = Do("disable", o, "connection", <<>>)
  BY <1>3, OneStepIs
<1>6. <<<<"disable", o, "ping">>, x>> = Do("disable", o, "ping", <<x>>)
  BY TwoStepsAre
<1>7. Disable(o, <<"ping", "connection">>) = Do("disable", o, "ping", <<x>>)
  BY <1>2, <1>3, <1>6
<1>8. Disable(o, <<"connection">>) = <<x>>
  BY <1>1, <1>3
<1> QED BY <1>1, <1>4, <1>5, <1>7, <1>8

(* Every handler's steps, before those that remain.                        *)
LEMMA StartsAre ==
  ASSUME NEW c, NEW r, IsSeq(r)
  PROVE  Before(Starts(c), r) = Asks(c, r) /\ IsSeq(Starts(c))
<1> DEFINE s1 == <<<<"leave", None, None>>>>
           s2 == <<<<"start", None, None>>, <<"leave", None, None>>>>
           s3 == <<<<"swap", None, None>>, <<"start", None, None>>, <<"leave", None, None>>>>
           s4 == <<<<"end", None, None>>, <<"swap", None, None>>, <<"start", None, None>>,
                   <<"leave", None, None>>>>
           s5 == <<<<"check", None, None>>, <<"end", None, None>>, <<"swap", None, None>>,
                   <<"start", None, None>>, <<"leave", None, None>>>>
<1>1. s1 = Do("leave", None, None, <<>>)
  BY OneStepIs
<1>2. s2 = Do("start", None, None, s1)
  BY TwoStepsAre
<1>3. s3 = Do("swap", None, None, s2)
  BY ThreeStepsAre
<1>4. s4 = Do("end", None, None, s3)
  BY FourStepsAre
<1>5. s5 = Do("check", None, None, s4)
  BY FiveStepsAre
<1>6. Starts(c) = Do("create", None, c, s5)
  BY SixStepsAre DEF Starts
<1>7. IsSeq(<<>>)
  BY ReturnIs
<1> HIDE DEF s1, s2, s3, s4, s5
<1>8. IsSeq(s1) /\ IsSeq(s2) /\ IsSeq(s3) /\ IsSeq(s4) /\ IsSeq(s5) /\ IsSeq(Starts(c))
  BY <1>1, <1>2, <1>3, <1>4, <1>5, <1>6, <1>7, DoIs
<1>9. Before(s1, r) = Leaves(r)
  BY <1>1, <1>7, DoAndRest, LastAndRest DEF Leaves
<1>10. Before(s2, r) = Begins(r)
  BY <1>2, <1>8, <1>9, DoAndRest, LastAndRest DEF Begins
<1>11. Before(s3, r) = TakesOver(r)
  BY <1>3, <1>8, <1>10, DoAndRest, LastAndRest DEF TakesOver
<1>12. Before(s4, r) = Ends(r)
  BY <1>4, <1>8, <1>11, DoAndRest, LastAndRest DEF Ends
<1>13. Before(s5, r) = Checks(r)
  BY <1>5, <1>8, <1>12, DoAndRest, LastAndRest DEF Checks
<1>14. Before(Starts(c), r) = Asks(c, r)
  BY <1>6, <1>8, <1>13, DoAndRest, LastAndRest DEF Asks
<1> QED BY <1>8, <1>14

LEMMA HandleErrorIs ==
  ASSUME NEW r, IsSeq(r)
  PROVE  Before(HandleError, r) = Fails(r) /\ IsSeq(HandleError)
<1> DEFINE s1 == <<<<"leave", None, None>>>>
           s2 == <<<<"swap", None, None>>, <<"leave", None, None>>>>
           s3 == <<<<"create", None, "IDLE_ACTION">>, <<"swap", None, None>>, <<"leave", None, None>>>>
           s4 == <<<<"disconnect", None, None>>, <<"create", None, "IDLE_ACTION">>,
                   <<"swap", None, None>>, <<"leave", None, None>>>>
<1>1. s1 = Do("leave", None, None, <<>>)
  BY OneStepIs
<1>2. s2 = Do("swap", None, None, s1)
  BY TwoStepsAre
<1>3. s3 = Do("create", None, "IDLE_ACTION", s2)
  BY ThreeStepsAre
<1>4. s4 = Do("disconnect", None, None, s3)
  BY FourStepsAre
<1>5. HandleError = Before(Disable(None, <<"ping", "connection">>), s4)
  BY DEF HandleError, Before
<1>6. IsSeq(<<>>)
  BY ReturnIs
<1> HIDE DEF s1, s2, s3, s4
<1>7. IsSeq(s1) /\ IsSeq(s2) /\ IsSeq(s3) /\ IsSeq(s4)
  BY <1>1, <1>2, <1>3, <1>4, <1>6, DoIs
<1> DEFINE stop == Do("disable", None, "connection", <<>>)
<1>8. Disable(None, <<"ping", "connection">>) = Do("disable", None, "ping", stop) /\ IsSeq(stop)
  BY <1>6, DisableIs, DoIs
<1>9. Before(stop, s4) = Do("disable", None, "connection", s4)
  BY <1>6, <1>7, DoAndRest, LastAndRest
<1> HIDE DEF stop
<1>10. HandleError = Do("disable", None, "ping", Do("disable", None, "connection", s4))
  BY <1>5, <1>7, <1>8, <1>9, DoAndRest, LastAndRest
<1>11. IsSeq(Do("disable", None, "connection", s4)) /\ IsSeq(HandleError)
  BY <1>7, <1>10, DoIs
<1>12. Before(s1, r) = Leaves(r)
  BY <1>1, <1>6, DoAndRest, LastAndRest DEF Leaves
<1>13. Before(s2, r) = Idles(r)
  BY <1>2, <1>7, <1>12, DoAndRest, LastAndRest DEF Idles
<1>14. Before(s3, r) = Breaks(r)
  BY <1>3, <1>7, <1>13, DoAndRest, LastAndRest DEF Breaks
<1>15. Before(s4, r) = Cuts(r)
  BY <1>4, <1>7, <1>14, DoAndRest, LastAndRest DEF Cuts
<1>16. Before(Do("disable", None, "connection", s4), r) = Stops(None, Cuts(r))
  BY <1>7, <1>15, DoAndRest, LastAndRest DEF Stops
<1>17. Before(HandleError, r) = Fails(r)
  BY <1>10, <1>11, <1>16, DoAndRest, LastAndRest DEF Fails
<1> QED BY <1>11, <1>17

LEMMA FlightEndedIs ==
  ASSUME NEW o, NEW r, IsSeq(r)
  PROVE  Before(FlightEnded(o), r) = Do("disable", o, "ping", IsOver(o, r))
<1> DEFINE starts == Starts("APP")
           idle == <<<<"state", o, "IDLE">>>>
<1>1. IsSeq(<<>>) /\ IsSeq(starts) /\ Before(starts, r) = Asks("APP", r)
  BY ReturnIs, StartsAre
<1>2. idle = Do("state", o, "IDLE", <<>>) /\ IsSeq(idle)
  BY <1>1, OneStepIs, DoIs
<1>3. FlightEnded(o) = Before(Before(Do("disable", o, "ping", <<>>), idle), starts)
  BY DisableIs DEF FlightEnded, Before
<1> HIDE DEF starts, idle
<1>4. Before(Do("disable", o, "ping", <<>>), idle) = Do("disable", o, "ping", idle)
  BY <1>1, <1>2, DoAndRest, LastAndRest
<1>5. Before(Do("disable", o, "ping", idle), starts) = Do("disable", o, "ping", Before(idle, starts))
  BY <1>1, <1>2, DoAndRest, LastAndRest
<1>6. Before(idle, starts) = Do("state", o, "IDLE", starts) /\ IsSeq(Before(idle, starts))
  <2>1. Before(idle, starts) = Do("state", o, "IDLE", starts)
    BY <1>1, <1>2, LastAndRest
  <2> QED BY <1>1, <2>1, DoIs
<1>7. Before(Before(idle, starts), r) = IsOver(o, r)
  BY <1>1, <1>6, DoAndRest, LastAndRest DEF IsOver
<1>8. Before(Do("disable", o, "ping", Before(idle, starts)), r) = Do("disable", o, "ping", IsOver(o, r))
  BY <1>6, <1>7, DoAndRest, LastAndRest
<1> QED BY <1>3, <1>4, <1>5, <1>8

LEMMA StartAndEndAre ==
  ASSUME NEW o, NEW r, IsSeq(r)
  PROVE  /\ Before(<<<<"state", o, "APP_LOOP">>, <<"enable", o, "ping">>, <<"enable", o, "connection">>>>,
                Leaves(r)) = Do("state", o, "APP_LOOP", Pings(o, r))
         /\ Before(<<<<"enable", o, "connection">>, <<"state", o, "INITIAL_COMMAND">>, <<"expect", o, None>>>>,
                Leaves(r)) = Do("enable", o, "connection", Commands(o, r))
         /\ Before(Disable(o, <<"ping", "connection">>), r) = Do("disable", o, "ping", Stops(o, r))
<1>1. IsSeq(<<>>) /\ IsSeq(Leaves(r))
  BY ReturnIs, PiecesAreSeqs
<1>2. Before(<<<<"state", o, "APP_LOOP">>, <<"enable", o, "ping">>, <<"enable", o, "connection">>>>,
                Leaves(r)) = Do("state", o, "APP_LOOP", Pings(o, r))
  <2> DEFINE s1 == <<<<"enable", o, "connection">>>>
             s2 == <<<<"enable", o, "ping">>, <<"enable", o, "connection">>>>
             s3 == <<<<"state", o, "APP_LOOP">>, <<"enable", o, "ping">>, <<"enable", o, "connection">>>>
  <2>1. s1 = Do("enable", o, "connection", <<>>)
    BY OneStepIs
  <2>2. s2 = Do("enable", o, "ping", s1)
    BY TwoStepsAre
  <2>3. s3 = Do("state", o, "APP_LOOP", s2)
    BY ThreeStepsAre
  <2> HIDE DEF s1, s2, s3
  <2>4. IsSeq(s1) /\ IsSeq(s2)
    BY <1>1, <2>1, <2>2, DoIs
  <2>5. Before(s1, Leaves(r)) = Watches(o, r)
    BY <1>1, <2>1, DoAndRest, LastAndRest DEF Watches
  <2>6. Before(s2, Leaves(r)) = Pings(o, r)
    BY <1>1, <2>2, <2>4, <2>5, DoAndRest, LastAndRest DEF Pings
  <2>7. Before(s3, Leaves(r)) = Do("state", o, "APP_LOOP", Pings(o, r))
    BY <1>1, <2>3, <2>4, <2>6, DoAndRest, LastAndRest
  <2> QED BY <2>7 DEF s3
<1>3. Before(<<<<"enable", o, "connection">>, <<"state", o, "INITIAL_COMMAND">>, <<"expect", o, None>>>>,
                Leaves(r)) = Do("enable", o, "connection", Commands(o, r))
  <2> DEFINE s1 == <<<<"expect", o, None>>>>
             s2 == <<<<"state", o, "INITIAL_COMMAND">>, <<"expect", o, None>>>>
             s3 == <<<<"enable", o, "connection">>, <<"state", o, "INITIAL_COMMAND">>, <<"expect", o, None>>>>
  <2>1. s1 = Do("expect", o, None, <<>>)
    BY OneStepIs
  <2>2. s2 = Do("state", o, "INITIAL_COMMAND", s1)
    BY TwoStepsAre
  <2>3. s3 = Do("enable", o, "connection", s2)
    BY ThreeStepsAre
  <2> HIDE DEF s1, s2, s3
  <2>4. IsSeq(s1) /\ IsSeq(s2)
    BY <1>1, <2>1, <2>2, DoIs
  <2>5. Before(s1, Leaves(r)) = Awaits(o, Leaves(r))
    BY <1>1, <2>1, DoAndRest, LastAndRest DEF Awaits
  <2>6. Before(s2, Leaves(r)) = Commands(o, r)
    BY <1>1, <2>2, <2>4, <2>5, DoAndRest, LastAndRest DEF Commands
  <2>7. Before(s3, Leaves(r)) = Do("enable", o, "connection", Commands(o, r))
    BY <1>1, <2>3, <2>4, <2>6, DoAndRest, LastAndRest
  <2> QED BY <2>7 DEF s3
<1>4. Before(Disable(o, <<"ping", "connection">>), r) = Do("disable", o, "ping", Stops(o, r))
  <2> DEFINE stop == Do("disable", o, "connection", <<>>)
  <2>1. IsSeq(stop) /\ Before(stop, r) = Stops(o, r)
    BY <1>1, DoIs, DoAndRest, LastAndRest DEF Stops
  <2>2. Disable(o, <<"ping", "connection">>) = Do("disable", o, "ping", stop)
    BY DisableIs
  <2> HIDE DEF stop
  <2> QED BY <2>1, <2>2, DoAndRest, LastAndRest
<1> QED BY <1>2, <1>3, <1>4

LEMMA NextIs ==
  ASSUME PointersAreHeld, NEW t \in Threads, ~Idle(t), Then(t, <<>>)
  PROVE  todo'[t] = Tail(todo[t])
BY RestIs

LEMMA CheckGoesOn ==
  ASSUME KnownTasks, PointersAreHeld, NEW t \in Threads,
         NEW r \in {<<>>, Return}, Remains(t, todo[t], r), Check(t)
  PROVE  UnderWay(t)'
<1>1. IsSeq(r) /\ (todo[t] = r => First(todo[t], "return", None, None, <<>>))
  BY ReturnIs DEF Check, Does, Idle
<1>2. /\ Does(t, "check") /\ ~Idle(t)
      /\ tasks' = tasks /\ object' = object /\ action' = action
  BY DEF Check, Does, shared
<1>3. \A w, o, h, rest : First(todo[t], w, o, h, rest) => w = "check" /\ rest = Tail(todo[t])
  BY <1>2, StepIsFirst
<1>4. PICK c \in {"APP", "SENSORS_LOGGER"} :
         /\ MayAsk(t, c) /\ Class(local[t]) = c
         /\ First(todo[t], "check", None, None, Ends(r))
  BY <1>1, <1>3 DEF Remains, Failing, Replacing, Starting, UserWants, LinkTells
<1>5. TasksMatch' <=> TasksMatch
  BY <1>2 DEF TasksMatch, In
<1>6. CASE IsActionDone(action)
  <2>1. Then(t, <<>>) /\ local' = local
    BY <1>6 DEF Check
  <2>2. todo'[t] = Ends(r)
    <3>1. todo'[t] = Tail(todo[t])
      BY <1>2, <2>1, NextIs
    <3> QED BY <1>3, <1>4, <3>1
  <2>3. First(todo'[t], "end", None, None, TakesOver(r))
    BY <1>1, <2>2, PiecesBegin
  <2>4. MayAsk(t, c)'
    BY <1>2, <1>4, <1>5 DEF MayAsk, Class
  <2>5. Replacing(t, todo[t], r)'
    BY <1>2, <1>4, <2>1, <2>3, <2>4 DEF Replacing, Class
  <2>6. Remains(t, todo[t], r)'
    BY <2>5 DEF Remains
  <2> QED BY <2>6 DEF UnderWay
<1>7. CASE ~IsActionDone(action)
  <2>1. todo'[t] = Before(IF t = "user" THEN <<>> ELSE HandleError, Return)
    BY <1>7 DEF Check, PointersAreHeld, Before, Return
  <2>2. CASE t = "user"
    <3>1. todo'[t] = Return /\ TasksMatch'
      BY <1>4, <1>5, <2>1, <2>2, ReturnIs, NothingAndRest DEF MayAsk
    <3>2. Remains(t, todo[t], Return)'
      BY <3>1 DEF Remains, Return
    <3> QED BY <3>2 DEF UnderWay, Return
  <2>3. CASE t # "user"
    <3>1. todo'[t] = Fails(Return)
      BY <2>1, <2>3, ReturnIs, HandleErrorIs
    <3>2. First(todo'[t], "disable", None, "ping", Stops(None, Cuts(Return)))
      BY <3>1, ReturnIs, PiecesBegin
    <3>3. Failing(t, todo[t], Return)'
      BY <3>2 DEF Failing
    <3>4. Remains(t, todo[t], Return)'
      BY <3>3 DEF Remains
    <3> QED BY <3>4 DEF UnderWay
  <2> QED BY <2>2, <2>3
<1> QED BY <1>6, <1>7

LEMMA SwapGoesOn ==
  ASSUME KnownTasks, PointersAreHeld, NEW t \in Threads,
         NEW r \in {<<>>, Return}, Remains(t, todo[t], r), Swap(t)
  PROVE  Remains(t, todo[t], r)'
<1>1. IsSeq(r) /\ (todo[t] = r => First(todo[t], "return", None, None, <<>>))
  BY ReturnIs DEF Swap, Does, Idle
<1>2. /\ Does(t, "swap") /\ todo'[t] = Tail(todo[t])
      /\ tasks' = tasks /\ object' = object /\ action' = local[t]
  BY RestIs DEF Swap, Does, shared
<1>3. \A w, o, h, rest : First(todo[t], w, o, h, rest) => w = "swap" /\ rest = todo'[t]
  BY <1>2, StepIsFirst
<1>4. \/ /\ First(todo[t], "swap", None, None, Leaves(r))
         /\ tasks = {} /\ Class(local[t]) = "IDLE_ACTION"
      \/ /\ First(todo[t], "swap", None, None, Begins(r))
         /\ Class(local[t]) = "APP" \/ (Class(local[t]) = "SENSORS_LOGGER" /\ tasks = {})
  BY <1>1, <1>3 DEF Remains, Failing, Replacing, Starting, UserWants, LinkTells
<1>5. Class(action)' = Class(local[t])
  BY <1>2 DEF Class
<1>6. CASE /\ First(todo[t], "swap", None, None, Leaves(r))
           /\ tasks = {} /\ Class(local[t]) = "IDLE_ACTION"
  <2>1. First(todo'[t], "leave", None, None, r)
    BY <1>1, <1>3, <1>6, PiecesBegin
  <2>2. TasksMatch'
    BY <1>2, <1>5, <1>6 DEF TasksMatch, In, Class
  <2>3. Starting(todo[t], r)'
    BY <2>1, <2>2 DEF Starting
  <2> QED BY <2>3 DEF Remains
<1>7. CASE /\ First(todo[t], "swap", None, None, Begins(r))
           /\ Class(local[t]) = "APP" \/ (Class(local[t]) = "SENSORS_LOGGER" /\ tasks = {})
  <2>1. First(todo'[t], "start", None, None, Leaves(r))
    BY <1>1, <1>3, <1>7, PiecesBegin
  <2>2. Starting(todo[t], r)'
    BY <1>2, <1>5, <1>7, <2>1 DEF Starting
  <2> QED BY <2>2 DEF Remains
<1> QED BY <1>4, <1>6, <1>7

LEMMA LeaveGoesOn ==
  ASSUME KnownTasks, PointersAreHeld, NEW t \in Threads,
         NEW r \in {<<>>, Return}, Remains(t, todo[t], r), Leave(t)
  PROVE  UnderWay(t)'
<1>1. IsSeq(r) /\ ~Idle(t)
  BY ReturnIs DEF Leave, Does
<1>2. /\ Does(t, "leave") \/ Does(t, "return")
      /\ todo'[t] = Tail(todo[t])
      /\ tasks' = tasks /\ object' = object /\ action' = action
  BY <1>1, RestIs DEF Leave
<1>3. \A w, o, h, rest : First(todo[t], w, o, h, rest) => w \in {"leave", "return"} /\ rest = todo'[t]
  BY <1>2, StepIsFirst
<1>4. TasksMatch /\ (First(todo[t], "leave", None, None, r) \/ todo[t] = r)
  BY <1>3 DEF Remains, Failing, Replacing, Starting, UserWants, LinkTells
<1>5. TasksMatch'
  BY <1>2, <1>4 DEF TasksMatch, In
<1>6. CASE First(todo[t], "leave", None, None, r)
  <2>1. todo'[t] = r
    BY <1>3, <1>6
  <2>2. Remains(t, todo[t], r)'
    BY <1>5, <2>1 DEF Remains
  <2> QED BY <2>2 DEF UnderWay, Return
<1>7. CASE todo[t] = r
  <2>1. todo'[t] = <<>>
    BY <1>1, <1>3, <1>7, ReturnIs DEF Idle
  <2>2. Remains(t, todo[t], <<>>)'
    BY <1>5, <2>1 DEF Remains
  <2> QED BY <2>2 DEF UnderWay
<1> QED BY <1>4, <1>6, <1>7

(* What a handler does next is put before what remains.                    *)
LEMMA HandleSays ==
  ASSUME PointersAreHeld, NEW t \in Threads, NEW r, IsSeq(r), NEW what, NEW o, NEW how,
         Does(t, what), First(todo[t], what, o, how, r), NEW p, Then(t, p)
  PROVE  todo'[t] = Before(p, r) /\ On(t) = o /\ How(t) = how
<1>1. Tail(todo[t]) = r /\ ~Idle(t) /\ On(t) = o /\ How(t) = how
  BY DEF First, Does, On, How
<1> QED BY <1>1, RestIs DEF Before

LEMMA UserIsHandled ==
  ASSUME KnownTasks, PointersAreHeld, NEW t \in Threads, t = "user",
         NEW r \in {<<>>, Return}, NEW e \in UserEvents, TasksMatch,
         UNCHANGED <<object, action, local, tasks>>,
         todo'[t] = Before(Handled(action, e), r)
  PROVE  Remains(t, todo[t], r)'
<1>1. IsSeq(r) /\ IsSeq(<<>>)
  BY ReturnIs
<1>2. PICK o : o = action
  OBVIOUS
<1>3. TasksMatch' <=> TasksMatch
  BY DEF TasksMatch, In
<1>4. CASE e = "BREAK_FLIGHT_LOOP" /\ In(action, "FLIGHT", {"FLING"})
  <2> DEFINE p == Disable(o, <<"ping", "connection">>)
             broken == <<<<"state", o, "BREAKING">>>>
  <2>1. todo'[t] = Before(Before(p, broken), r)
    BY <1>2, <1>4 DEF Handled, Before
  <2>2. broken = Do("state", o, "BREAKING", <<>>) /\ IsSeq(broken)
    BY <1>1, OneStepIs, DoIs
  <2>3. Before(p, broken) = Do("disable", o, "ping", Stops(o, broken))
    BY <2>2, StartAndEndAre
  <2> HIDE DEF p, broken
  <2>4. Before(Stops(o, broken), r) = Stops(o, IsBroken(o, r))
    BY <1>1, <2>2, DoAndRest, LastAndRest DEF Stops, IsBroken
  <2>5. IsSeq(Stops(o, broken)) /\ IsSeq(IsBroken(o, r)) /\ IsSeq(Stops(o, IsBroken(o, r)))
    BY <1>1, <2>2, PiecesAreSeqs
  <2>6. todo'[t] = Do("disable", o, "ping", Stops(o, IsBroken(o, r)))
    BY <1>1, <2>1, <2>3, <2>4, <2>5, DoAndRest
  <2>7. First(todo'[t], "disable", action, "ping", Stops(action, IsBroken(action, r)))
    BY <1>2, <2>5, <2>6, DoIs
  <2>8. UserWants(todo[t], r)'
    BY <1>4, <2>7 DEF UserWants, Class, In
  <2> QED BY <2>8 DEF Remains
<1>5. CASE e = "BREAK_SENSORS_LOGGER" /\ In(action, "SENSORS_LOGGER", {"LOGGING"})
  <2> DEFINE broken == <<<<"state", o, "BREAKING">>>>
             p == Disable(o, <<"connection">>)
             asks == <<<<"expect", o, None>>>>
  <2>1. todo'[t] = Before(Before(Before(broken, p), asks), r)
    BY <1>2, <1>5 DEF Handled, Before
  <2>2. broken = Do("state", o, "BREAKING", <<>>) /\ asks = Do("expect", o, None, <<>>)
        /\ p = Do("disable", o, "connection", <<>>)
    BY OneStepIs, DisableIs
  <2> HIDE DEF broken, p, asks
  <2>3. IsSeq(broken) /\ IsSeq(p) /\ IsSeq(asks)
    BY <1>1, <2>2, DoIs
  <2>4. Before(broken, p) = Do("state", o, "BREAKING", p)
    BY <2>2, <2>3, LastAndRest
  <2>5. Before(p, asks) = Do("disable", o, "connection", asks)
    BY <2>2, <2>3, LastAndRest
  <2>6. IsSeq(Do("disable", o, "connection", asks))
    BY <2>3, DoIs
  <2>7. Before(Before(broken, p), asks) = Do("state", o, "BREAKING", Do("disable", o, "connection", asks))
    BY <2>3, <2>4, <2>5, DoAndRest
  <2>8. Before(asks, r) = Awaits(o, r)
    BY <1>1, <2>2, LastAndRest DEF Awaits
  <2>9. Before(Do("disable", o, "connection", asks), r) = Stops(o, Awaits(o, r))
    BY <1>1, <2>3, <2>8, DoAndRest DEF Stops
  <2>10. todo'[t] = Do("state", o, "BREAKING", Stops(o, Awaits(o, r)))
    BY <1>1, <2>1, <2>6, <2>7, <2>9, DoAndRest
  <2>11. IsSeq(Awaits(o, r)) /\ IsSeq(Stops(o, Awaits(o, r)))
    BY <1>1, PiecesAreSeqs
  <2>12. First(todo'[t], "state", action, "BREAKING", Stops(action, Awaits(action, r)))
    BY <1>2, <2>10, <2>11, DoIs
  <2>13. tasks = {"connection"}
    BY <1>5 DEF TasksMatch, In
  <2>14. UserWants(todo[t], r)'
    BY <1>5, <2>12, <2>13 DEF UserWants, Class, In
  <2> QED BY <2>14 DEF Remains
<1>6. CASE e = "ACTION" /\ object[action].class = "APP"
  <2>1. todo'[t] = Asks("SENSORS_LOGGER", r)
    BY <1>1, <1>6, StartsAre DEF Handled, Before
  <2>2. First(todo'[t], "create", None, "SENSORS_LOGGER", Checks(r))
    BY <1>1, <2>1, PiecesBegin
  <2>3. MayAsk(t, "SENSORS_LOGGER")'
    BY <1>3, <1>6 DEF MayAsk, Class
  <2>4. Replacing(t, todo[t], r)'
    BY <2>2, <2>3 DEF Replacing
  <2> QED BY <2>4 DEF Remains
<1>7. CASE /\ ~(e = "BREAK_FLIGHT_LOOP" /\ In(action, "FLIGHT", {"FLING"}))
           /\ ~(e = "BREAK_SENSORS_LOGGER" /\ In(action, "SENSORS_LOGGER", {"LOGGING"}))
           /\ ~(e = "ACTION" /\ object[action].class = "APP")
  <2>1. todo'[t] = r
    BY <1>1, <1>7, NothingAndRest DEF Handled
  <2> QED BY <1>3, <2>1 DEF Remains
<1> QED BY <1>4, <1>5, <1>6, <1>7

LEMMA LinkIsHandled ==
  ASSUME KnownTasks, PointersAreHeld, NEW t \in Threads, t # "user",
         NEW r \in {<<>>, Return}, NEW f \in Frames, TasksMatch,
         UNCHANGED <<object, action, local, tasks>>,
         todo'[t] = Before(Heard(action, f), r)
  PROVE  Remains(t, todo[t], r)'
<1>1. IsSeq(r) /\ IsSeq(<<>>)
  BY ReturnIs
<1>2. PICK o : o = action
  OBVIOUS
<1>3. TasksMatch' <=> TasksMatch
  BY DEF TasksMatch, In
<1> DEFINE answer ==
       CASE f = "LOGGER_ACK" /\ In(action, "SENSORS_LOGGER", {"INITIAL_COMMAND"}) ->
                    <<<<"state", action, "LOGGING">>>>
         [] f = "LOGGER_BREAK_ACK" /\ In(action, "SENSORS_LOGGER", {"BREAKING"}) ->
                    <<<<"state", action, "IDLE">>>> \o Starts("APP")
         [] OTHER -> HandleError
<1>4. PICK p : p = answer
  OBVIOUS
<1>5. Heard(action, f) \in
         {HandleError, <<>>, FlightEnded(action), Before(<<<<"answered", action, None>>>>, p)}
  BY <1>4 DEF Heard, Before
<1>6. \/ p = <<<<"state", action, "LOGGING">>>> /\ In(action, "SENSORS_LOGGER", {"INITIAL_COMMAND"})
      \/ p = Before(<<<<"state", action, "IDLE">>>>, Starts("APP"))
      \/ p = HandleError
  BY <1>4 DEF Before
<1> HIDE DEF answer
<1>7. CASE Heard(action, f) = HandleError
  <2>1. todo'[t] = Fails(r)
    BY <1>1, <1>7, HandleErrorIs
  <2>2. First(todo'[t], "disable", None, "ping", Stops(None, Cuts(r)))
    BY <1>1, <2>1, PiecesBegin
  <2>3. Failing(t, todo[t], r)'
    BY <2>2 DEF Failing
  <2> QED BY <2>3 DEF Remains
<1>8. CASE Heard(action, f) = <<>>
  <2>1. todo'[t] = r
    BY <1>1, <1>8, NothingAndRest
  <2> QED BY <1>3, <2>1 DEF Remains
<1>9. CASE Heard(action, f) = FlightEnded(action)
  <2>1. todo'[t] = Do("disable", o, "ping", IsOver(o, r))
    BY <1>1, <1>2, <1>9, FlightEndedIs
  <2>2. IsSeq(IsOver(o, r))
    BY <1>1, PiecesAreSeqs
  <2>3. First(todo'[t], "disable", action, "ping", IsOver(action, r))
    BY <1>2, <2>1, <2>2, DoIs
  <2>4. LinkTells(todo[t], r)'
    BY <2>3 DEF LinkTells, Class
  <2> QED BY <2>4 DEF Remains
<1>10. CASE Heard(action, f) = Before(<<<<"answered", action, None>>>>, p)
  <2>1. todo'[t] = Before(Before(<<<<"answered", o, None>>>>, p), r)
    BY <1>2, <1>10
  <2>2. <<<<"answered", o, None>>>> = Do("answered", o, None, <<>>)
    BY OneStepIs
  <2>3. ASSUME NEW rest, IsSeq(p), IsSeq(rest), Before(p, r) = rest
        PROVE  First(todo'[t], "answered", action, None, rest)
    <3>1. Before(<<<<"answered", o, None>>>>, p) = Do("answered", o, None, p)
      BY <2>2, <2>3, LastAndRest
    <3>2. todo'[t] = Do("answered", o, None, rest)
      BY <1>1, <2>1, <2>3, <3>1, DoAndRest
    <3> QED BY <1>2, <2>3, <3>2, DoIs
  <2>4. CASE p = <<<<"state", action, "LOGGING">>>> /\ In(action, "SENSORS_LOGGER", {"INITIAL_COMMAND"})
    <3>1. p = Do("state", o, "LOGGING", <<>>)
      BY <1>2, <2>4, OneStepIs
    <3>2. Before(p, r) = Do("state", o, "LOGGING", r) /\ IsSeq(p) /\ IsSeq(Do("state", o, "LOGGING", r))
      BY <1>1, <3>1, LastAndRest, DoIs
    <3>3. First(todo'[t], "answered", action, None, Do("state", action, "LOGGING", r))
      BY <1>2, <2>3, <3>2
    <3>4. tasks = {"connection"}
      BY <2>4 DEF TasksMatch, In
    <3>5. LinkTells(todo[t], r)'
      BY <2>4, <3>3, <3>4 DEF LinkTells, Class, In
    <3> QED BY <3>5 DEF Remains
  <2>5. CASE p = Before(<<<<"state", action, "IDLE">>>>, Starts("APP"))
    <3>1. <<<<"state", o, "IDLE">>>> = Do("state", o, "IDLE", <<>>) /\ IsSeq(Starts("APP"))
          /\ Before(Starts("APP"), r) = Asks("APP", r)
      BY <1>1, OneStepIs, StartsAre
    <3>2. p = Do("state", o, "IDLE", Starts("APP"))
      BY <1>2, <2>5, <3>1, LastAndRest
    <3>3. IsSeq(p) /\ Before(p, r) = IsOver(o, r) /\ IsSeq(IsOver(o, r))
      BY <1>1, <3>1, <3>2, DoAndRest, DoIs, PiecesAreSeqs DEF IsOver
    <3>4. First(todo'[t], "answered", action, None, IsOver(action, r))
      BY <1>2, <2>3, <3>3
    <3>5. LinkTells(todo[t], r)'
      BY <3>4 DEF LinkTells, Class
    <3> QED BY <3>5 DEF Remains
  <2>6. CASE p = HandleError
    <3>1. IsSeq(p) /\ Before(p, r) = Fails(r) /\ IsSeq(Fails(r))
      BY <1>1, <2>6, HandleErrorIs, PiecesAreSeqs
    <3>2. First(todo'[t], "answered", action, None, Fails(r))
      BY <2>3, <3>1
    <3>3. LinkTells(todo[t], r)'
      BY <3>2 DEF LinkTells, Class
    <3> QED BY <3>3 DEF Remains
  <2> QED BY <1>6, <2>4, <2>5, <2>6
<1> QED BY <1>5, <1>7, <1>8, <1>9, <1>10

LEMMA EndGoesOn ==
  ASSUME KnownTasks, PointersAreHeld, NEW t \in Threads, NEW r \in {<<>>, Return},
         UNCHANGED <<object, action, local, tasks>>,
         Class(local[t]) \in {"APP", "SENSORS_LOGGER"},
         Class(local[t]) = "SENSORS_LOGGER" => Class(action) = "APP",
         todo'[t] = Before(EndOf(action), TakesOver(r))
  PROVE  Remains(t, todo[t], r)'
<1>1. IsSeq(r) /\ IsSeq(TakesOver(r))
  BY ReturnIs, PiecesAreSeqs
<1>2. PICK o : o = action
  OBVIOUS
<1>3. CASE Class(action) = "APP"
  <2>1. todo'[t] = Do("disable", o, "ping", Stops(o, TakesOver(r)))
    BY <1>1, <1>2, <1>3, StartAndEndAre DEF EndOf, Class
  <2>2. IsSeq(Stops(o, TakesOver(r)))
    BY <1>1, PiecesAreSeqs
  <2>3. First(todo'[t], "disable", action, "ping", Stops(action, TakesOver(r)))
    BY <1>2, <2>1, <2>2, DoIs
  <2>4. Replacing(t, todo[t], r)'
    BY <2>3 DEF Replacing, Class
  <2> QED BY <2>4 DEF Remains
<1>4. CASE Class(action) # "APP"
  <2>1. todo'[t] = TakesOver(r)
    BY <1>1, <1>4, NothingAndRest DEF EndOf, Class
  <2>2. First(todo'[t], "swap", None, None, Begins(r))
    BY <1>1, <2>1, PiecesBegin
  <2>3. Replacing(t, todo[t], r)'
    BY <1>4, <2>2 DEF Replacing, Class
  <2> QED BY <2>3 DEF Remains
<1> QED BY <1>3, <1>4

LEMMA StartGoesOn ==
  ASSUME KnownTasks, PointersAreHeld, NEW t \in Threads, NEW r \in {<<>>, Return},
         UNCHANGED <<object, action, local, tasks>>,
         Class(action) = "APP" \/ (Class(action) = "SENSORS_LOGGER" /\ tasks = {}),
         todo'[t] = Before(StartOf(action), Leaves(r))
  PROVE  Remains(t, todo[t], r)'
<1>1. IsSeq(r)
  BY ReturnIs
<1>2. PICK o : o = action
  OBVIOUS
<1>3. CASE Class(action) = "APP"
  <2>1. todo'[t] = Do("state", o, "APP_LOOP", Pings(o, r))
    BY <1>1, <1>2, <1>3, StartAndEndAre DEF StartOf, Class
  <2>2. IsSeq(Pings(o, r))
    BY <1>1, PiecesAreSeqs
  <2>3. First(todo'[t], "state", action, "APP_LOOP", Pings(action, r))
    BY <1>2, <2>1, <2>2, DoIs
  <2>4. Starting(todo[t], r)'
    BY <1>3, <2>3 DEF Starting, Class
  <2> QED BY <2>4 DEF Remains
<1>4. CASE Class(action) = "SENSORS_LOGGER" /\ tasks = {}
  <2>1. todo'[t] = Do("enable", o, "connection", Commands(o, r))
    BY <1>1, <1>2, <1>4, StartAndEndAre DEF StartOf, Class
  <2>2. IsSeq(Commands(o, r))
    BY <1>1, PiecesAreSeqs
  <2>3. First(todo'[t], "enable", action, "connection", Commands(action, r))
    BY <1>2, <2>1, <2>2, DoIs
  <2>4. Starting(todo[t], r)'
    BY <1>4, <2>3 DEF Starting, Class
  <2> QED BY <2>4 DEF Remains
<1> QED BY <1>3, <1>4

LEMMA HandleGoesOn ==
  ASSUME KnownTasks, PointersAreHeld, NEW t \in Threads,
         NEW r \in {<<>>, Return}, Remains(t, todo[t], r), Handle(t)
  PROVE  Remains(t, todo[t], r)'
<1>1. IsSeq(r) /\ IsSeq(Leaves(r)) /\ IsSeq(TakesOver(r))
      /\ (todo[t] = r => First(todo[t], "return", None, None, <<>>))
  BY ReturnIs, PiecesAreSeqs DEF Handle, Does, Idle
<1>2. UNCHANGED <<object, action, local, tasks>>
  BY DEF Handle, memory, held, shared
<1>3. TasksMatch' <=> TasksMatch
  BY <1>2 DEF TasksMatch, In
<1>4. PICK a : a = action
  OBVIOUS
<1>5. CASE Does(t, "user") /\ Then(t, Handled(On(t), How(t)))
  <2>1. \A w, o, h, rest : First(todo[t], w, o, h, rest) => w = "user"
    BY <1>5, StepIsFirst
  <2>2. t = "user" /\ TasksMatch /\ \E e \in UserEvents : First(todo[t], "user", action, e, r)
    BY <1>1, <2>1 DEF Remains, Failing, Replacing, Starting, UserWants, LinkTells
  <2>3. PICK e \in UserEvents : First(todo[t], "user", a, e, r)
    BY <1>4, <2>2
  <2>4. PICK p : p = Handled(On(t), How(t))
    OBVIOUS
  <2>5. todo'[t] = Before(p, r) /\ On(t) = a /\ How(t) = e
    BY <1>1, <1>5, <2>3, <2>4, HandleSays
  <2>6. todo'[t] = Before(Handled(action, e), r)
    BY <1>4, <2>4, <2>5
  <2> QED BY <1>2, <2>2, <2>6, UserIsHandled
<1>6. CASE Does(t, "hear") /\ Then(t, Heard(On(t), How(t)))
  <2>1. \A w, o, h, rest : First(todo[t], w, o, h, rest) => w = "hear"
    BY <1>6, StepIsFirst
  <2>2. t # "user" /\ TasksMatch /\ \E f \in Frames : First(todo[t], "hear", action, f, r)
    BY <1>1, <2>1 DEF Remains, Failing, Replacing, Starting, UserWants, LinkTells
  <2>3. PICK f \in Frames : First(todo[t], "hear", a, f, r)
    BY <1>4, <2>2
  <2>4. PICK p : p = Heard(On(t), How(t))
    OBVIOUS
  <2>5. todo'[t] = Before(p, r) /\ On(t) = a /\ How(t) = f
    BY <1>1, <1>6, <2>3, <2>4, HandleSays
  <2>6. todo'[t] = Before(Heard(action, f), r)
    BY <1>4, <2>4, <2>5
  <2> QED BY <1>2, <2>2, <2>6, LinkIsHandled
<1>7. CASE Does(t, "timeout") /\ Then(t, IF On(t) \in expecting THEN HandleError ELSE <<>>)
  <2>1. \A w, o, h, rest : First(todo[t], w, o, h, rest) => w = "timeout"
    BY <1>7, StepIsFirst
  <2>2. TasksMatch /\ \E o \in expecting : First(todo[t], "timeout", o, None, r)
    BY <1>1, <2>1 DEF Remains, Failing, Replacing, Starting, UserWants, LinkTells
  <2>3. PICK o : First(todo[t], "timeout", o, None, r)
    BY <2>2
  <2>4. PICK p : p = IF On(t) \in expecting THEN HandleError ELSE <<>>
    OBVIOUS
  <2>5. todo'[t] = Before(p, r)
    BY <1>1, <1>7, <2>3, <2>4, HandleSays
  <2>6. CASE p = HandleError
    <3>1. todo'[t] = Fails(r)
      BY <1>1, <2>5, <2>6, HandleErrorIs
    <3>2. First(todo'[t], "disable", None, "ping", Stops(None, Cuts(r)))
      BY <1>1, <3>1, PiecesBegin
    <3>3. Failing(t, todo[t], r)'
      BY <3>2 DEF Failing
    <3> QED BY <3>3 DEF Remains
  <2>7. CASE p = <<>>
    <3>1. todo'[t] = r
      BY <1>1, <2>5, <2>7, NothingAndRest
    <3> QED BY <1>3, <2>2, <3>1 DEF Remains
  <2> QED BY <2>4, <2>6, <2>7
<1>8. CASE Does(t, "end") /\ Then(t, EndOf(action))
  <2>1. \A w, o, h, rest : First(todo[t], w, o, h, rest) => w = "end"
    BY <1>8, StepIsFirst
  <2>2. PICK c \in {"APP", "SENSORS_LOGGER"} :
           /\ MayAsk(t, c) /\ Class(local[t]) = c
           /\ First(todo[t], "end", None, None, TakesOver(r))
    BY <1>1, <2>1 DEF Remains, Failing, Replacing, Starting, UserWants, LinkTells
  <2>3. PICK p : p = EndOf(action)
    OBVIOUS
  <2>4. todo'[t] = Before(EndOf(action), TakesOver(r))
    BY <1>1, <1>8, <2>2, <2>3, HandleSays
  <2>5. Class(local[t]) = "SENSORS_LOGGER" => Class(action) = "APP"
    BY <2>2 DEF MayAsk
  <2> QED BY <1>2, <2>2, <2>4, <2>5, EndGoesOn
<1>9. CASE Does(t, "start") /\ Then(t, StartOf(action))
  <2>1. \A w, o, h, rest : First(todo[t], w, o, h, rest) => w = "start"
    BY <1>9, StepIsFirst
  <2>2. /\ First(todo[t], "start", None, None, Leaves(r))
        /\ Class(action) = "APP" \/ (Class(action) = "SENSORS_LOGGER" /\ tasks = {})
    BY <1>1, <2>1 DEF Remains, Failing, Replacing, Starting, UserWants, LinkTells
  <2>3. PICK p : p = StartOf(action)
    OBVIOUS
  <2>4. todo'[t] = Before(StartOf(action), Leaves(r))
    BY <1>1, <1>9, <2>2, <2>3, HandleSays
  <2> QED BY <1>2, <2>2, <2>4, StartGoesOn
<1> QED BY <1>5, <1>6, <1>7, <1>8, <1>9 DEF Handle

LEMMA StepGoesOn ==
  ASSUME KnownTasks, PointersAreHeld, PointersKeep, NEW t \in Threads, UnderWay(t), Step(t)
  PROVE  UnderWay(t)'
<1>1. PICK r \in {<<>>, Return} : Remains(t, todo[t], r)
  BY DEF UnderWay
<1>2. CASE Check(t)
  BY <1>1, <1>2, CheckGoesOn
<1>3. CASE Leave(t)
  BY <1>1, <1>3, LeaveGoesOn
<1>4. CASE ~Check(t) /\ ~Leave(t)
  <2>1. Remains(t, todo[t], r)'
    BY <1>1, <1>4, EnableGoesOn, DisableGoesOn, SetStateGoesOn, ExpectGoesOn, DisconnectGoesOn,
       CreateGoesOn, SwapGoesOn, HandleGoesOn DEF Step
  <2> QED BY <2>1 DEF UnderWay
<1> QED BY <1>2, <1>3, <1>4

LEMMA TasksAreKnown ==
  ASSUME KnownTasks, PointersAreHeld, PointersKeep, NEW t \in Threads, Step(t), UnderWay(t)
  PROVE  KnownTasks'
<1>1. CASE Enable(t)
  <2>1. Does(t, "enable") /\ tasks' = tasks \cup {How(t)} /\ UNCHANGED <<object, alive>>
    BY <1>1 DEF Enable, memory
  <2>2. PICK r \in {<<>>, Return} : Remains(t, todo[t], r)
    BY DEF UnderWay
  <2>3. todo[t] = r => First(todo[t], "return", None, None, <<>>)
    BY <2>1, ReturnIs DEF Does, Idle
  <2>4. \A w, o, h, rest : First(todo[t], w, o, h, rest) => w = "enable" /\ h = How(t)
    BY <2>1, StepIsFirst
  <2>5. How(t) \in {"ping", "connection"}
    BY <2>2, <2>3, <2>4 DEF Remains, Failing, Replacing, Starting, UserWants, LinkTells
  <2> QED BY <2>1, <2>5 DEF KnownTasks
<1>2. CASE SetState(t)
  <2>1. object' = [object EXCEPT ![On(t)].state = How(t)] /\ alive' = alive /\ tasks' = tasks
    BY <1>2 DEF SetState, shared
  <2> QED BY <2>1 DEF KnownTasks
<1>3. CASE Create(t)
  <2>1. tasks' = tasks
    BY <1>3 DEF Create, shared
  <2> QED BY <1>3, <2>1, CreateAdds DEF KnownTasks
<1>4. CASE Leave(t)
  <2>1. alive' \subseteq alive /\ UNCHANGED <<object, tasks>>
    BY <1>4 DEF Leave, Collected
  <2> QED BY <2>1 DEF KnownTasks
<1>5. CASE DisableTask(t)
  BY <1>5 DEF DisableTask, memory, KnownTasks
<1>6. CASE Expect(t) \/ Disconnect(t) \/ Handle(t) \/ Check(t) \/ Swap(t)
  <2>1. UNCHANGED <<object, alive, tasks>>
    BY <1>6 DEF Expect, Disconnect, Handle, Check, Swap, memory, shared
  <2> QED BY <2>1 DEF KnownTasks
<1> QED BY <1>1, <1>2, <1>3, <1>4, <1>5, <1>6 DEF Step

(* A thread's step is that thread's alone.                                 *)
LEMMA StepIsOnes ==
  ASSUME PointersAreHeld, NEW t \in Threads, Step(t)
  PROVE  ~Idle(t) /\ overlapped' = overlapped /\ \A u \in Threads : u # t => todo'[u] = todo[u]
<1>1. /\ ~Idle(t) /\ overlapped' = overlapped
      /\ \E p : todo' = [todo EXCEPT ![t] = p]
  BY DEF Step, Enable, DisableTask, SetState, Expect, Disconnect, Handle, Create, Check, Swap,
         Leave, Does, Then
<1> QED BY <1>1 DEF PointersAreHeld

LEMMA StepKeepsTurn ==
  ASSUME TurnInv, PointersAreHeld, PointersKeep, NEW t \in Threads, Step(t)
  PROVE  TurnInv'
<1> SUFFICES ASSUME ~overlapped' PROVE KnownTasks' /\ InTurn'
  BY DEF TurnInv
<1>1. /\ ~Idle(t) /\ KnownTasks /\ InTurn
      /\ \A u \in Threads : u # t => todo'[u] = todo[u]
  BY StepIsOnes DEF TurnInv
<1>2. UnderWay(t) /\ \A u \in Threads : u # t => todo[u] = <<>>
  BY <1>1 DEF InTurn, Idle
<1>3. KnownTasks' /\ UnderWay(t)'
  BY <1>1, <1>2, TasksAreKnown, StepGoesOn
<1>4. \A u \in Threads : u # t => todo'[u] = <<>>
  BY <1>1, <1>2
<1>5. AtRest' => TasksMatch'
  <2>1. Idle(t)' => TasksMatch'
    <3> SUFFICES ASSUME Idle(t)' PROVE TasksMatch'
      OBVIOUS
    <3>1. PICK r \in {<<>>, Return} : Remains(t, todo[t], r)'
      BY <1>3 DEF UnderWay
    <3>2. todo'[t] = <<>> /\ \A w, o, h, rest : ~First(todo'[t], w, o, h, rest)
      BY DEF Idle, First
    <3> QED BY <3>1, <3>2, ReturnIs DEF Remains, Failing, Replacing, Starting, UserWants, LinkTells
  <2> QED BY <2>1 DEF AtRest
<1> QED BY <1>3, <1>4, <1>5 DEF InTurn, Idle

(* A call that finds no other under way.                                   *)
LEMMA EntersInTurn ==
  ASSUME TurnInv, PointersAreHeld, NEW t \in Threads, Enters(t), ~overlapped',
         UNCHANGED <<object, alive, action, tasks>>,
         NEW s, todo' = [todo EXCEPT ![t] = s], s # <<>>,
         TasksMatch => UnderWay(t)'
  PROVE  TurnInv'
<1>1. ~overlapped /\ AtRest /\ KnownTasks /\ InTurn
  BY DEF Enters, TurnInv, AtRest
<1>2. UnderWay(t)'
  BY <1>1 DEF InTurn
<1>3. todo'[t] = s /\ \A u \in Threads : u # t => todo'[u] = <<>>
  BY <1>1 DEF PointersAreHeld, AtRest, Idle
<1>4. KnownTasks'
  BY <1>1 DEF KnownTasks
<1>5. ~AtRest'
  BY <1>3 DEF AtRest, Idle
<1> QED BY <1>2, <1>3, <1>4, <1>5 DEF TurnInv, InTurn, Idle

LEMMA EntriesKeepTurn ==
  ASSUME TurnInv, PointersAreHeld, PointersKeep,
         PushUserUavEvent \/ OnDataReceived \/ OnError \/ OnTimeout
  PROVE  TurnInv'
<1> SUFFICES ASSUME ~overlapped' PROVE TurnInv'
  BY DEF TurnInv
<1>1. PICK a : a = action
  OBVIOUS
<1>2. IsSeq(<<>>) /\ IsSeq(Return)
  BY ReturnIs
<1>3. CASE PushUserUavEvent
  <2>1. PICK e \in UserEvents : Notify("user", <<<<"user", action, e>>, <<"return", None, None>>>>)
    BY <1>3 DEF PushUserUavEvent
  <2>2. PICK s : s = <<<<"user", a, e>>, <<"return", None, None>>>>
    OBVIOUS
  <2>3. s = Do("user", a, e, Return)
    BY <2>2, TwoStepsAre DEF Return
  <2>4. First(s, "user", a, e, Return) /\ s # <<>>
    BY <1>2, <2>3, DoIs DEF First
  <2>5. Enters("user") /\ UNCHANGED <<object, alive, action, tasks>>
    BY <1>3 DEF PushUserUavEvent, memory, shared
  <2>6. todo' = [todo EXCEPT !["user"] = s] /\ "user" \in Threads
    BY <1>1, <2>1, <2>2 DEF Notify, Threads
  <2>7. todo'["user"] = s
    BY <2>6 DEF PointersAreHeld
  <2>8. ASSUME TasksMatch PROVE UnderWay("user")'
    <3>1. TasksMatch'
      BY <2>5, <2>8 DEF TasksMatch, In
    <3>2. UserWants(todo["user"], Return)'
      BY <1>1, <2>4, <2>5, <2>7, <3>1 DEF UserWants, Class
    <3>3. Remains("user", todo["user"], Return)'
      BY <3>2 DEF Remains
    <3> QED BY <3>3 DEF UnderWay
  <2> QED BY <2>4, <2>5, <2>6, <2>8, EntersInTurn
<1>4. CASE OnDataReceived
  <2>1. PICK f \in Frames : Notify("link", <<<<"hear", action, f>>, <<"return", None, None>>>>)
    BY <1>4 DEF OnDataReceived
  <2>2. PICK s : s = <<<<"hear", a, f>>, <<"return", None, None>>>>
    OBVIOUS
  <2>3. s = Do("hear", a, f, Return)
    BY <2>2, TwoStepsAre DEF Return
  <2>4. First(s, "hear", a, f, Return) /\ s # <<>>
    BY <1>2, <2>3, DoIs DEF First
  <2>5. Enters("link") /\ UNCHANGED <<object, alive, action, tasks>>
    BY <1>4 DEF OnDataReceived, memory, shared
  <2>6. todo' = [todo EXCEPT !["link"] = s] /\ "link" \in Threads
    BY <1>1, <2>1, <2>2 DEF Notify, Threads
  <2>7. todo'["link"] = s
    BY <2>6 DEF PointersAreHeld
  <2>8. ASSUME TasksMatch PROVE UnderWay("link")'
    <3>1. TasksMatch'
      BY <2>5, <2>8 DEF TasksMatch, In
    <3>2. LinkTells(todo["link"], Return)'
      BY <1>1, <2>4, <2>5, <2>7, <3>1 DEF LinkTells, Class
    <3>3. Remains("link", todo["link"], Return)'
      BY <3>2 DEF Remains
    <3> QED BY <3>3 DEF UnderWay
  <2> QED BY <2>4, <2>5, <2>6, <2>8, EntersInTurn
<1>5. CASE OnError
  <2>1. HandleError = Fails(<<>>)
    <3>1. Before(HandleError, <<>>) = Fails(<<>>) /\ IsSeq(HandleError)
      BY <1>2, HandleErrorIs
    <3>2. PICK S : HandleError \in Seq(S)
      BY <3>1 DEF IsSeq
    <3>3. Before(HandleError, <<>>) = HandleError
      BY <3>2, ConcatEmptySeq DEF Before
    <3> QED BY <3>1, <3>3
  <2>2. PICK s : s = Fails(<<>>)
    OBVIOUS
  <2>3. First(s, "disable", None, "ping", Stops(None, Cuts(<<>>)))
    BY <1>2, <2>2, PiecesBegin
  <2>4. s # <<>>
    BY <2>3 DEF First
  <2>5. Enters("link") /\ UNCHANGED <<object, alive, action, tasks>>
    BY <1>5 DEF OnError, memory, shared
  <2>6. todo' = [todo EXCEPT !["link"] = s] /\ "link" \in Threads
    BY <1>5, <2>1, <2>2 DEF OnError, Threads
  <2>7. todo'["link"] = s
    BY <2>6 DEF PointersAreHeld
  <2>8. UnderWay("link")'
    <3>1. Failing("link", todo["link"], <<>>)'
      BY <2>3, <2>7 DEF Failing
    <3>2. Remains("link", todo["link"], <<>>)'
      BY <3>1 DEF Remains
    <3> QED BY <3>2 DEF UnderWay
  <2> QED BY <2>4, <2>5, <2>6, <2>8, EntersInTurn
<1>6. CASE OnTimeout
  <2>1. PICK o \in expecting : todo' = [todo EXCEPT !["timer"] = <<<<"timeout", o, None>>>>]
    BY <1>6 DEF OnTimeout
  <2>2. PICK s : s = <<<<"timeout", o, None>>>>
    OBVIOUS
  <2>3. s = Do("timeout", o, None, <<>>)
    BY <2>2, OneStepIs
  <2>4. First(s, "timeout", o, None, <<>>) /\ s # <<>>
    BY <1>2, <2>3, DoIs DEF First
  <2>5. Enters("timer") /\ UNCHANGED <<object, alive, action, tasks, expecting>>
    BY <1>6 DEF OnTimeout, memory, shared
  <2>6. todo' = [todo EXCEPT !["timer"] = s] /\ "timer" \in Threads
    BY <2>1, <2>2 DEF Threads
  <2>7. todo'["timer"] = s
    BY <2>6 DEF PointersAreHeld
  <2>8. ASSUME TasksMatch PROVE UnderWay("timer")'
    <3>1. TasksMatch'
      BY <2>5, <2>8 DEF TasksMatch, In
    <3>2. LinkTells(todo["timer"], <<>>)'
      BY <2>4, <2>5, <2>7, <3>1 DEF LinkTells, Class
    <3>3. Remains("timer", todo["timer"], <<>>)'
      BY <3>2 DEF Remains
    <3> QED BY <3>3 DEF UnderWay
  <2> QED BY <2>4, <2>5, <2>6, <2>8, EntersInTurn
<1> QED BY <1>3, <1>4, <1>5, <1>6

(* As long as no call comes while another is under way, the ping and the   *)
(* connection timeout task run as the current action needs them whenever   *)
(* none is: after any number of events, errors and timeouts in any order,  *)
(* MulticopterUav::startAction, handleError and the actions' start and end *)
(* leave neither of them behind nor out.                                   *)
THEOREM CallsInTurnAlwaysKeepTasks == Spec => []CallsInTurnKeepTasks
<1>1. Init => TurnInv
  <2> SUFFICES ASSUME Init PROVE TurnInv
    OBVIOUS
  <2>1. /\ object = <<[class |-> "FLIGHT", state |-> "FLING"]>> /\ action = 1 /\ alive = {1}
        /\ tasks = {"ping"} /\ \A t \in Threads : todo[t] = <<>>
    BY DEF Init
  <2>2. object[1] = [class |-> "FLIGHT", state |-> "FLING"] /\ DOMAIN object = {1}
    BY <2>1
  <2>3. KnownTasks
    BY <2>1, <2>2 DEF KnownTasks
  <2>4. TasksMatch
    BY <2>1, <2>2 DEF TasksMatch, In
  <2>5. InTurn
    BY <2>1, <2>4 DEF InTurn, Idle
  <2> QED BY <2>3, <2>5 DEF TurnInv
<1>2. TurnInv /\ PointersAreHeld /\ PointersKeep /\ [Next]_vars => TurnInv'
  <2> SUFFICES ASSUME TurnInv, PointersAreHeld, PointersKeep, [Next]_vars PROVE TurnInv'
    OBVIOUS
  <2>1. CASE UNCHANGED vars
    <3>1. UNCHANGED <<object, alive, action, local, tasks, expecting, todo, overlapped>>
      BY <2>1 DEF vars, memory, held, shared
    <3>2. TasksMatch' = TasksMatch
      BY <3>1 DEF TasksMatch, In
    <3>3. \A t \in Threads : UnderWay(t)' = UnderWay(t)
      BY <3>1, <3>2 DEF UnderWay, Remains, Failing, Replacing, Starting, UserWants, LinkTells,
                        MayAsk, Class
    <3> QED BY <3>1, <3>2, <3>3 DEF TurnInv, KnownTasks, InTurn, AtRest, Idle
  <2>2. CASE PushUserUavEvent \/ OnDataReceived \/ OnError \/ OnTimeout
    BY <2>2, EntriesKeepTurn
  <2>3. ASSUME NEW t \in Threads, Step(t)
        PROVE  TurnInv'
    BY <2>3, StepKeepsTurn
  <2> QED BY <2>1, <2>2, <2>3 DEF Next
<1>3. TurnInv => CallsInTurnKeepTasks
  BY DEF TurnInv, InTurn, CallsInTurnKeepTasks
<1> QED BY <1>1, <1>2, <1>3, PointersKeepAlways, PointersAreAlwaysHeld, PTL DEF Spec
=============================================================================
