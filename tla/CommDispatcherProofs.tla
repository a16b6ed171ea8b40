------------------------ MODULE CommDispatcherProofs ------------------------
(***************************************************************************)
(* Theorems about CommDispatcher, for preambles of any length, frames of   *)
(* any sizes, records of any lengths and any stream of bytes.              *)
(*                                                                         *)
(* The ring is read here from its newest byte back (AtIn).  A new byte     *)
(* moves each of the others one place on, wherever the ring begins, and so *)
(* a run of marks grows by one or ends; that is all the parser knows of    *)
(* the bytes that came before, and all FrameStream asks of them.           *)
(***************************************************************************)
EXTENDS CommDispatcher, FiniteSetTheorems, TLAPS

(* The run in a ring r whose next position is p.                           *)
AtIn(r, p, k) == r[(p + Repeats - k) % Repeats]

TrailingIn(r, p, k) == \A j \in 1..k : AtIn(r, p, j) = AtIn(r, p, 1)

IsLongest(r, p, k) == TrailingIn(r, p, k) /\ (k < Repeats => ~TrailingIn(r, p, k + 1))

RunIn(r, p) ==
    IF AtIn(r, p, 1) \notin Marks THEN [mark |-> Zero, times |-> 0]
    ELSE [mark |-> AtIn(r, p, 1), times |-> CHOOSE k \in 1..Repeats : IsLongest(r, p, k)]

Rings == [Positions -> Bytes]

(* A byte written in the ring, and the position after it.                  *)
Written(r, p, b) == [r EXCEPT ![p] = b]
After(p)         == IF p + 1 >= Repeats THEN 0 ELSE p + 1

(* How long the frame under way is, by what is known of it; nothing of it  *)
(* is left when it ends.                                                   *)
TargetOf(m, k) ==
    CASE m = "$"                    -> ControlSize + CrcSize
      [] m = "^"                    -> AutopilotSize + CrcSize
      [] m = "%" /\ k = "command"   -> ConstraintSize + CrcSize
      [] m = "%" /\ k = "packet"    -> ConstraintSize + PacketSize + CrcSize
      [] OTHER                      -> ConstraintSize

FrameIsKnown ==
    /\ active = None => kind = None /\ filled = 0
    /\ active # None => target = TargetOf(active, kind)
    /\ kind # None => active = "%" /\ filled >= ConstraintSize

ParserInv == TypeOK /\ FrameIsKnown
-----------------------------------------------------------------------------
(***************************************************************************)
(* The ring.                                                               *)
(***************************************************************************)
LEMMA SizesArePositive ==
  /\ Repeats \in Nat \ {0} /\ ConstraintSize \in Nat \ {0} /\ PacketSize \in Nat \ {0}
  /\ CrcSize \in Nat \ {0} /\ ControlSize \in Nat \ {0} /\ AutopilotSize \in Nat \ {0}
BY SizesAssumption DEF SizesAssumption, Sizes

Place(p, k) == IF k <= p THEN p - k ELSE p + Repeats - k

LEMMA PlaceOf ==
  ASSUME NEW r, NEW p \in Positions, NEW k \in 1..Repeats
  PROVE  Place(p, k) \in Positions /\ AtIn(r, p, k) = r[Place(p, k)]
<1>1. Place(p, k) \in Positions
  BY SizesArePositive DEF Place, Positions
<1>2. (p + Repeats - k) % Repeats = Place(p, k)
  <2>1. \A n \in Nat \ {0} : \A x \in 0..(n - 1) : x % n = x /\ (x + n) % n = x
    OBVIOUS
  <2>2. p + Repeats - k = IF k <= p THEN Place(p, k) + Repeats ELSE Place(p, k)
    BY SizesArePositive DEF Place, Positions
  <2>3. Place(p, k) \in 0..(Repeats - 1)
    BY <1>1 DEF Positions
  <2> QED BY <2>1, <2>2, <2>3, SizesArePositive
<1> QED BY <1>1, <1>2 DEF AtIn

(* Every byte of the ring is one of those last read.                       *)
LEMMA EveryPlace ==
  ASSUME NEW p \in Positions, NEW i \in Positions
  PROVE  \E k \in 1..Repeats : Place(p, k) = i
<1>1. CASE i < p
  <2>1. p - i \in 1..Repeats /\ Place(p, p - i) = i
    BY <1>1, SizesArePositive DEF Place, Positions
  <2> QED BY <2>1
<1>2. CASE i >= p
  <2>1. p + Repeats - i \in 1..Repeats /\ Place(p, p + Repeats - i) = i
    BY <1>2, SizesArePositive DEF Place, Positions
  <2> QED BY <2>1
<1>3. i < p \/ i >= p
  BY SizesArePositive DEF Positions
<1> QED BY <1>1, <1>2, <1>3

(* There is a longest run at the end of the ring: the numbers of its       *)
(* trailing runs are 1 up to the number of them.                           *)
LEMMA LongestExists ==
  ASSUME NEW r, NEW p
  PROVE  \E k \in 1..Repeats : IsLongest(r, p, k)
<1> DEFINE K == {k \in 1..Repeats : TrailingIn(r, p, k)}
           c == Cardinality(K)
<1>1. IsFiniteSet(1..Repeats) /\ K \in SUBSET (1..Repeats)
  BY SizesArePositive, FS_Interval, 1 \in Int
<1>2. IsFiniteSet(K) /\ c \in Nat
  BY <1>1, FS_Subset, FS_CardinalityType
<1>3. \A k \in K : \A j \in 1..k : j \in K
  BY SizesArePositive DEF TrailingIn
<1>4. 1 \in K
  BY SizesArePositive DEF TrailingIn
<1> HIDE DEF K, c
<1>5. c \in K
  <2> SUFFICES ASSUME c \notin K PROVE FALSE
    OBVIOUS
  <2>1. c # 0
    BY <1>2, <1>4, FS_EmptySet DEF c
  <2>2. K \in SUBSET (1..(c - 1))
    <3> SUFFICES ASSUME NEW k \in K PROVE k \in 1..(c - 1)
      OBVIOUS
    <3>1. k \in Nat /\ k >= 1
      BY <1>1, SizesArePositive
    <3>2. ~(c \in 1..k)
      BY <1>3
    <3> QED BY <1>2, <2>1, <3>1, <3>2
  <2>3. IsFiniteSet(1..(c - 1)) /\ Cardinality(1..(c - 1)) = c - 1
    <3>1. c - 1 \in Int /\ 1 \in Int /\ c - 1 >= 0
      BY <1>2, <2>1
    <3> QED BY <1>2, <3>1, FS_Interval
  <2>4. Cardinality(K) <= Cardinality(1..(c - 1))
    BY <2>2, <2>3, FS_Subset
  <2>5. c <= c - 1
    BY <2>3, <2>4 DEF c
  <2> QED BY <1>2, <2>5
<1>6. c + 1 \notin K
  <2> SUFFICES ASSUME c + 1 \in K PROVE FALSE
    OBVIOUS
  <2>1. 1..(c + 1) \in SUBSET K
    BY <1>3
  <2>2. Cardinality(1..(c + 1)) = c + 1
    BY <1>2, FS_Interval, 1 \in Int, c + 1 \in Int
  <2>3. c + 1 <= c
    BY <1>2, <2>1, <2>2, FS_Subset DEF c
  <2> QED BY <1>2, <2>3
<1>7. c \in 1..Repeats /\ TrailingIn(r, p, c)
  BY <1>5 DEF K
<1>8. c < Repeats => ~TrailingIn(r, p, c + 1)
  <2> SUFFICES ASSUME c < Repeats, TrailingIn(r, p, c + 1) PROVE FALSE
    OBVIOUS
  <2>1. c + 1 \in 1..Repeats
    BY <1>7, SizesArePositive
  <2> QED BY <1>6, <2>1 DEF K
<1> QED BY <1>7, <1>8 DEF IsLongest

LEMMA LongestIsOne ==
  ASSUME NEW r, NEW p, NEW k \in 1..Repeats, NEW l \in 1..Repeats,
         IsLongest(r, p, k), IsLongest(r, p, l)
  PROVE  k = l
<1>1. ASSUME NEW a \in 1..Repeats, NEW b \in 1..Repeats, a < b,
             IsLongest(r, p, a), IsLongest(r, p, b)
      PROVE  FALSE
  <2>1. a < Repeats /\ 1..(a + 1) \subseteq 1..b
    BY <1>1, SizesArePositive
  <2> QED BY <1>1, <2>1 DEF IsLongest, TrailingIn
<1>2. k < l \/ l < k \/ k = l
  BY SizesArePositive
<1> QED BY <1>1, <1>2

LEMMA RunIsLongest ==
  ASSUME NEW r, NEW p, AtIn(r, p, 1) \in Marks, NEW k \in 1..Repeats, IsLongest(r, p, k)
  PROVE  RunIn(r, p) = [mark |-> AtIn(r, p, 1), times |-> k]
<1> DEFINE l == CHOOSE n \in 1..Repeats : IsLongest(r, p, n)
<1>1. l \in 1..Repeats /\ IsLongest(r, p, l)
  OBVIOUS
<1>2. RunIn(r, p) = [mark |-> AtIn(r, p, 1), times |-> l]
  BY DEF RunIn
<1> HIDE DEF l
<1> QED BY <1>1, <1>2, LongestIsOne

(* The run is what RunIn says, in this state and in the next.              *)
LEMMA RunIsRunIn ==
  Run = RunIn(ring, pos) /\ Run' = RunIn(ring', pos')
BY DEF Run, RunIn, At, AtIn, Trailing, TrailingIn, IsLongest

LEMMA RunIsRun ==
  ASSUME NEW r, NEW p
  PROVE  RunIn(r, p) \in Stream!Runs
<1>1. CASE AtIn(r, p, 1) \in Marks
  <2>1. PICK k \in 1..Repeats : IsLongest(r, p, k)
    BY LongestExists
  <2> QED BY <1>1, <2>1, RunIsLongest DEF Stream!Runs
<1>2. CASE AtIn(r, p, 1) \notin Marks
  BY <1>2 DEF RunIn, Stream!Runs, Stream!NoRun
<1> QED BY <1>1, <1>2

(* A byte that is written moves the others on.                             *)
LEMMA RingMoves ==
  ASSUME NEW r \in Rings, NEW p \in Positions, NEW b \in Bytes, NEW r2, NEW p2,
         r2 = Written(r, p, b), p2 = After(p)
  PROVE  /\ p2 \in Positions /\ AtIn(r2, p2, 1) = b
         /\ \A k \in 1..(Repeats - 1) : AtIn(r2, p2, k + 1) = AtIn(r, p, k)
<1>1. p2 \in Positions /\ Place(p2, 1) = p
  BY SizesArePositive DEF Positions, Place, After
<1>2. AtIn(r2, p2, 1) = b
  <2>1. 1 \in 1..Repeats
    BY SizesArePositive
  <2>2. AtIn(r2, p2, 1) = r2[Place(p2, 1)]
    BY <1>1, <2>1, PlaceOf
  <2> QED BY <1>1, <2>2 DEF Rings, Written
<1>3. ASSUME NEW k \in 1..(Repeats - 1) PROVE AtIn(r2, p2, k + 1) = AtIn(r, p, k)
  <2>1. k \in 1..Repeats /\ k + 1 \in 1..Repeats
    BY SizesArePositive
  <2>2. Place(p2, k + 1) = Place(p, k) /\ Place(p, k) # p
    BY SizesArePositive DEF Positions, Place, After
  <2>3. Place(p, k) \in Positions
    BY <2>1, PlaceOf
  <2>4. AtIn(r2, p2, k + 1) = r2[Place(p2, k + 1)] /\ AtIn(r, p, k) = r[Place(p, k)]
    BY <1>1, <2>1, PlaceOf
  <2> QED BY <2>2, <2>3, <2>4 DEF Rings, Written
<1> QED BY <1>1, <1>2, <1>3

(* Hence a run grows, or another begins.                                   *)
LEMMA RunExtends ==
  ASSUME NEW r \in Rings, NEW p \in Positions, NEW b \in Bytes, NEW r2, NEW p2,
         r2 = Written(r, p, b), p2 = After(p)
  PROVE  RunIn(r2, p2) =
           IF b \notin Marks THEN [mark |-> Zero, times |-> 0]
           ELSE IF b # RunIn(r, p).mark THEN [mark |-> b, times |-> 1]
           ELSE [RunIn(r, p) EXCEPT !.times = IF @ < Repeats THEN @ + 1 ELSE @]
<1>1. AtIn(r2, p2, 1) = b
      /\ \A k \in 1..(Repeats - 1) : AtIn(r2, p2, k + 1) = AtIn(r, p, k)
  BY RingMoves
<1>2. CASE b \notin Marks
  BY <1>1, <1>2 DEF RunIn
<1>3. CASE b \in Marks /\ b # RunIn(r, p).mark
  <2>1. 1 < Repeats => AtIn(r, p, 1) # b
    BY <1>3 DEF RunIn
  <2>2. 1 < Repeats => AtIn(r2, p2, 2) # b
    <3>1. 1 < Repeats => 1 \in 1..(Repeats - 1) /\ 1 + 1 = 2
      BY SizesArePositive
    <3> QED BY <1>1, <2>1, <3>1
  <2>3. IsLongest(r2, p2, 1)
    BY <1>1, <2>2 DEF IsLongest, TrailingIn
  <2>4. 1 \in 1..Repeats
    BY SizesArePositive
  <2> QED BY <1>1, <1>3, <2>3, <2>4, RunIsLongest
<1>4. CASE b \in Marks /\ b = RunIn(r, p).mark
  <2>1. AtIn(r, p, 1) = b
    BY <1>4 DEF RunIn, Marks, Zero
  <2>2. PICK k \in 1..Repeats : IsLongest(r, p, k)
    BY LongestExists
  <2>3. RunIn(r, p) = [mark |-> b, times |-> k]
    BY <1>4, <2>1, <2>2, RunIsLongest
  <2> DEFINE l == IF k < Repeats THEN k + 1 ELSE k
  <2>4. l \in 1..Repeats
    BY SizesArePositive
  <2>5. TrailingIn(r2, p2, l)
    <3> SUFFICES ASSUME NEW j \in 1..l, j # 1 PROVE AtIn(r2, p2, j) = b
      BY <1>1 DEF TrailingIn
    <3>1. j - 1 \in 1..(Repeats - 1) /\ j - 1 \in 1..k /\ (j - 1) + 1 = j
      BY <2>4, SizesArePositive
    <3>2. AtIn(r, p, j - 1) = b
      BY <2>1, <2>2, <3>1 DEF IsLongest, TrailingIn
    <3>3. AtIn(r2, p2, (j - 1) + 1) = AtIn(r, p, j - 1)
      BY <1>1, <3>1
    <3> QED BY <3>1, <3>2, <3>3
  <2>6. ASSUME l < Repeats PROVE ~TrailingIn(r2, p2, l + 1)
    <3>1. k < Repeats /\ l = k + 1 /\ k + 2 <= Repeats
      BY <2>6, SizesArePositive
    <3>2. PICK j \in 1..(k + 1) : AtIn(r, p, j) # b
      BY <2>1, <2>2, <3>1 DEF IsLongest, TrailingIn
    <3>3. j \in 1..(Repeats - 1) /\ j + 1 \in 1..(l + 1)
      BY <3>1, SizesArePositive
    <3>4. AtIn(r2, p2, j + 1) # b
      BY <1>1, <3>2, <3>3
    <3> QED BY <1>1, <3>3, <3>4 DEF TrailingIn
  <2>7. IsLongest(r2, p2, l)
    BY <2>5, <2>6 DEF IsLongest
  <2>8. RunIn(r2, p2) = [mark |-> b, times |-> l]
    <3> HIDE DEF l
    <3> QED BY <1>1, <1>4, <2>4, <2>7, RunIsLongest
  <2> QED BY <1>4, <2>3, <2>8
<1> QED BY <1>2, <1>3, <1>4

(* A ring of equal marks is a whole run, wherever it begins.               *)
LEMMA WholeRing ==
  ASSUME NEW r \in Rings, NEW p \in Positions
  PROVE  /\ (RunIn(r, p).times = Repeats)
              <=> (r[0] \in Marks /\ \A i \in Positions : r[i] = r[0])
         /\ RunIn(r, p).times = Repeats => RunIn(r, p).mark = r[0]
<1>1. 0 \in Positions /\ 1 \in 1..Repeats /\ Repeats \in 1..Repeats /\ Repeats # 0
  BY SizesArePositive DEF Positions
<1>2. ASSUME r[0] \in Marks, \A i \in Positions : r[i] = r[0]
      PROVE  RunIn(r, p).times = Repeats
  <2>1. \A k \in 1..Repeats : AtIn(r, p, k) = r[0]
    BY <1>2, PlaceOf
  <2>2. IsLongest(r, p, Repeats)
    BY <1>1, <2>1 DEF IsLongest, TrailingIn
  <2>3. AtIn(r, p, 1) \in Marks
    BY <1>1, <1>2, <2>1
  <2> QED BY <1>1, <2>2, <2>3, RunIsLongest
<1>3. ASSUME RunIn(r, p).times = Repeats
      PROVE  /\ r[0] \in Marks /\ \A i \in Positions : r[i] = r[0]
             /\ RunIn(r, p).mark = r[0]
  <2>1. AtIn(r, p, 1) \in Marks
    BY <1>1, <1>3 DEF RunIn
  <2>2. PICK k \in 1..Repeats : IsLongest(r, p, k)
    BY LongestExists
  <2>3. RunIn(r, p) = [mark |-> AtIn(r, p, 1), times |-> k] /\ k = Repeats
    BY <1>3, <2>1, <2>2, RunIsLongest
  <2>4. \A j \in 1..Repeats : AtIn(r, p, j) = AtIn(r, p, 1)
    BY <2>2, <2>3 DEF IsLongest, TrailingIn
  <2>5. ASSUME NEW i \in Positions PROVE r[i] = AtIn(r, p, 1)
    <3>1. PICK j \in 1..Repeats : Place(p, j) = i
      BY EveryPlace
    <3>2. AtIn(r, p, j) = r[i]
      BY <3>1, PlaceOf
    <3> QED BY <2>4, <3>2
  <2> QED BY <1>1, <2>1, <2>3, <2>5
<1> QED BY <1>2, <1>3
-----------------------------------------------------------------------------
(***************************************************************************)
(* Frames.                                                                 *)
(***************************************************************************)
LEMMA WordsDiffer ==
  None \notin Marks /\ Zero \notin Marks /\ "%" \in Marks /\ "$" \in Marks /\ "^" \in Marks
BY DEF None, Zero, Marks

LEMMA TargetsAreTargets ==
  ASSUME NEW m \in Marks, NEW k \in {None, "command", "packet"}
  PROVE  /\ TargetOf(m, k) \in Targets /\ TargetOf(m, k) \in Nat \ {0}
         /\ InitialTarget(m) = TargetOf(m, None)
<1>1. TargetOf(m, k) \in Targets
  BY DEF TargetOf, Targets
<1>2. TargetOf(m, k) \in Nat \ {0}
  BY SizesArePositive DEF TargetOf
<1>3. InitialTarget(m) = TargetOf(m, None)
  BY DEF TargetOf, InitialTarget, Marks, None
<1> QED BY <1>1, <1>2, <1>3

LEMMA InitIsKnown == Init => ParserInv
<1> SUFFICES ASSUME Init PROVE ParserInv
  OBVIOUS
<1>1. TypeOK
  BY SizesArePositive DEF Init, TypeOK, Positions, Targets
<1>2. FrameIsKnown
  BY DEF Init, FrameIsKnown
<1> QED BY <1>1, <1>2 DEF ParserInv

(* The last byte of a frame is the one its target says, and what the frame *)
(* is is known by then.                                                    *)
LEMMA EndsAtTarget ==
  ASSUME ParserInv, active # None, filled + 1 >= target
  PROVE  /\ filled + 1 = target /\ filled \in Nat /\ active \in Marks
         /\ AtConstraint <=> (active = "%" /\ kind = None)
<1>1. target \in Nat /\ filled \in Nat /\ filled < target /\ active \in Marks
  <2>1. target \in Nat
    BY SizesArePositive DEF ParserInv, TypeOK, Targets
  <2> QED BY <2>1 DEF ParserInv, TypeOK
<1>2. filled + 1 = target
  BY <1>1
<1>3. CASE active = "%" /\ kind = None
  <2>1. target = ConstraintSize
    BY <1>3 DEF ParserInv, FrameIsKnown, TargetOf, None
  <2> QED BY <1>1, <1>2, <1>3, <2>1 DEF AtConstraint
<1>4. CASE active = "%" /\ kind # None
  <2>1. kind # None /\ filled >= ConstraintSize
    BY <1>4 DEF ParserInv, FrameIsKnown
  <2>2. filled + 1 # ConstraintSize
    BY <1>1, <2>1, SizesArePositive
  <2> QED BY <1>1, <1>2, <2>1, <2>2 DEF AtConstraint
<1>5. CASE active # "%"
  BY <1>1, <1>2, <1>5 DEF AtConstraint
<1> QED BY <1>1, <1>2, <1>3, <1>4, <1>5

LEMMA RingIsARing ==
  ASSUME TypeOK, NEW b \in Bytes, UpdatePreamble(b) \/ Activate(b)
  PROVE  ring' \in Rings /\ pos' = After(pos) /\ pos' \in Positions
<1>1. pos' = After(pos)
  BY DEF UpdatePreamble, Activate, Advance, After
<1>2. After(pos) \in Positions
  BY SizesArePositive DEF TypeOK, Positions, After
<1>3. ring' \in Rings
  BY DEF TypeOK, Rings, UpdatePreamble, Activate, Bytes, Zero
<1> QED BY <1>1, <1>2, <1>3

LEMMA StepKeepsFrame == ParserInv /\ [Next]_vars => ParserInv'
<1> SUFFICES ASSUME ParserInv, [Next]_vars PROVE ParserInv'
  OBVIOUS
<1>1. CASE Reset
  <2>1. TypeOK'
    BY <1>1, SizesArePositive
    DEF Reset, DeactivatePreamble, ParserInv, TypeOK, Positions, Targets
  <2>2. FrameIsKnown'
    BY <1>1 DEF Reset, DeactivatePreamble, FrameIsKnown
  <2> QED BY <2>1, <2>2 DEF ParserInv
<1>2. ASSUME NEW b \in Bytes, PutChar(b) PROVE ParserInv'
  <2>1. UpdatePreamble(b) \/ Activate(b)
    BY <1>2 DEF PutChar, Ignore, Collect, LearnTarget, WrongCrc, PacketEnds, OtherEnds, FrameEnds
  <2>2. /\ ring' \in [Positions -> Bytes] /\ pos' \in Positions
        /\ fresh' \in 0..Repeats
    <3>1. ring' \in Rings /\ pos' \in Positions
      BY <2>1, RingIsARing DEF ParserInv
    <3>2. fresh' \in 0..Repeats
      BY <1>2, SizesArePositive DEF PutChar, ParserInv, TypeOK
    <3> QED BY <3>1, <3>2 DEF Rings
  <2>3. CASE Activate(b)
    <3>1. ring[0] \in Marks /\ active' = ring[0] /\ kind' = None /\ filled' = 0
          /\ target' = InitialTarget(ring[0]) /\ report' = None
      BY <2>3 DEF Activate, NewPreamble
    <3>2. target' = TargetOf(active', kind') /\ target' \in Targets /\ target' \in Nat \ {0}
      BY <3>1, TargetsAreTargets
    <3> QED BY <2>2, <3>1, <3>2, WordsDiffer DEF ParserInv, TypeOK, FrameIsKnown
  <2>4. CASE Ignore(b)
    BY <2>2, <2>4 DEF Ignore, frame, ParserInv, TypeOK, FrameIsKnown
  <2>5. CASE Collect(b)
    <3>1. target \in Nat /\ filled \in Nat
      BY SizesArePositive DEF ParserInv, TypeOK, Targets
    <3>2. filled' = filled + 1 /\ filled + 1 < target /\ report' = None
          /\ UNCHANGED <<active, kind, target>> /\ active # None
      BY <2>5 DEF Collect
    <3> QED BY <2>2, <3>1, <3>2, SizesArePositive DEF ParserInv, TypeOK, FrameIsKnown
  <2>6. CASE LearnTarget(b)
    <3>1. /\ active = "%" /\ kind = None /\ filled \in Nat /\ target = ConstraintSize
          /\ filled' = ConstraintSize /\ active' = "%" /\ report' = None
      BY <2>6, EndsAtTarget DEF LearnTarget, AtConstraint, ParserInv, FrameIsKnown, TargetOf, None
    <3>2. /\ kind' \in {"command", "packet"} /\ target' = TargetOf("%", kind')
      BY <2>6, <3>1 DEF LearnTarget, TargetOf
    <3>3. target' \in Targets
      BY <3>2, WordsDiffer, TargetsAreTargets
    <3>4. target' \in Nat /\ ConstraintSize < target'
      BY <3>2, SizesArePositive DEF TargetOf
    <3> QED BY <2>2, <3>1, <3>2, <3>3, <3>4, SizesArePositive, WordsDiffer
            DEF ParserInv, TypeOK, FrameIsKnown, None
  <2>7. CASE FrameEnds(b) /\ report' \in {active, None}
    BY <2>2, <2>7, SizesArePositive
    DEF FrameEnds, DeactivatePreamble, ParserInv, TypeOK, FrameIsKnown, Targets
  <2>8. CASE WrongCrc(b) \/ PacketEnds(b) \/ OtherEnds(b)
    BY <2>7, <2>8 DEF WrongCrc, PacketEnds, OtherEnds
  <2> QED BY <1>2, <2>3, <2>4, <2>5, <2>6, <2>8 DEF PutChar
<1>3. CASE UNCHANGED vars
  BY <1>3 DEF vars, frame, ParserInv, TypeOK, FrameIsKnown
<1> QED BY <1>1, <1>2, <1>3 DEF Next

THEOREM FrameStaysKnown == Spec => []ParserInv
BY InitIsKnown, StepKeepsFrame, PTL DEF Spec

(* Whatever bytes come, the data collected stay within the frame under way,*)
(* and every variable has its type: putChar never writes past what the     *)
(* frame it is in may hold.                                                *)
THEOREM Types == Spec => []TypeOK
<1>1. ParserInv => TypeOK
  BY DEF ParserInv
<1> QED BY <1>1, FrameStaysKnown, PTL
-----------------------------------------------------------------------------
(***************************************************************************)
(* Receptions.                                                             *)
(***************************************************************************)
LEMMA PacketKeepsReceptionOpen ==
  ASSUME ReceptionIsOpen, NEW r \in Records, NEW i \in Slots(r), PutPacket(Packet(i, r))
  PROVE  ReceptionIsOpen'
<1> DEFINE p == Packet(i, r)
           before == IF Continues(p) THEN buffer ELSE [j \in Slots(r) |-> Unwritten]
<1>1. p.number = i /\ p.record = r
  BY DEF Packet
<1>2. Packets[r] \in Nat \ {0} /\ ClassOf[r] \in Classes /\ r # Unwritten
  BY RecordsAssumption, UnwrittenAssumption DEF RecordsAssumption, UnwrittenAssumption
<1>3. Stored(p) = [j \in DOMAIN before |-> IF j = i THEN r ELSE before[j]]
  BY <1>1 DEF Stored
<1> HIDE DEF p
<1>4. /\ class' = ClassOf[r] /\ toReceive' = Expected(p) /\ received' = Count(p)
      /\ receiving' = ~Completes(p)
      /\ buffer' = IF Completes(p) THEN NoBuffer ELSE Stored(p)
  BY <1>1 DEF PutPacket, p
<1> SUFFICES ASSUME ~Completes(p) PROVE ReceptionIsOpen'
  BY <1>4 DEF ReceptionIsOpen
<1>5. /\ Expected(p) \in Nat /\ Count(p) \in 1..Expected(p)
      /\ DOMAIN before = 0..(Expected(p) - 1)
  BY <1>1, <1>2 DEF Expected, Count, Continues, ReceptionIsOpen, Slots
<1>6. Count(p) \in 1..(Expected(p) - 1)
  BY <1>5 DEF Completes
<1>7. \E j \in DOMAIN before : Stored(p)[j] # Unwritten
  <2>1. CASE Continues(p)
    BY <1>2, <1>3, <2>1 DEF Continues, ReceptionIsOpen
  <2>2. CASE ~Continues(p)
    <3>1. i \in DOMAIN before
      BY <2>2
    <3> QED BY <1>2, <1>3, <3>1
  <2> QED BY <2>1, <2>2
<1>8. DOMAIN Stored(p) = DOMAIN before
  BY <1>3
<1> HIDE DEF before
<1> QED BY <1>2, <1>4, <1>5, <1>6, <1>7, <1>8 DEF ReceptionIsOpen

LEMMA StepKeepsReceptionOpen ==
  ReceptionIsOpen /\ [Next]_vars => ReceptionIsOpen'
<1> SUFFICES ASSUME ReceptionIsOpen, [Next]_vars PROVE ReceptionIsOpen'
  OBVIOUS
<1>1. CASE UNCHANGED reassembly
  BY <1>1 DEF reassembly, ReceptionIsOpen
<1>2. CASE receiving' = FALSE
  BY <1>2 DEF ReceptionIsOpen
<1>3. CASE Reset
  BY <1>2, <1>3 DEF Reset, ResetReassembly
<1>4. ASSUME NEW b \in Bytes, PutChar(b) PROVE ReceptionIsOpen'
  <2>1. CASE Activate(b) \/ Ignore(b) \/ Collect(b) \/ LearnTarget(b) \/ WrongCrc(b)
    BY <1>1, <2>1 DEF Activate, Ignore, Collect, LearnTarget, WrongCrc
  <2>2. CASE PacketEnds(b)
    BY <2>2, PacketKeepsReceptionOpen DEF PacketEnds
  <2>3. CASE OtherEnds(b)
    BY <1>2, <2>3 DEF OtherEnds, AbandonReception
  <2> QED BY <1>4, <2>1, <2>2, <2>3 DEF PutChar
<1>5. CASE UNCHANGED vars
  BY <1>1, <1>5 DEF vars
<1> QED BY <1>3, <1>4, <1>5 DEF Next

(* Whatever the stream holds, and however many packets each of them says   *)
(* its record has: a reception under way has the buffer its first packet   *)
(* asked for, has stored one at least, and has counted fewer than it waits *)
(* for: isSignalDataComplete, which compares for equality, is never passed *)
(* by.  (That each packet falls into that buffer the code does not see to: *)
(* PayloadTransfer tells when it does.)                                    *)
THEOREM ReceptionStaysOpen == Spec => []ReceptionIsOpen
<1>1. Init => ReceptionIsOpen
  BY DEF Init, ReceptionIsOpen
<1> QED BY <1>1, StepKeepsReceptionOpen, PTL DEF Spec

(* Noise, preambles, frames that are broken or that do not complete a      *)
(* record leave a reception under way as it was: only its last packet,     *)
(* another valid frame or a reset ends it.                                 *)
THEOREM NoiseIsHarmless == Spec => NoiseKeepsReception
<1> DEFINE Keeps == receiving /\ ~receiving' => report' # None \/ Reset
<1>1. ASSUME ParserInv, [Next]_vars PROVE [Keeps]_vars
  <2>1. UNCHANGED reassembly => Keeps
    BY DEF reassembly
  <2>2. ASSUME NEW b \in Bytes, PutChar(b) PROVE Keeps
    <3>1. CASE Activate(b) \/ Ignore(b) \/ Collect(b) \/ LearnTarget(b) \/ WrongCrc(b)
      <4>1. UNCHANGED reassembly
        BY <3>1 DEF Activate, Ignore, Collect, LearnTarget, WrongCrc
      <4> QED BY <2>1, <4>1
    <3>2. CASE PacketEnds(b)
      <4>1. active # None
        BY <3>2 DEF PacketEnds, FrameEnds
      <4>2. PICK r \in Records : \E i \in Slots(r) :
              /\ PutPacket(Packet(i, r))
              /\ report' = IF Completes(Packet(i, r)) THEN active ELSE None
        BY <3>2 DEF PacketEnds
      <4> QED BY <4>1, <4>2 DEF PutPacket
    <3>3. CASE OtherEnds(b)
      BY <3>3 DEF OtherEnds, FrameEnds
    <3> QED BY <2>2, <3>1, <3>2, <3>3 DEF PutChar
  <2>3. CASE Reset
    BY <2>3
  <2> QED BY <1>1, <2>2, <2>3 DEF Next
<1> QED BY <1>1, FrameStaysKnown, PTL DEF Spec, NoiseKeepsReception
-----------------------------------------------------------------------------
(***************************************************************************)
(* The parser tells frames as FrameStream says.                            *)
(***************************************************************************)
LEMMA PreambleIsSeen ==
  ASSUME TypeOK, NEW b \in Bytes
  PROVE  /\ NewPreamble(b) <=> Stream!Starts(b)
         /\ NewPreamble(b) => Run.mark = ring[0]
<1>1. ring \in Rings /\ pos \in Positions
  BY DEF TypeOK, Rings
<1>2. /\ (Run.times = Repeats)
           <=> (ring[0] \in Marks /\ \A i \in Positions : ring[i] = ring[0])
      /\ Run.times = Repeats => Run.mark = ring[0]
  BY <1>1, WholeRing, RunIsRunIn
<1> QED BY <1>2 DEF NewPreamble, Stream!Starts

LEMMA RunFollowsBytes ==
  ASSUME TypeOK, NEW b \in Bytes, UpdatePreamble(b) \/ Activate(b)
  PROVE  Stream!Extend(b)
<1>1. ring \in Rings /\ pos \in Positions /\ pos' = After(pos)
  BY RingIsARing DEF TypeOK, Rings
<1>2. CASE UpdatePreamble(b)
  <2>1. ring' = Written(ring, pos, b)
    BY <1>2 DEF UpdatePreamble, Written
  <2>2. RunIn(ring', pos') =
          IF b \notin Marks THEN [mark |-> Zero, times |-> 0]
          ELSE IF b # RunIn(ring, pos).mark THEN [mark |-> b, times |-> 1]
          ELSE [RunIn(ring, pos) EXCEPT !.times = IF @ < Repeats THEN @ + 1 ELSE @]
    BY <1>1, <2>1, RunExtends
  <2> QED BY <2>2, RunIsRunIn DEF Stream!Extend, Stream!NoRun
<1>3. CASE Activate(b)
  <2>1. b = Zero /\ ring' = [ring EXCEPT ![pos] = b, ![0] = Zero]
    BY <1>3 DEF Activate, NewPreamble
  <2>2. AtIn(ring', pos', 1) = ring'[Place(pos', 1)] /\ Place(pos', 1) = pos
    <3>1. pos' \in Positions /\ 1 \in 1..Repeats
      BY <1>3, RingIsARing, SizesArePositive
    <3>2. Place(pos', 1) = pos
      BY <1>1, SizesArePositive DEF Place, After, Positions
    <3> QED BY <3>1, <3>2, PlaceOf
  <2>3. AtIn(ring', pos', 1) = Zero
    BY <1>1, <2>1, <2>2 DEF Rings
  <2>4. RunIn(ring', pos') = [mark |-> Zero, times |-> 0]
    BY <2>3, WordsDiffer DEF RunIn
  <2> QED BY <2>1, <2>4, RunIsRunIn, WordsDiffer DEF Stream!Extend, Stream!NoRun
<1> QED BY <1>2, <1>3

LEMMA StepIsStreamStep ==
  ParserInv /\ [Next]_vars => [Stream!Next]_(Stream!vars)
<1> SUFFICES ASSUME ParserInv, [Next]_vars PROVE [Stream!Next]_(Stream!vars)
  OBVIOUS
<1>1. CASE Reset
  <2>1. Run' \in Stream!Runs
    BY RunIsRunIn, RunIsRun
  <2>2. Stream!Reset
    BY <1>1, <2>1 DEF Reset, DeactivatePreamble, Stream!Reset, None
  <2> QED BY <2>2 DEF Stream!Next
<1>2. ASSUME NEW b \in Bytes, PutChar(b) PROVE Stream!Byte(b)
  <2>1. UpdatePreamble(b) \/ Activate(b)
    BY <1>2 DEF PutChar, Ignore, Collect, LearnTarget, WrongCrc, PacketEnds, OtherEnds, FrameEnds
  <2>2. Stream!Extend(b)
    BY <2>1, RunFollowsBytes DEF ParserInv
  <2>3. /\ NewPreamble(b) <=> Stream!Starts(b)
        /\ NewPreamble(b) => Run.mark = ring[0]
    BY PreambleIsSeen DEF ParserInv
  <2>4. /\ UpdatePreamble(b) => ~Stream!Starts(b)
        /\ active \in Marks \cup {None} /\ kind \in {None, "command", "packet"}
    BY <2>3 DEF UpdatePreamble, ParserInv, TypeOK
  <2>5. CASE Activate(b)
    <3>1. Stream!Start(b)
      BY <2>3, <2>5 DEF Activate, Stream!Start, None
    <3> QED BY <2>2, <3>1 DEF Stream!Byte
  <2>6. CASE Ignore(b)
    <3>1. Stream!Skip(b)
      BY <2>4, <2>6 DEF Ignore, frame, Stream!Skip, None
    <3> QED BY <2>2, <3>1 DEF Stream!Byte
  <2>7. CASE Collect(b)
    <3>1. /\ UpdatePreamble(b) /\ active # None /\ filled + 1 < target /\ filled' = filled + 1
          /\ report' = None /\ active' = active /\ kind' = kind /\ active \in Marks
          /\ target = TargetOf(active, kind) /\ filled \in Nat
      BY <2>4, <2>7, SizesArePositive DEF Collect, ParserInv, TypeOK, FrameIsKnown, Targets
    <3>2. ~(active = "%" /\ filled + 1 = ConstraintSize)
      <4>1. CASE active = "%" /\ kind = None
        BY <3>1, <4>1, SizesArePositive DEF TargetOf, None
      <4>2. CASE active = "%" /\ kind # None
        <5>1. filled >= ConstraintSize
          BY <4>2 DEF ParserInv, FrameIsKnown
        <5> QED BY <3>1, <5>1, SizesArePositive
      <4> QED BY <4>1, <4>2
    <3>3. Stream!Within(b)
      BY <2>4, <3>1, <3>2, SizesArePositive DEF Stream!Within, TargetOf, Marks, None
    <3> QED BY <2>2, <3>3 DEF Stream!Byte
  <2>8. CASE LearnTarget(b)
    <3>1. /\ UpdatePreamble(b) /\ active = "%" /\ filled + 1 = ConstraintSize /\ filled' = filled + 1
          /\ report' = None /\ active' = active /\ kind' \in {"command", "packet"}
      BY <2>8 DEF LearnTarget, AtConstraint
    <3>2. Stream!Within(b)
      BY <2>4, <3>1, SizesArePositive DEF Stream!Within, Marks, None
    <3> QED BY <2>2, <3>2 DEF Stream!Byte
  <2>9. CASE FrameEnds(b) /\ report' \in {active, None}
    <3>1. /\ UpdatePreamble(b) /\ active # None /\ filled + 1 = target /\ active \in Marks
          /\ target = TargetOf(active, kind) /\ ~(active = "%" /\ kind = None)
          /\ active' = None /\ kind' = None /\ filled' = 0
      BY <2>9, EndsAtTarget DEF FrameEnds, DeactivatePreamble, ParserInv, FrameIsKnown
    <3>2. Stream!Finish(b)
      BY <2>4, <2>9, <3>1 DEF Stream!Finish, TargetOf, Marks, None
    <3> QED BY <2>2, <3>2 DEF Stream!Byte
  <2>10. CASE WrongCrc(b) \/ PacketEnds(b) \/ OtherEnds(b)
    BY <2>9, <2>10 DEF WrongCrc, PacketEnds, OtherEnds
  <2> QED BY <1>2, <2>5, <2>6, <2>7, <2>8, <2>10 DEF PutChar
<1>3. CASE UNCHANGED vars
  <2>1. Run' = Run
    BY <1>3, RunIsRunIn DEF vars
  <2> QED BY <1>3, <2>1 DEF vars, frame, Stream!vars
<1> QED BY <1>1, <1>2, <1>3 DEF Next, Stream!Next

(* A ring compared without regard to where it begins, and cleared in one   *)
(* place only, tells preambles exactly as they come in the stream; a frame *)
(* is as long as its kind says, and is reported from its own bytes alone,  *)
(* whatever came before, for preambles of any length and frames of any     *)
(* sizes.                                                                  *)
THEOREM ParserImplementsStream == Spec => ImplementsStream
<1>1. Init => Stream!Init
  <2>1. Run \in Stream!Runs
    BY RunIsRunIn, RunIsRun
  <2> QED BY <2>1 DEF Init, Stream!Init, None
<1> QED BY <1>1, StepIsStreamStep, FrameStaysKnown, PTL DEF Spec, ImplementsStream, Stream!Spec
=============================================================================
