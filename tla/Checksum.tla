------------------------------ MODULE Checksum ------------------------------
(***************************************************************************)
(* The two checksums of IMessage: computeCrc16, which guards every frame,  *)
(* and computeCrc32, which guards a whole record of settings.  A word is   *)
(* the set of its bits that are 1.                                         *)
(*                                                                         *)
(* One message is read twice, as it was sent and as it arrived.  The two   *)
(* differ in some bytes, all of them close together.                       *)
(***************************************************************************)
EXTENDS Naturals

CONSTANTS
  Bytes,      \* the bytes a message is made of
  MaxLength,  \* bound: the length of a message
  MaxSpan     \* bound: bytes from the first that is damaged to the last

ASSUME BytesAssumption == Bytes \subseteq SUBSET (0..7)
ASSUME BoundsAssumption == MaxLength \in Nat /\ MaxSpan \in Nat

VARIABLES
  sent32, got32,   \* computeCrc32 of what was sent, of what arrived
  sent16, got16,   \* computeCrc16
  length,          \* bytes read
  since,           \* bytes read since the first damaged one began; 0 for none
  span             \* from the first damaged byte to the last

vars == <<sent32, got32, sent16, got16, length, since, span>>

Word32 == SUBSET (0..31)
Word16 == SUBSET (0..15)

Xor(x, y) == (x \ y) \cup (y \ x)
-----------------------------------------------------------------------------
(***************************************************************************)
(* computeCrc32.  The sum is an int: its shift to the right repeats the    *)
(* sign, where the usual checksum with this polynomial shifts zeros in.    *)
(***************************************************************************)
Polynomial == {31, 25, 23, 22, 21, 20, 18, 17, 13, 12, 11, 9, 8, 6, 5, 4, 3}

ShiftRight(x) == {i \in 0..31 : i + 1 \in x \/ (i = 31 /\ i \in x)}

Divide_Sign(x) ==                \* mutant: the sum is tested after its shift
    IF 0 \in ShiftRight(x) THEN Xor(ShiftRight(x), Polynomial) ELSE ShiftRight(x)
Divide(x) == IF 0 \in x THEN Xor(ShiftRight(x), Polynomial) ELSE ShiftRight(x)

Divide4(x) == Divide(Divide(Divide(Divide(x))))

Add32(x, b) == Divide4(Divide4(Xor(x, b)))

Start32 == 0..31
-----------------------------------------------------------------------------
(***************************************************************************)
(* computeCrc16, line by line.                                             *)
(***************************************************************************)
SwapBytes(x)  == {i \in 0..15 : (i < 8 /\ i + 8 \in x) \/ (i >= 8 /\ i - 8 \in x)}
FoldNibble(x) == Xor(x, {i \in 0..3 : i + 4 \in x})
RaiseNibble(x) == Xor(x, {i \in 12..15 : i - 12 \in x})
RaiseByte(x)  == Xor(x, {i \in 5..12 : i - 5 \in x})

Add16(x, b) == RaiseByte(RaiseNibble(FoldNibble(Xor(SwapBytes(x), b))))

Start16 == {}
-----------------------------------------------------------------------------
Init ==
    /\ sent32 = Start32 /\ got32 = Start32
    /\ sent16 = Start16 /\ got16 = Start16
    /\ length = 0 /\ since = 0 /\ span = 0

Read(b, c) ==
    /\ length < MaxLength /\ length' = length + 1
    /\ sent32' = Add32(sent32, b) /\ got32' = Add32(got32, c)
    /\ sent16' = Add16(sent16, b) /\ got16' = Add16(got16, c)

(* A byte arrives as it was sent ...                                       *)
Intact ==
    /\ \E b \in Bytes : Read(b, b)
    /\ since' = IF since = 0 THEN 0 ELSE since + 1
    /\ UNCHANGED span

(* ... or as another one.                                                  *)
Damaged ==
    /\ since < MaxSpan
    /\ \E b, c \in Bytes : b # c /\ Read(b, c)
    /\ since' = since + 1 /\ span' = since + 1

Next == Intact \/ Damaged

Spec == Init /\ [][Next]_vars
-----------------------------------------------------------------------------
(***************************************************************************)
(* Properties.                                                             *)
(***************************************************************************)
TypeOK ==
    /\ sent32 \in Word32 /\ got32 \in Word32
    /\ sent16 \in Word16 /\ got16 \in Word16
    /\ length \in 0..MaxLength /\ since \in 0..length /\ span \in 0..MaxSpan

(* A message damaged in as many neighbouring bytes as the checksum has, or *)
(* fewer, does not pass it, wherever they are and however long the message:*)
(* the sign that computeCrc32 shifts in costs it nothing.                  *)
BurstIsSeen ==
    /\ span \in 1..4 => sent32 # got32
    /\ span \in 1..2 => sent16 # got16
=============================================================================
