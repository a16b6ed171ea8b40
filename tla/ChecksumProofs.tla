--------------------------- MODULE ChecksumProofs ---------------------------
(***************************************************************************)
(* No message of any length passes either checksum of IMessage with as     *)
(* many neighbouring bytes damaged as the checksum has, or fewer.  Every   *)
(* step of both computations can be undone, so two sums that differ still  *)
(* differ after the same byte, and equal ones differ after different bytes.*)
(***************************************************************************)
EXTENDS Checksum, TLAPS

(* What Xor mixes in can be taken out again.                               *)
LEMMA XorCancels ==
  ASSUME NEW x, NEW y, NEW z, Xor(x, z) = Xor(y, z)
  PROVE  x = y
<1>1. \A i : i \in Xor(x, z) <=> i \in Xor(y, z) OBVIOUS
<1> QED BY <1>1 DEF Xor

LEMMA XorCancelsLeft ==
  ASSUME NEW x, NEW y, NEW z, Xor(z, x) = Xor(z, y)
  PROVE  x = y
<1>1. \A i : i \in Xor(z, x) <=> i \in Xor(z, y) OBVIOUS
<1> QED BY <1>1 DEF Xor

LEMMA BytesAreWords ==
  ASSUME NEW b \in Bytes
  PROVE  b \in Word32 /\ b \in Word16
BY BytesAssumption DEF BytesAssumption, Word32, Word16
-----------------------------------------------------------------------------
LEMMA DivideType == ASSUME NEW x \in Word32 PROVE Divide(x) \in Word32
BY DEF Divide, ShiftRight, Xor, Polynomial, Word32

(* The two highest bits of the quotient tell the sign and the lowest bit   *)
(* of what was divided: only one of them is in the polynomial.             *)
LEMMA DivideInjective ==
  ASSUME NEW x \in Word32, NEW y \in Word32, Divide(x) = Divide(y)
  PROVE  x = y
<1>1. 31 \in x <=> 31 \in y
  <2>1. ASSUME NEW w \in Word32 PROVE 30 \in Divide(w) <=> 31 \in w
    BY DEF Divide, ShiftRight, Xor, Polynomial, Word32
  <2> QED BY <2>1
<1>2. 0 \in x <=> 0 \in y
  <2>1. ASSUME NEW w \in Word32 PROVE 31 \in Divide(w) <=> ((31 \in w) # (0 \in w))
    BY DEF Divide, ShiftRight, Xor, Polynomial, Word32
  <2> QED BY <1>1, <2>1
<1>3. ShiftRight(x) = ShiftRight(y)
  <2>1. CASE 0 \in x
    BY <1>2, <2>1, XorCancels DEF Divide
  <2>2. CASE 0 \notin x
    BY <1>2, <2>2 DEF Divide
  <2> QED BY <2>1, <2>2
<1>4. ASSUME NEW i \in 1..31 PROVE i \in x <=> i \in y
  <2>1. i - 1 \in ShiftRight(x) <=> i - 1 \in ShiftRight(y) BY <1>3
  <2> QED BY <1>1, <2>1 DEF ShiftRight
<1>5. \A i \in 0..31 : i \in x <=> i \in y
  <2> SUFFICES ASSUME NEW i \in 0..31 PROVE i \in x <=> i \in y OBVIOUS
  <2>1. i = 0 \/ i \in 1..31 OBVIOUS
  <2> QED BY <1>2, <1>4, <2>1
<1> QED BY <1>5 DEF Word32

LEMMA Divide4Injective ==
  ASSUME NEW x \in Word32, NEW y \in Word32
  PROVE  /\ Divide4(x) \in Word32
         /\ Divide4(x) = Divide4(y) => x = y
BY DivideType, DivideInjective DEF Divide4

LEMMA XorType32 ==
  ASSUME NEW x \in Word32, NEW y \in Word32 PROVE Xor(x, y) \in Word32
BY DEF Xor, Word32

LEMMA Add32Injective ==
  ASSUME NEW x \in Word32, NEW y \in Word32, NEW b \in Bytes, NEW c \in Bytes,
         Add32(x, b) = Add32(y, c)
  PROVE  Xor(x, b) = Xor(y, c)
<1>1. Xor(x, b) \in Word32 /\ Xor(y, c) \in Word32 BY BytesAreWords, XorType32
<1> QED BY <1>1, Divide4Injective DEF Add32

LEMMA Add32Type ==
  ASSUME NEW x \in Word32, NEW b \in Bytes PROVE Add32(x, b) \in Word32
<1>1. Xor(x, b) \in Word32 BY BytesAreWords, XorType32
<1> QED BY <1>1, Divide4Injective DEF Add32
-----------------------------------------------------------------------------
LEMMA SameBits16 ==
  ASSUME NEW x \in Word16, NEW y \in Word16, \A i \in 0..15 : i \in x <=> i \in y
  PROVE  x = y
BY DEF Word16

LEMMA XorType16 ==
  ASSUME NEW x \in Word16, NEW y \in Word16 PROVE Xor(x, y) \in Word16
BY DEF Xor, Word16

LEMMA StepTypes16 ==
  ASSUME NEW x \in Word16
  PROVE  /\ SwapBytes(x) \in Word16   /\ FoldNibble(x) \in Word16
         /\ RaiseNibble(x) \in Word16 /\ RaiseByte(x) \in Word16
<1>1. SwapBytes(x) \in Word16 BY DEF SwapBytes, Word16
<1>2. FoldNibble(x) \in Word16
  <2>1. {i \in 0..3 : i + 4 \in x} \in Word16 BY DEF Word16
  <2> QED BY <2>1, XorType16 DEF FoldNibble
<1>3. RaiseNibble(x) \in Word16
  <2>1. {i \in 12..15 : i - 12 \in x} \in Word16 BY DEF Word16
  <2> QED BY <2>1, XorType16 DEF RaiseNibble
<1>4. RaiseByte(x) \in Word16
  <2>1. {i \in 5..12 : i - 5 \in x} \in Word16 BY DEF Word16
  <2> QED BY <2>1, XorType16 DEF RaiseByte
<1> QED BY <1>1, <1>2, <1>3, <1>4

LEMMA SwapBytesInjective ==
  ASSUME NEW x \in Word16, NEW y \in Word16, SwapBytes(x) = SwapBytes(y)
  PROVE  x = y
<1>1. ASSUME NEW i \in 0..7 PROVE i \in x <=> i \in y
  <2>1. i + 8 \in SwapBytes(x) <=> i + 8 \in SwapBytes(y) OBVIOUS
  <2> QED BY <2>1 DEF SwapBytes
<1>2. ASSUME NEW i \in 8..15 PROVE i \in x <=> i \in y
  <2>1. i - 8 \in SwapBytes(x) <=> i - 8 \in SwapBytes(y) OBVIOUS
  <2> QED BY <2>1 DEF SwapBytes
<1>3. \A i \in 0..15 : i \in x <=> i \in y BY <1>1, <1>2
<1> QED BY <1>3, SameBits16

(* FoldNibble leaves every bit but the lowest four, which it mixes with    *)
(* bits it leaves.                                                         *)
LEMMA FoldNibbleInjective ==
  ASSUME NEW x \in Word16, NEW y \in Word16, FoldNibble(x) = FoldNibble(y)
  PROVE  x = y
<1>1. ASSUME NEW i \in 4..15 PROVE i \in x <=> i \in y
  <2>1. i \in FoldNibble(x) <=> i \in FoldNibble(y) OBVIOUS
  <2> QED BY <2>1 DEF FoldNibble, Xor
<1>2. ASSUME NEW i \in 0..3 PROVE i \in x <=> i \in y
  <2>1. i \in FoldNibble(x) <=> i \in FoldNibble(y) OBVIOUS
  <2>2. i + 4 \in x <=> i + 4 \in y BY <1>1
  <2> QED BY <2>1, <2>2 DEF FoldNibble, Xor
<1>3. \A i \in 0..15 : i \in x <=> i \in y BY <1>1, <1>2
<1> QED BY <1>3, SameBits16

LEMMA RaiseNibbleInjective ==
  ASSUME NEW x \in Word16, NEW y \in Word16, RaiseNibble(x) = RaiseNibble(y)
  PROVE  x = y
<1>1. ASSUME NEW i \in 0..11 PROVE i \in x <=> i \in y
  <2>1. i \in RaiseNibble(x) <=> i \in RaiseNibble(y) OBVIOUS
  <2> QED BY <2>1 DEF RaiseNibble, Xor
<1>2. ASSUME NEW i \in 12..15 PROVE i \in x <=> i \in y
  <2>1. i \in RaiseNibble(x) <=> i \in RaiseNibble(y) OBVIOUS
  <2>2. i - 12 \in x <=> i - 12 \in y BY <1>1
  <2> QED BY <2>1, <2>2 DEF RaiseNibble, Xor
<1>3. \A i \in 0..15 : i \in x <=> i \in y BY <1>1, <1>2
<1> QED BY <1>3, SameBits16

(* RaiseByte moves every bit up by five places: the lowest five are left,  *)
(* the next five are mixed with those and the three above with these.      *)
LEMMA RaiseByteInjective ==
  ASSUME NEW x \in Word16, NEW y \in Word16, RaiseByte(x) = RaiseByte(y)
  PROVE  x = y
<1>1. ASSUME NEW i \in 0..15, i \in 5..12 => (i - 5 \in x <=> i - 5 \in y)
      PROVE  i \in x <=> i \in y
  <2>1. i \in RaiseByte(x) <=> i \in RaiseByte(y) OBVIOUS
  <2>2. CASE i \in 5..12 BY <1>1, <2>1, <2>2 DEF RaiseByte, Xor
  <2>3. CASE i \notin 5..12 BY <2>1, <2>3 DEF RaiseByte, Xor
  <2> QED BY <2>2, <2>3
<1>2. ASSUME NEW i \in 0..4 PROVE i \in x <=> i \in y BY <1>1
<1>3. ASSUME NEW i \in 5..9 PROVE i \in x <=> i \in y BY <1>1, <1>2
<1>4. ASSUME NEW i \in 10..15 PROVE i \in x <=> i \in y BY <1>1, <1>3
<1>5. \A i \in 0..15 : i \in x <=> i \in y BY <1>2, <1>3, <1>4
<1> QED BY <1>5, SameBits16

LEMMA Add16Injective ==
  ASSUME NEW x \in Word16, NEW y \in Word16, NEW b \in Bytes, NEW c \in Bytes,
         Add16(x, b) = Add16(y, c)
  PROVE  Xor(SwapBytes(x), b) = Xor(SwapBytes(y), c)
<1> DEFINE p == Xor(SwapBytes(x), b)   q == Xor(SwapBytes(y), c)
<1>1. p \in Word16 /\ q \in Word16 BY BytesAreWords, StepTypes16, XorType16
<1> HIDE DEF p, q
<1>2. RaiseByte(RaiseNibble(FoldNibble(p))) = RaiseByte(RaiseNibble(FoldNibble(q)))
  BY DEF Add16, p, q
<1>3. RaiseNibble(FoldNibble(p)) = RaiseNibble(FoldNibble(q))
  BY <1>1, <1>2, StepTypes16, RaiseByteInjective
<1>4. FoldNibble(p) = FoldNibble(q) BY <1>1, <1>3, StepTypes16, RaiseNibbleInjective
<1>5. p = q BY <1>1, <1>4, FoldNibbleInjective
<1> QED BY <1>5 DEF p, q

LEMMA Add16Type ==
  ASSUME NEW x \in Word16, NEW b \in Bytes PROVE Add16(x, b) \in Word16
<1>1. Xor(SwapBytes(x), b) \in Word16 BY BytesAreWords, StepTypes16, XorType16
<1> QED BY <1>1, StepTypes16 DEF Add16
-----------------------------------------------------------------------------
(* One byte more, the same on both sides, keeps a difference.              *)
LEMMA SameByteKeeps ==
  ASSUME NEW b \in Bytes
  PROVE  /\ \A x, y \in Word32 : x # y => Add32(x, b) # Add32(y, b)
         /\ \A x, y \in Word16 : x # y => Add16(x, b) # Add16(y, b)
<1>1. ASSUME NEW x \in Word32, NEW y \in Word32, Add32(x, b) = Add32(y, b) PROVE x = y
  BY <1>1, Add32Injective, XorCancels
<1>2. ASSUME NEW x \in Word16, NEW y \in Word16, Add16(x, b) = Add16(y, b) PROVE x = y
  BY <1>2, Add16Injective, XorCancels, SwapBytesInjective
<1> QED BY <1>1, <1>2

-----------------------------------------------------------------------------
(* The sums are words, whatever bytes are read.                            *)
THEOREM TypeInvariant == Spec => []TypeOK
<1>1. Init => TypeOK
  BY BoundsAssumption
  DEF BoundsAssumption, Init, TypeOK, Start32, Start16, Word32, Word16
<1>2. TypeOK /\ [Next]_vars => TypeOK'
  <2> SUFFICES ASSUME TypeOK, [Next]_vars PROVE TypeOK' OBVIOUS
  <2>1. ASSUME NEW b \in Bytes, NEW c \in Bytes, Read(b, c)
        PROVE  /\ sent32' \in Word32 /\ got32' \in Word32
               /\ sent16' \in Word16 /\ got16' \in Word16
               /\ length' = length + 1 /\ length' \in 0..MaxLength
    BY <2>1, BoundsAssumption, Add32Type, Add16Type DEF BoundsAssumption, TypeOK, Read
  <2>2. CASE Intact
    BY <2>1, <2>2, BoundsAssumption DEF BoundsAssumption, TypeOK, Intact
  <2>3. CASE Damaged
    BY <2>1, <2>3, BoundsAssumption DEF BoundsAssumption, TypeOK, Damaged
  <2>4. CASE UNCHANGED vars
    BY <2>4 DEF TypeOK, vars
  <2> QED BY <2>2, <2>3, <2>4 DEF Next
<1> QED BY <1>1, <1>2, PTL DEF Spec

(* Damage that began spans at least its first byte.                        *)
SpanBegins == since = 0 <=> span = 0

(* The sums of what arrived as it was sent are alike.                      *)
Unharmed == since = 0 => sent32 = got32 /\ sent16 = got16
-----------------------------------------------------------------------------
(***************************************************************************)
(* Damage to neighbouring bytes, traced back: two sums of 32 bits that are *)
(* alike from some bit on, and below some bit, were alike from a higher    *)
(* one on before the last division.                                        *)
(***************************************************************************)
Alike(x, y, low, high) ==
    \A i \in 0..31 : i < low \/ i >= high => (i \in x <=> i \in y)

LEMMA DivideBack ==
  ASSUME NEW x \in Word32, NEW y \in Word32, NEW low \in Nat, NEW high \in 0..31,
         high = 31 => (31 \in x <=> 31 \in y),
         Alike(Divide(x), Divide(y), low, high)
  PROVE  Alike(x, y, low + 1, high + 1)
<1>1. 31 \in x <=> 31 \in y
  <2>1. ASSUME NEW w \in Word32 PROVE 30 \in Divide(w) <=> 31 \in w
    BY DEF Divide, ShiftRight, Xor, Polynomial, Word32
  <2>2. high # 31 => (30 \in Divide(x) <=> 30 \in Divide(y))
    BY DEF Alike
  <2> QED BY <2>1, <2>2
<1>2. 0 \in x <=> 0 \in y
  <2>1. ASSUME NEW w \in Word32 PROVE 31 \in Divide(w) <=> ((31 \in w) # (0 \in w))
    BY DEF Divide, ShiftRight, Xor, Polynomial, Word32
  <2>2. 31 \in Divide(x) <=> 31 \in Divide(y)
    BY DEF Alike
  <2> QED BY <1>1, <2>1, <2>2
<1>3. ASSUME NEW i \in 0..31, i < low + 1 \/ i >= high + 1
      PROVE  i \in x <=> i \in y
  <2>1. CASE i = 0
    BY <1>2, <2>1
  <2>2. CASE i # 0
    <3> DEFINE j == i - 1
    <3>1. j \in 0..30 /\ i = j + 1 /\ (j < low \/ j >= high)
      BY <1>3, <2>2
    <3>2. j \in Divide(x) <=> j \in Divide(y)
      BY <3>1 DEF Alike
    <3>3. ASSUME NEW w \in Word32
          PROVE  j \in Divide(w) <=> (i \in w) # (0 \in w /\ j \in Polynomial)
      BY <3>1 DEF Divide, ShiftRight, Xor
    <3>4. /\ j \in Divide(x) <=> (i \in x) # (0 \in x /\ j \in Polynomial)
          /\ j \in Divide(y) <=> (i \in y) # (0 \in y /\ j \in Polynomial)
      BY <3>3
    <3> QED BY <1>2, <3>2, <3>4
  <2> QED BY <2>1, <2>2
<1> QED BY <1>3 DEF Alike

LEMMA Divide4Back ==
  ASSUME NEW x \in Word32, NEW y \in Word32, NEW low \in Nat, NEW high \in 0..27,
         Alike(Divide4(x), Divide4(y), low, high)
  PROVE  Alike(x, y, low + 4, high + 4)
<1> DEFINE D1(w) == Divide(w)   D2(w) == Divide(D1(w))   D3(w) == Divide(D2(w))
<1>1. /\ D1(x) \in Word32 /\ D1(y) \in Word32 /\ D2(x) \in Word32 /\ D2(y) \in Word32
      /\ D3(x) \in Word32 /\ D3(y) \in Word32
  BY DivideType
<1>2. Alike(D3(x), D3(y), low + 1, high + 1)
  BY <1>1, DivideBack DEF Divide4
<1>3. Alike(D2(x), D2(y), low + 2, high + 2)
  <2>1. Alike(D2(x), D2(y), (low + 1) + 1, (high + 1) + 1)
    BY <1>1, <1>2, DivideBack
  <2> QED BY <2>1
<1>4. Alike(D1(x), D1(y), low + 3, high + 3)
  <2>1. Alike(D1(x), D1(y), (low + 2) + 1, (high + 2) + 1)
    BY <1>1, <1>3, DivideBack
  <2> QED BY <2>1
<1>5. Alike(x, y, (low + 3) + 1, (high + 3) + 1)
  BY <1>4, DivideBack
<1> QED BY <1>5

LEMMA BytesAreLow ==
  ASSUME NEW b \in Bytes PROVE b \subseteq 0..7
BY BytesAssumption DEF BytesAssumption

(* A byte that is read mixes into the lowest eight bits only.              *)
LEMMA XorByteAlike ==
  ASSUME NEW x, NEW y, NEW b \in Bytes, NEW c \in Bytes,
         NEW i \in 8..31
  PROVE  (i \in Xor(x, b) <=> i \in Xor(y, c)) <=> (i \in x <=> i \in y)
<1>1. i \notin b /\ i \notin c
  BY BytesAreLow
<1> QED BY <1>1 DEF Xor

(* One byte back.                                                          *)
LEMMA Add32Back ==
  ASSUME NEW x \in Word32, NEW y \in Word32, NEW b \in Bytes, NEW c \in Bytes,
         NEW high \in 0..23, Alike(Add32(x, b), Add32(y, c), 0, high)
  PROVE  Alike(x, y, 0, high + 8)
<1> DEFINE p == Xor(x, b)   q == Xor(y, c)
<1>1. p \in Word32 /\ q \in Word32
  BY BytesAreWords, XorType32
<1>2. Divide4(p) \in Word32 /\ Divide4(q) \in Word32
  BY <1>1, Divide4Injective
<1>3. Alike(Divide4(p), Divide4(q), 0 + 4, high + 4)
  BY <1>2, Divide4Back DEF Add32
<1>4. Alike(p, q, 4 + 4, (high + 4) + 4)
  <2>1. high + 4 \in 0..27 /\ 0 + 4 = 4
    OBVIOUS
  <2> HIDE DEF p, q
  <2> QED BY <1>1, <1>3, <2>1, Divide4Back
<1>5. ASSUME NEW i \in 0..31, i >= high + 8 PROVE i \in x <=> i \in y
  <2>1. i \in p <=> i \in q
    BY <1>4, <1>5 DEF Alike
  <2>2. i \in 8..31
    BY <1>5
  <2> QED BY <2>1, <2>2, XorByteAlike
<1> QED BY <1>5 DEF Alike

(* The first damaged byte shows in the highest eight bits.                 *)
LEMMA FirstByteShows32 ==
  ASSUME NEW x \in Word32, NEW b \in Bytes, NEW c \in Bytes, b # c
  PROVE  ~Alike(Add32(x, b), Add32(x, c), 0, 24)
<1> SUFFICES ASSUME Alike(Add32(x, b), Add32(x, c), 0, 24) PROVE FALSE
  OBVIOUS
<1> DEFINE p == Xor(x, b)   q == Xor(x, c)
<1>1. p \in Word32 /\ q \in Word32
  BY BytesAreWords, XorType32
<1>2. Alike(Divide4(p), Divide4(q), 4, 28)
  <2>1. Divide4(p) \in Word32 /\ Divide4(q) \in Word32
    BY <1>1, Divide4Injective
  <2>2. Alike(Divide4(p), Divide4(q), 0 + 4, 24 + 4)
    BY <2>1, Divide4Back DEF Add32
  <2> QED BY <2>2
<1>3. \A i \in 8..31 : i \in p <=> i \in q
  BY XorByteAlike
<1> HIDE DEF p, q
<1> DEFINE D1(w) == Divide(w)   D2(w) == Divide(D1(w))   D3(w) == Divide(D2(w))
<1>4. /\ D1(p) \in Word32 /\ D1(q) \in Word32 /\ D2(p) \in Word32 /\ D2(q) \in Word32
      /\ D3(p) \in Word32 /\ D3(q) \in Word32
  BY <1>1, DivideType
<1>5. Alike(D3(p), D3(q), 4 + 1, 28 + 1)
  BY <1>2, <1>4, DivideBack DEF Divide4
<1>6. Alike(D2(p), D2(q), 5 + 1, 29 + 1)
  BY <1>4, <1>5, DivideBack
<1>7. Alike(D1(p), D1(q), 6 + 1, 30 + 1)
  BY <1>4, <1>6, DivideBack
<1>8. Alike(p, q, 7 + 1, 31 + 1)
  BY <1>1, <1>3, <1>7, DivideBack
<1>9. \A i \in 0..31 : i \in p <=> i \in q
  BY <1>3, <1>8 DEF Alike
<1>10. p = q
  BY <1>1, <1>9 DEF Word32
<1> QED BY <1>10, XorCancelsLeft DEF p, q
-----------------------------------------------------------------------------
SameLowByte(x, y) == \A i \in 0..7 : i \in x <=> i \in y

(* The same for 16 bits: the first damaged byte shows in the lower byte,   *)
(* which the next step makes the higher one.                               *)
LEMMA FirstByteShows16 ==
  ASSUME NEW x \in Word16, NEW b \in Bytes, NEW c \in Bytes, b # c
  PROVE  ~SameLowByte(Add16(x, b), Add16(x, c))
<1> SUFFICES ASSUME SameLowByte(Add16(x, b), Add16(x, c)) PROVE FALSE
  OBVIOUS
<1> DEFINE p == Xor(SwapBytes(x), b)   q == Xor(SwapBytes(x), c)
           f == FoldNibble(p)          g == FoldNibble(q)
           r == RaiseNibble(f)         s == RaiseNibble(g)
<1>1. p \in Word16 /\ q \in Word16
  BY BytesAreWords, StepTypes16, XorType16
<1>2. SameLowByte(RaiseByte(r), RaiseByte(s))
  BY DEF Add16
<1>3. ASSUME NEW i \in 8..15 PROVE i \in p <=> i \in q
  <2>1. i \in 8..31 OBVIOUS
  <2> QED BY <2>1, XorByteAlike
<1> HIDE DEF p, q
<1>4. SameLowByte(r, s)
  <2> HIDE DEF r, s
  <2>1. ASSUME NEW i \in 0..4 PROVE i \in r <=> i \in s
    <3>1. i \in RaiseByte(r) <=> i \in RaiseByte(s) BY <1>2 DEF SameLowByte
    <3> QED BY <3>1 DEF RaiseByte, Xor
  <2>2. ASSUME NEW i \in 5..7 PROVE i \in r <=> i \in s
    <3>1. i \in RaiseByte(r) <=> i \in RaiseByte(s) BY <1>2 DEF SameLowByte
    <3>2. i - 5 \in r <=> i - 5 \in s BY <2>1
    <3> QED BY <3>1, <3>2 DEF RaiseByte, Xor
  <2>3. \A i \in 0..7 : i \in 0..4 \/ i \in 5..7
    OBVIOUS
  <2> QED BY <2>1, <2>2, <2>3 DEF SameLowByte
<1>5. SameLowByte(f, g)
  <2>1. ASSUME NEW i \in 0..7 PROVE i \in f <=> i \in g
    <3>1. i \in RaiseNibble(f) <=> i \in RaiseNibble(g) BY <1>4 DEF SameLowByte
    <3> HIDE DEF f, g
    <3> QED BY <3>1 DEF RaiseNibble, Xor
  <2> QED BY <2>1 DEF SameLowByte
<1>6. \A i \in 0..7 : i \in p <=> i \in q
  <2>1. ASSUME NEW i \in 4..7 PROVE i \in p <=> i \in q
    <3>1. i \in FoldNibble(p) <=> i \in FoldNibble(q) BY <1>5 DEF SameLowByte
    <3> QED BY <3>1 DEF FoldNibble, Xor
  <2>2. ASSUME NEW i \in 0..3 PROVE i \in p <=> i \in q
    <3>1. i \in FoldNibble(p) <=> i \in FoldNibble(q) BY <1>5 DEF SameLowByte
    <3>2. i + 4 \in p <=> i + 4 \in q BY <2>1
    <3> QED BY <3>1, <3>2 DEF FoldNibble, Xor
  <2> QED BY <2>1, <2>2
<1>7. p = q
  <2>1. \A i \in 0..15 : i \in p <=> i \in q BY <1>3, <1>6
  <2> QED BY <1>1, <2>1, SameBits16
<1> QED BY <1>7, XorCancelsLeft DEF p, q

LEMMA Add16Back ==
  ASSUME NEW x \in Word16, NEW y \in Word16, NEW b \in Bytes, NEW c \in Bytes,
         Add16(x, b) = Add16(y, c)
  PROVE  SameLowByte(x, y)
<1> SUFFICES ASSUME NEW i \in 0..7 PROVE i \in x <=> i \in y
  BY DEF SameLowByte
<1>1. Xor(SwapBytes(x), b) = Xor(SwapBytes(y), c)
  BY Add16Injective
<1>2. i + 8 \in SwapBytes(x) <=> i + 8 \in SwapBytes(y)
  <2>1. i + 8 \in 8..31 OBVIOUS
  <2> QED BY <1>1, <2>1, XorByteAlike
<1>3. i + 8 \in 0..15 /\ ~(i + 8 < 8) /\ (i + 8) - 8 = i
  OBVIOUS
<1> QED BY <1>2, <1>3 DEF SwapBytes
-----------------------------------------------------------------------------
(* While a burst goes on, and until it can be over: the bits that tell the *)
(* two sums apart.                                                         *)
BurstShows ==
    /\ since \in 1..4 => ~Alike(sent32, got32, 0, 32 - 8 * since)
    /\ since > 4 /\ span <= 4 => sent32 # got32
    /\ since = 1 => ~SameLowByte(sent16, got16)
    /\ since > 1 /\ span <= 2 => sent16 # got16

LEMMA BurstGrows ==
  ASSUME TypeOK, BurstShows, since # 0, NEW b \in Bytes, NEW c \in Bytes, Read(b, c)
  PROVE  /\ since \in 1..3 => ~Alike(sent32', got32', 0, 32 - 8 * (since + 1))
         /\ since = 1 => sent16' # got16'
<1>1. since \in 1..3 => ~Alike(sent32', got32', 0, 32 - 8 * (since + 1))
  <2> SUFFICES ASSUME since \in 1..3, Alike(sent32', got32', 0, 32 - 8 * (since + 1))
               PROVE  FALSE
    OBVIOUS
  <2> DEFINE n == 24 - 8 * since
  <2>1. n \in 0..23 /\ 32 - 8 * (since + 1) = n /\ n + 8 = 32 - 8 * since
    OBVIOUS
  <2> HIDE DEF n
  <2>2. Alike(sent32, got32, 0, n + 8)
    BY <2>1, Add32Back DEF TypeOK, Read
  <2> QED BY <2>1, <2>2 DEF BurstShows
<1>2. since = 1 => sent16' # got16'
  BY Add16Back DEF TypeOK, Read, BurstShows
<1> QED BY <1>1, <1>2

LEMMA BurstIntact ==
  ASSUME TypeOK, SpanBegins, BurstShows, Intact
  PROVE  SpanBegins' /\ BurstShows'
<1>1. PICK b \in Bytes : Read(b, b)
  BY DEF Intact
<1>2. span' = span /\ since \in Nat /\ since' = (IF since = 0 THEN 0 ELSE since + 1)
  BY BoundsAssumption DEF BoundsAssumption, Intact, TypeOK
<1>3. SpanBegins'
  BY <1>2 DEF SpanBegins
<1>4. CASE since = 0
  BY <1>2, <1>3, <1>4 DEF BurstShows
<1>5. CASE since # 0
  <2>1. since' = since + 1 /\ since >= 1
    BY <1>2, <1>5
  <2>2. since' \in 1..4 => ~Alike(sent32', got32', 0, 32 - 8 * since')
    <3>1. since' \in 1..4 => since \in 1..3
      BY <1>2, <2>1
    <3> QED BY <1>1, <1>5, <2>1, <3>1, BurstGrows
  <2>3. since' > 4 /\ span' <= 4 => sent32' # got32'
    <3> SUFFICES ASSUME since' > 4, span' <= 4 PROVE sent32' # got32'
      OBVIOUS
    <3>1. since = 4 \/ since > 4
      BY <1>2, <2>1
    <3>2. sent32 # got32
      <4>1. CASE since = 4
        <5>1. ~Alike(sent32, got32, 0, 32 - 8 * since)
          BY <4>1 DEF BurstShows
        <5> QED BY <5>1 DEF Alike
      <4>2. CASE since > 4
        BY <1>2, <4>2 DEF BurstShows
      <4> QED BY <3>1, <4>1, <4>2
    <3> QED BY <1>1, <3>2, SameByteKeeps DEF TypeOK, Read
  <2>4. since' > 1 /\ span' <= 2 => sent16' # got16'
    <3> SUFFICES ASSUME span' <= 2 PROVE sent16' # got16'
      OBVIOUS
    <3>1. CASE since = 1
      BY <1>1, <1>5, <3>1, BurstGrows
    <3>2. CASE since # 1
      <4>1. sent16 # got16
        BY <1>2, <2>1, <3>2 DEF BurstShows
      <4> QED BY <1>1, <4>1, SameByteKeeps DEF TypeOK, Read
    <3> QED BY <3>1, <3>2
  <2>5. since' # 1
    BY <1>2, <2>1
  <2> QED BY <1>3, <2>2, <2>3, <2>4, <2>5 DEF BurstShows
<1> QED BY <1>3, <1>4, <1>5

LEMMA BurstDamaged ==
  ASSUME TypeOK, SpanBegins, BurstShows, since = 0 => sent32 = got32 /\ sent16 = got16,
         Damaged
  PROVE  SpanBegins' /\ BurstShows'
<1>1. PICK b \in Bytes, c \in Bytes : b # c /\ Read(b, c)
  BY DEF Damaged
<1>2. since \in Nat /\ since' = since + 1 /\ span' = since + 1
  BY BoundsAssumption DEF BoundsAssumption, Damaged, TypeOK
<1>3. SpanBegins'
  BY <1>2 DEF SpanBegins
<1>4. since' \in 1..4 => ~Alike(sent32', got32', 0, 32 - 8 * since')
  <2>1. CASE since = 0
    <3>1. sent32' = Add32(sent32, b) /\ got32' = Add32(sent32, c)
      BY <1>1, <2>1 DEF Read
    <3>2. ~Alike(sent32', got32', 0, 24)
      BY <1>1, <3>1, FirstByteShows32 DEF TypeOK
    <3>3. 32 - 8 * since' = 24
      BY <1>2, <2>1
    <3> QED BY <3>2, <3>3
  <2>2. CASE since # 0
    <3>1. since' \in 1..4 => since \in 1..3
      BY <1>2, <2>2
    <3> QED BY <1>1, <1>2, <2>2, <3>1, BurstGrows
  <2> QED BY <2>1, <2>2
<1>5. since' = 1 => ~SameLowByte(sent16', got16')
  <2> SUFFICES ASSUME since = 0 PROVE ~SameLowByte(sent16', got16')
    BY <1>2
  <2>1. sent16' = Add16(sent16, b) /\ got16' = Add16(sent16, c)
    BY <1>1 DEF Read
  <2> QED BY <1>1, <2>1, FirstByteShows16 DEF TypeOK
<1>6. since' > 1 /\ span' <= 2 => sent16' # got16'
  <2>1. since' > 1 /\ span' <= 2 => since = 1
    BY <1>2
  <2> QED BY <1>1, <2>1, BurstGrows
<1>7. ~(since' > 4 /\ span' <= 4)
  BY <1>2
<1> QED BY <1>3, <1>4, <1>5, <1>6, <1>7 DEF BurstShows

(* BurstIsSeen: neither check of IMessage takes a message of any length in *)
(* which as many neighbouring bytes were damaged as the check has.         *)
THEOREM BurstIsAlwaysSeen == Spec => []BurstIsSeen
<1> DEFINE Inv == Unharmed /\ SpanBegins /\ BurstShows
<1>1. Init => Inv
  BY DEF Init, Unharmed, SpanBegins, BurstShows
<1>2. TypeOK /\ Inv /\ [Next]_vars => Inv'
  <2> SUFFICES ASSUME TypeOK, Inv, [Next]_vars PROVE Inv'
    OBVIOUS
  <2>1. CASE UNCHANGED vars
    BY <2>1 DEF vars, Unharmed, SpanBegins, BurstShows
  <2>2. CASE Intact
    <3>1. PICK b \in Bytes : Read(b, b)
      BY <2>2 DEF Intact
    <3>2. Unharmed'
      BY <2>2, <3>1 DEF Intact, Read, Unharmed, TypeOK
    <3> QED BY <2>2, <3>2, BurstIntact DEF Unharmed
  <2>3. CASE Damaged
    <3>1. since' # 0
      BY <2>3, BoundsAssumption DEF BoundsAssumption, Damaged, TypeOK
    <3> QED BY <2>3, <3>1, BurstDamaged DEF Unharmed
  <2> QED BY <2>1, <2>2, <2>3 DEF Next
<1>3. TypeOK /\ SpanBegins /\ BurstShows => BurstIsSeen
  <2> SUFFICES ASSUME TypeOK, SpanBegins, BurstShows PROVE BurstIsSeen
    OBVIOUS
  <2>1. since \in Nat /\ span \in Nat /\ (since = 0 <=> span = 0)
    BY BoundsAssumption DEF BoundsAssumption, TypeOK, SpanBegins
  <2>2. span \in 1..4 => sent32 # got32
    <3> SUFFICES ASSUME span \in 1..4 PROVE sent32 # got32
      OBVIOUS
    <3>1. CASE since \in 1..4
      <4>1. ~Alike(sent32, got32, 0, 32 - 8 * since)
        BY <3>1 DEF BurstShows
      <4> QED BY <4>1 DEF Alike
    <3>2. CASE since > 4
      BY <3>2 DEF BurstShows
    <3> QED BY <2>1, <3>1, <3>2
  <2>3. span \in 1..2 => sent16 # got16
    BY <2>1 DEF BurstShows, SameLowByte
  <2> QED BY <2>2, <2>3 DEF BurstIsSeen
<1> QED BY <1>1, <1>2, <1>3, TypeInvariant, PTL DEF Spec
=============================================================================
