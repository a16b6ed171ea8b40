--------------------------- MODULE CommDispatcher ---------------------------
(***************************************************************************)
(* CommDispatcher::putChar: from bytes to frames, from packets to records. *)
(*                                                                         *)
(* A byte is a mark of a preamble, a zero, or anything else.  What a frame *)
(* holds, and whether its checksum is right, is left open and chosen when  *)
(* the code looks at it.  The statistics (failedReceptionCounter,          *)
(* sucessfullReceptionCounter) are left out: nothing reads them back.      *)
(***************************************************************************)
EXTENDS PayloadReassembly

CONSTANTS
  Repeats,           \* PREAMBLE_SIZE - 1
  ConstraintSize,    \* SIGNAL_CONSTRAINT_SIZE
  PacketSize,        \* SIGNAL_DATA_PAYLOAD_SIZE
  CrcSize,           \* CRC_SIZE
  ControlSize,       \* getPayloadSizeByType(CONTROL)
  AutopilotSize      \* getPayloadSizeByType(AUTOPILOT)

Sizes == {ConstraintSize, PacketSize, CrcSize, ControlSize, AutopilotSize}

ASSUME SizesAssumption == Repeats \in Nat \ {0} /\ Sizes \subseteq Nat \ {0}

VARIABLES
  ring,      \* preambleBuffer
  pos,       \* preambleBufferCounter
  active,    \* mark of activePreambleType, or "none" when no preamble is active
  kind,      \* what the command in dataBuffer says: command, packet
  filled,    \* dataBufferCounter
  target,    \* targetDataBufferCounter
  report,    \* what the last putChar returned
  fresh      \* history: bytes since the last reset, up to Repeats

frame == <<active, kind, filled, target>>
vars == <<ring, pos, frame, report, fresh, reassembly>>

(* getPreambleCharByType                                                   *)
Marks == {"$", "%", "^"}
Zero  == "0"
Bytes == Marks \cup {Zero, "other"}
None  == "none"

Positions == 0..(Repeats - 1)

DeactivatePreamble ==
    active' = None /\ kind' = None /\ filled' = 0 /\ target' = 0

(* The constructor calls reset, which leaves the ring as it is.            *)
Init ==
    /\ ring \in [Positions -> Bytes] /\ pos = 0
    /\ active = None /\ kind = None /\ filled = 0 /\ target = 0
    /\ report = None /\ fresh = 0
    /\ receiving = FALSE /\ class = NoClass
    /\ toReceive = 0 /\ received = 0 /\ buffer = NoBuffer /\ overrun = FALSE

Reset ==
    /\ pos' = 0 /\ DeactivatePreamble /\ ResetReassembly
    /\ report' = None /\ fresh' = 0
    /\ UNCHANGED ring
-----------------------------------------------------------------------------
(***************************************************************************)
(* Preambles.                                                              *)
(***************************************************************************)
NewPreamble_AnyMarks(b) == b = Zero /\ ring[0] \in Marks  \* mutant: not compared

NewPreamble(b) ==
    /\ b = Zero
    /\ \A i \in Positions : ring[i] = ring[0]
    /\ ring[0] \in Marks

Advance == pos' = IF pos + 1 >= Repeats THEN 0 ELSE pos + 1

(* updatePreamble, when there is none.                                     *)
UpdatePreamble(b) ==
    /\ ~NewPreamble(b)
    /\ ring' = [ring EXCEPT ![pos] = b]
    /\ Advance

(* activatePreamble: its loop clears the first byte of the ring only, and  *)
(* the data under way start anew.                                          *)
InitialTarget(m) ==
    CASE m = "%" -> ConstraintSize
      [] m = "$" -> ControlSize + CrcSize
      [] m = "^" -> AutopilotSize + CrcSize

Activate(b) ==
    /\ NewPreamble(b)
    /\ ring' = [ring EXCEPT ![pos] = b, ![0] = Zero] /\ Advance
    /\ active' = ring[0] /\ kind' = None
    /\ filled' = 0 /\ target' = InitialTarget(ring[0])
    /\ report' = None
    /\ UNCHANGED reassembly
-----------------------------------------------------------------------------
(***************************************************************************)
(* Data.                                                                   *)
(***************************************************************************)
Ignore(b) ==
    /\ UpdatePreamble(b)
    /\ active = None
    /\ report' = None
    /\ UNCHANGED <<frame, reassembly>>

Collect_TooFar(b) ==            \* mutant: one byte too many
    /\ UpdatePreamble(b)
    /\ active # None /\ filled + 1 <= target
    /\ filled' = filled + 1 /\ report' = None
    /\ UNCHANGED <<active, kind, target, reassembly>>

Collect(b) ==
    /\ UpdatePreamble(b)
    /\ active # None /\ filled + 1 < target
    /\ filled' = filled + 1 /\ report' = None
    /\ UNCHANGED <<active, kind, target, reassembly>>

AtConstraint == active = "%" /\ filled + 1 = ConstraintSize

(* updataTargetDataSizeWithCommand                                         *)
LearnTarget(b) ==
    /\ UpdatePreamble(b)
    /\ active # None /\ filled + 1 >= target /\ AtConstraint
    /\ filled' = filled + 1 /\ report' = None
    /\ \/ kind' = "packet"  /\ target' = target + PacketSize + CrcSize
       \/ kind' = "command" /\ target' = target + CrcSize
    /\ UNCHANGED <<active, reassembly>>

FrameEnds(b) ==
    /\ UpdatePreamble(b)
    /\ active # None /\ filled + 1 >= target /\ ~AtConstraint
    /\ DeactivatePreamble

WrongCrc_Abandons(b) ==         \* mutant: a broken frame ends the reception
    /\ FrameEnds(b)
    /\ report' = None
    /\ AbandonReception

WrongCrc(b) ==
    /\ FrameEnds(b)
    /\ report' = None
    /\ UNCHANGED reassembly

(* A packet is reported when its record is complete.                       *)
PacketEnds(b) ==
    /\ FrameEnds(b) /\ kind = "packet"
    /\ \E r \in Records : \E i \in Slots(r) :
         LET p == Packet(i, r) IN
           /\ PutPacket(p)
           /\ report' = IF Completes(p) THEN active ELSE None

OtherEnds(b) ==
    /\ FrameEnds(b) /\ kind # "packet"
    /\ report' = active
    /\ AbandonReception

PutChar(b) ==
    /\ \/ Activate(b) \/ Ignore(b) \/ Collect(b) \/ LearnTarget(b)
       \/ WrongCrc(b) \/ PacketEnds(b) \/ OtherEnds(b)
    /\ fresh' = IF fresh < Repeats THEN fresh + 1 ELSE fresh

Next == Reset \/ \E b \in Bytes : PutChar(b)

Spec == Init /\ [][Next]_vars
-----------------------------------------------------------------------------
(***************************************************************************)
(* Properties.                                                             *)
(***************************************************************************)

Targets ==
    {0, ConstraintSize, ConstraintSize + CrcSize, ConstraintSize + PacketSize + CrcSize,
     ControlSize + CrcSize, AutopilotSize + CrcSize}

(* Every variable has its type; what is in the data buffer never gets past *)
(* the end of the frame under way.                                         *)
TypeOK ==
    /\ ring \in [Positions -> Bytes] /\ pos \in Positions
    /\ active \in Marks \cup {None} /\ kind \in {None, "command", "packet"}
    /\ target \in Targets /\ filled \in 0..target
    /\ active # None => filled < target
    /\ report \in Marks \cup {None} /\ fresh \in 0..Repeats

(* The marks at the end of the ring, newest last, up to the whole ring.    *)
At(k) == ring[(pos + Repeats - k) % Repeats]     \* the k-th newest byte

Trailing(k) == \A j \in 1..k : At(j) = At(1)

Run ==
    IF At(1) \notin Marks THEN [mark |-> Zero, times |-> 0]
    ELSE [mark |-> At(1),
          times |-> CHOOSE k \in 1..Repeats :
                      Trailing(k) /\ (k < Repeats => ~Trailing(k + 1))]

(* A ring that is compared without regard to where it begins, and cleared  *)
(* in one place of three, tells preambles as they come in the stream; and  *)
(* a frame is reported from its own bytes whatever came before.            *)
Stream == INSTANCE FrameStream
          WITH run <- Run, bytes <- filled, frame <- active,
               LengthOf <-
                 [m \in Marks |-> [k \in {None, "command", "packet"} |->
                    CASE m = "$"    -> ControlSize + CrcSize
                      [] m = "^"    -> AutopilotSize + CrcSize
                      [] m = "%" /\ k = "packet" -> ConstraintSize + PacketSize + CrcSize
                      [] OTHER      -> ConstraintSize + CrcSize]]

ImplementsStream == Stream!Spec

(* Noise, preambles and broken frames do not end the reception of a record *)
(* under way: its last packet does, another frame, or a reset.             *)
NoiseKeepsReception ==
    [][receiving /\ ~receiving' => report' # None \/ Reset]_vars

(* CommDispatcher.hpp says of reset that it resets all buffers and data: a *)
(* preamble after it is made of bytes that came after it.                  *)
ResetForgets ==
    [][active' # None /\ filled' = 0 => fresh = Repeats]_vars
=============================================================================
