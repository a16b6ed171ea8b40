----------------------------- MODULE FrameStream -----------------------------
(***************************************************************************)
(* What a stream of bytes means, said without the parser's buffers: a      *)
(* preamble is one mark, repeated, and a zero; it begins a frame whatever  *)
(* came before; the frame is as long as its kind says; a whole frame is    *)
(* reported if its checksum is right, and forgotten otherwise.             *)
(***************************************************************************)
EXTENDS Naturals

CONSTANTS Bytes, Marks, Zero,
          Repeats,           \* how often the mark comes in a preamble
          ConstraintSize,    \* where a signal frame tells its length
          LengthOf           \* length of a frame by its mark and its kind

VARIABLES run,       \* the mark at the end of the stream, and how often
          frame,     \* mark of the frame under way, or "none"
          kind,      \* what a signal turned out to be: command, packet
          bytes,     \* bytes of it so far
          report     \* what the last byte completed

vars == <<run, frame, kind, bytes, report>>

NoRun == [mark |-> Zero, times |-> 0]

Runs == {NoRun} \cup [mark : Marks, times : 1..Repeats]

Extend(b) ==
    run' = IF b \notin Marks THEN NoRun
           ELSE IF b # run.mark THEN [mark |-> b, times |-> 1]
           ELSE [run EXCEPT !.times = IF @ < Repeats THEN @ + 1 ELSE @]

(* Neither the constructor nor reset clears what came before; reset mixes  *)
(* its order up, so any run may be left.                                   *)
Init == /\ run \in Runs
        /\ frame = "none" /\ kind = "none" /\ bytes = 0 /\ report = "none"

Starts(b) == b = Zero /\ run.times = Repeats

Start(b) ==
    /\ Starts(b)
    /\ frame' = run.mark /\ bytes' = 0 /\ kind' = "none" /\ report' = "none"

(* Between frames.                                                         *)
Skip(b) ==
    /\ ~Starts(b) /\ frame = "none"
    /\ report' = "none"
    /\ UNCHANGED <<frame, kind, bytes>>

Within(b) ==
    /\ ~Starts(b) /\ frame # "none"
    /\ bytes' = bytes + 1 /\ frame' = frame /\ report' = "none"
    /\ \/ frame = "%" /\ bytes + 1 = ConstraintSize /\ kind' \in {"command", "packet"}
       \/ ~(frame = "%" /\ bytes + 1 = ConstraintSize) /\ kind' = kind
    /\ bytes + 1 < LengthOf[frame][kind']

(* The last byte of a frame: it is reported, or its checksum is wrong, or  *)
(* it is a packet that does not complete its record.                       *)
Finish(b) ==
    /\ ~Starts(b) /\ frame # "none"
    /\ bytes + 1 = LengthOf[frame][kind]
    /\ frame' = "none" /\ kind' = "none" /\ bytes' = 0
    /\ report' \in {frame, "none"}

Byte(b) == Extend(b) /\ (Start(b) \/ Skip(b) \/ Within(b) \/ Finish(b))

Reset == /\ frame' = "none" /\ kind' = "none" /\ bytes' = 0 /\ report' = "none"
         /\ run' \in Runs

Next == Reset \/ \E b \in Bytes : Byte(b)

Spec == Init /\ [][Next]_vars
=============================================================================
