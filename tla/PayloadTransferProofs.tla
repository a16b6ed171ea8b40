----------------------- MODULE PayloadTransferProofs -----------------------
(***************************************************************************)
(* Theorems about PayloadTransfer, for every set of records of whatever    *)
(* lengths, every limit, any number of lost frames and timers that fire at *)
(* any time.                                                               *)
(*                                                                         *)
(* A record is accepted when the count is right and its checksum holds.    *)
(* That it is the one that was sent needs what a packet does to the        *)
(* buffer: the packet that completes the count is one of the sender's, is  *)
(* in the buffer when the record is judged (unless it was copied past its  *)
(* end), and can only pass for a part of the record it came from; and an   *)
(* older record that was left behind fills the buffer it came with.  That  *)
(* the sender's success is the receiver's needs what is on its way back:   *)
(* no ACK precedes an acceptance.                                          *)
(***************************************************************************)
EXTENDS PayloadTransfer, Integers, SequenceTheorems, FiniteSetTheorems, FunctionTheorems, TLAPS

(* An ACK on its way, or heard, stands for a record that was accepted; and *)
(* nothing was sent before the sender started.                             *)
AckIsTrue ==
    /\ receiver \notin Records => back \in Seq(Answers \ {"ACK"}) /\ sender # "done"
    /\ sender = "ready" => sends = 0

(* The buffer is that of one record, and holds parts of it and of the one  *)
(* that is sent.                                                           *)
Holds(b, n) ==
    \E old \in Records : n = Packets[old] /\ b \in [Slots(old) -> {old, Sent, Unwritten}]

BufferOfOne == receiving => Holds(buffer, toReceive)

TransferInv == TypeOK /\ ReceptionIsOpen /\ BufferOfOne /\ AcceptedIsSent /\ AckIsTrue

SentPackets == PacketsOf(Sent)
-----------------------------------------------------------------------------
(***************************************************************************)
(* Packets and what they do to the buffer.                                 *)
(***************************************************************************)
LEMMA SentIsWritten == Sent \in Records /\ Sent # Unwritten /\ Unwritten \notin Records
  BY TransferAssumption, UnwrittenAssumption DEF TransferAssumption, UnwrittenAssumption

LEMMA RecordHasPackets ==
  ASSUME NEW r \in Records
  PROVE  Packets[r] \in Nat \ {0} /\ ClassOf[r] \in Classes /\ 0 \in Slots(r)
  BY RecordsAssumption DEF RecordsAssumption, Slots

(* The record's packets are its packets.                                   *)
LEMMA AllPacketsAreSent ==
  /\ AllPackets \in Seq(SentPackets)
  /\ \A k \in 0..(Packets[Sent] - 1) : SubSeq(AllPackets, 1, k) \in Seq(SentPackets)
<1> DEFINE n == Packets[Sent]
<1>1. n \in Nat \ {0}
  BY SentIsWritten, RecordHasPackets
<1>2. \A i \in 1..n : Packet(i - 1, Sent) \in SentPackets
  BY <1>1 DEF SentPackets, PacketsOf, Slots
<1>3. AllPackets \in [1..n -> SentPackets]
  BY <1>2 DEF AllPackets
<1>4. AllPackets \in Seq(SentPackets)
  BY <1>1, <1>3, SeqDef
<1>5. ASSUME NEW k \in 0..(n - 1) PROVE SubSeq(AllPackets, 1, k) \in Seq(SentPackets)
  <2>1. k \in Int /\ \A i \in 1..k : AllPackets[i] \in SentPackets
    BY <1>1, <1>3
  <2> QED BY <2>1, SubSeqProperties, 1 \in Int
<1> QED BY <1>4, <1>5

LEMMA SentPacket ==
  ASSUME NEW p \in SentPackets
  PROVE  p.record = Sent /\ p.number \in Slots(Sent)
  BY DEF SentPackets, PacketsOf, Packet

(* What a packet leaves in the buffer: parts of the record the buffer was  *)
(* made for and of the one that is sent; and itself, unless its place is   *)
(* past the end.                                                           *)
LEMMA StoredHolds ==
  ASSUME ReceptionIsOpen, BufferOfOne, NEW p \in SentPackets
  PROVE  /\ Holds(Stored(p), Expected(p))
         /\ DOMAIN Stored(p) = 0..(Expected(p) - 1) /\ Expected(p) \in Nat
         /\ \E i \in DOMAIN Stored(p) : Stored(p)[i] # Unwritten
         /\ ~Overruns(p) => p.number \in DOMAIN Stored(p) /\ Stored(p)[p.number] = Sent
<1> DEFINE before == IF Continues(p) THEN buffer ELSE [i \in Slots(p.record) |-> Unwritten]
<1>1. p.record = Sent /\ p.number \in Slots(Sent) /\ Packets[Sent] \in Nat \ {0}
  BY SentPacket, SentIsWritten, RecordHasPackets
<1>2. Stored(p) = [i \in DOMAIN before |-> IF i = p.number THEN Sent ELSE before[i]]
  BY <1>1 DEF Stored
<1>3. PICK old \in Records :
        Expected(p) = Packets[old] /\ before \in [Slots(old) -> {old, Sent, Unwritten}]
  <2>1. CASE Continues(p)
    BY <2>1 DEF Continues, BufferOfOne, Holds, Expected
  <2>2. CASE ~Continues(p)
    <3>1. Expected(p) = Packets[Sent] /\ before \in [Slots(Sent) -> {Sent, Unwritten}]
      BY <1>1, <2>2 DEF Expected
    <3> QED BY <3>1, SentIsWritten
  <2> QED BY <2>1, <2>2
<1>4. ~Overruns(p) => p.number \in DOMAIN before
  <2>1. CASE Continues(p)
    BY <1>1, <2>1 DEF Overruns, Continues, ReceptionIsOpen, Slots
  <2>2. CASE ~Continues(p)
    BY <1>1, <2>2
  <2> QED BY <2>1, <2>2
<1>5. \E i \in DOMAIN before : Stored(p)[i] # Unwritten
  <2>1. CASE Continues(p)
    <3>1. PICK i \in DOMAIN buffer : buffer[i] # Unwritten
      BY <2>1 DEF Continues, ReceptionIsOpen
    <3> QED BY <1>2, <2>1, <3>1, SentIsWritten
  <2>2. CASE ~Continues(p)
    BY <1>2, <1>4, <2>2, SentIsWritten DEF Overruns
  <2> QED BY <2>1, <2>2
<1>6. DOMAIN before = 0..(Expected(p) - 1) /\ Expected(p) \in Nat
  BY <1>3, RecordHasPackets DEF Slots
<1> HIDE DEF before
<1>7. Stored(p) \in [Slots(old) -> {old, Sent, Unwritten}]
  BY <1>2, <1>3
<1> QED BY <1>2, <1>3, <1>4, <1>5, <1>6, <1>7 DEF Holds

(* What passes the checksum of a buffer that holds a sent packet is the    *)
(* record that was sent: an older record would fill the whole buffer.      *)
LEMMA PassesForSent ==
  ASSUME ReceptionIsOpen, BufferOfOne, NEW p \in SentPackets, ~Overruns(p),
         NEW r \in Records, PassesFor(Stored(p), r)
  PROVE  r = Sent
<1> SUFFICES ASSUME r # Sent PROVE FALSE
  OBVIOUS
<1>1. PICK old \in Records : Stored(p) \in [Slots(old) -> {old, Sent, Unwritten}]
  BY StoredHolds DEF Holds
<1>2. PICK i \in Slots(old) : Stored(p)[i] = r
  BY <1>1 DEF PassesFor
<1>3. r = old
  BY <1>1, <1>2, SentIsWritten
<1>4. p.number \in Slots(r) \cap DOMAIN Stored(p) /\ Stored(p)[p.number] = Sent
  BY <1>1, <1>3, StoredHolds
<1> QED BY <1>4, SentIsWritten DEF PassesFor

(* A packet leaves the reception as its count says.                        *)
LEMMA PutPacketReception ==
  ASSUME ReceptionIsOpen, BufferOfOne, NEW p \in SentPackets, PutPacket(p),
         overrun \in BOOLEAN
  PROVE  /\ ReceptionIsOpen' /\ BufferOfOne'
         /\ receiving' \in BOOLEAN /\ class' \in Classes
         /\ toReceive' \in Nat /\ received' \in Nat
         /\ buffer' = NoBuffer
              \/ \E r \in Records : buffer' \in [Slots(r) -> Records \cup {Unwritten}]
         /\ overrun' \in BOOLEAN
<1>1. p.record = Sent /\ ClassOf[Sent] \in Classes /\ Packets[Sent] \in Nat \ {0}
  BY SentPacket, SentIsWritten, RecordHasPackets
<1>2. Expected(p) \in Nat /\ Count(p) \in 1..Expected(p)
  BY <1>1 DEF Expected, Count, Continues, ReceptionIsOpen
<1>3. /\ class' = ClassOf[Sent] /\ toReceive' = Expected(p) /\ received' = Count(p)
      /\ receiving' = ~Completes(p)
      /\ buffer' = IF Completes(p) THEN NoBuffer ELSE Stored(p)
      /\ overrun' = (overrun \/ Overruns(p))
  BY <1>1 DEF PutPacket
<1>4. ReceptionIsOpen'
  <2>1. CASE Completes(p)
    BY <1>3, <2>1 DEF ReceptionIsOpen
  <2>2. CASE ~Completes(p)
    <3>1. received' \in 1..(toReceive' - 1)
      BY <1>2, <1>3, <2>2 DEF Completes
    <3> QED BY <1>1, <1>2, <1>3, <2>2, <3>1, StoredHolds DEF ReceptionIsOpen
  <2> QED BY <2>1, <2>2
<1>5. BufferOfOne'
  <2>1. ~Completes(p) => Holds(buffer', toReceive')
    BY <1>3, StoredHolds DEF Holds
  <2> QED BY <1>3, <2>1 DEF BufferOfOne, Holds
<1>6. \E r \in Records : Stored(p) \in [Slots(r) -> Records \cup {Unwritten}]
  BY StoredHolds, SentIsWritten DEF Holds
<1>7. overrun' \in BOOLEAN /\ receiving' \in BOOLEAN
  BY <1>3 DEF Overruns, Completes
<1> QED BY <1>1, <1>2, <1>3, <1>4, <1>5, <1>6, <1>7
-----------------------------------------------------------------------------
(***************************************************************************)
(* The invariant.                                                          *)
(***************************************************************************)
LEMMA TransferInit == Init => TransferInv
<1> SUFFICES ASSUME Init PROVE TransferInv
  OBVIOUS
<1>1. /\ sender = "ready" /\ sends = 0 /\ receiver = "waiting" /\ failures = 0
      /\ forth = <<>> /\ back = <<>> /\ packetLoss = 0 /\ answerLoss = 0 /\ copies = 0
      /\ patient \in BOOLEAN /\ refuses \in BOOLEAN /\ overrun = FALSE
      /\ missing = IF receiving /\ class = ClassOf[Sent] THEN toReceive - received ELSE 0
  BY DEF Init
<1>2. /\ forth \in Seq(SentPackets) /\ back \in Seq(Answers)
      /\ back \in Seq(Answers \ {"ACK"})
  BY <1>1, EmptySeq
<1>3. /\ sends \in 0..SendAttempts /\ failures \in 0..(ReceiveAttempts - 1)
      /\ packetLoss \in 0..PacketLosses /\ answerLoss \in 0..AnswerLosses
  BY <1>1, TransferAssumption DEF TransferAssumption
<1>4. CASE receiving = FALSE /\ class = NoClass /\ toReceive = 0 /\ received = 0 /\ buffer = NoBuffer
  BY <1>1, <1>2, <1>3, <1>4
  DEF TransferInv, TypeOK, ReceptionIsOpen, BufferOfOne, AcceptedIsSent, AckIsTrue, SentPackets
<1>5. CASE receiving = TRUE /\ Leftover
  <2>1. PICK old \in Records \ {Sent} :
          /\ class = ClassOf[old] /\ toReceive = Packets[old]
          /\ received \in 1..(Packets[old] - 1)
          /\ buffer \in [Slots(old) -> {old, Unwritten}]
          /\ {i \in Slots(old) : buffer[i] = old} # {}
    BY <1>5 DEF Leftover
  <2>2. class \in Classes /\ Packets[old] \in Nat \ {0}
    BY <2>1, RecordHasPackets
  <2>3. buffer \in [Slots(old) -> Records \cup {Unwritten}]
    BY <2>1
  <2>4. ReceptionIsOpen
    BY <2>1, <2>2, SentIsWritten DEF ReceptionIsOpen, Slots
  <2>5. BufferOfOne
    <3>1. buffer \in [Slots(old) -> {old, Sent, Unwritten}]
      BY <2>1
    <3> QED BY <2>1, <3>1 DEF BufferOfOne, Holds
  <2>6. TypeOK
    <3>1. toReceive \in Nat /\ received \in Nat /\ toReceive - received \in Nat
      BY <2>1, <2>2
    <3>2. missing \in Nat
      BY <1>1, <3>1
    <3> QED BY <1>1, <1>2, <1>3, <1>5, <2>1, <2>2, <2>3, <3>1, <3>2 DEF TypeOK, SentPackets
  <2> QED BY <1>1, <1>2, <2>4, <2>5, <2>6 DEF TransferInv, AcceptedIsSent, AckIsTrue
<1> QED BY <1>4, <1>5 DEF Init

(* The dispatcher is left alone.                                           *)
LEMMA SameReassembly ==
  ASSUME TransferInv, UNCHANGED reassembly
  PROVE  /\ ReceptionIsOpen' /\ BufferOfOne'
         /\ receiving' \in BOOLEAN /\ overrun' = overrun /\ overrun' \in BOOLEAN
         /\ class' \in Classes \cup {NoClass} /\ toReceive' \in Nat /\ received' \in Nat
         /\ buffer' = NoBuffer
              \/ \E r \in Records : buffer' \in [Slots(r) -> Records \cup {Unwritten}]
  BY DEF TransferInv, TypeOK, ReceptionIsOpen, BufferOfOne, Holds, reassembly

(* Sending keeps the types of what it changes.                             *)
LEMMA TransmitTypes ==
  ASSUME TransferInv, sends < SendAttempts, Transmit \/ TransmitPart
  PROVE  /\ forth' \in Seq(SentPackets) /\ sends' \in 0..SendAttempts
         /\ sender' \in {"waiting", "failed"}
<1>1. forth \in Seq(SentPackets) /\ sends \in 0..SendAttempts /\ SendAttempts \in Nat
  BY TransferAssumption DEF TransferAssumption, TransferInv, TypeOK, SentPackets
<1>2. CASE Transmit
  <2>1. forth' \in Seq(SentPackets)
    BY <1>1, <1>2, AllPacketsAreSent, ConcatProperties DEF Transmit
  <2> QED BY <1>1, <1>2, <2>1 DEF Transmit
<1>3. CASE TransmitPart
  <2>1. PICK k \in 0..(Packets[Sent] - 1) : forth' = forth \o SubSeq(AllPackets, 1, k)
    BY <1>3 DEF TransmitPart
  <2>2. forth' \in Seq(SentPackets)
    BY <1>1, <2>1, AllPacketsAreSent, ConcatProperties
  <2> QED BY <1>1, <1>3, <2>2 DEF TransmitPart
<1> QED BY <1>2, <1>3

(* One answer less.                                                        *)
LEMMA HeardTypes ==
  ASSUME TransferInv, back # <<>>, back' = Tail(back)
  PROVE  /\ back' \in Seq(Answers)
         /\ receiver \notin Records => back' \in Seq(Answers \ {"ACK"}) /\ Head(back) # "ACK"
<1>1. back \in Seq(Answers)
  BY DEF TransferInv, TypeOK
<1>2. receiver \notin Records => back \in Seq(Answers \ {"ACK"})
  BY DEF TransferInv, AckIsTrue
<1> QED BY <1>1, <1>2, HeadTailProperties

(* A failure is answered, or ends the reception.                           *)
LEMMA FailTypes ==
  ASSUME TransferInv, receiver = "waiting", NEW reason \in Answers \ {"ACK"}, Fail(reason)
  PROVE  /\ receiver' \in {"waiting", "failed"} /\ failures' \in 0..(ReceiveAttempts - 1)
         /\ back' \in Seq(Answers) /\ back' \in Seq(Answers \ {"ACK"})
<1>1. receiver \notin Records
  BY TransferAssumption DEF TransferAssumption
<1>2. back \in Seq(Answers \ {"ACK"}) /\ failures \in 0..(ReceiveAttempts - 1)
  BY <1>1 DEF TransferInv, TypeOK, AckIsTrue
<1>3. Append(back, reason) \in Seq(Answers \ {"ACK"})
  BY <1>2
<1>4. back' \in Seq(Answers \ {"ACK"})
  BY <1>2, <1>3 DEF Fail
<1>5. back' \in Seq(Answers)
  BY <1>4, SeqMonotonic
<1>6. failures' \in 0..(ReceiveAttempts - 1)
  BY <1>2, TransferAssumption DEF TransferAssumption, Fail
<1> QED BY <1>4, <1>5, <1>6 DEF Fail

-----------------------------------------------------------------------------
(***************************************************************************)
(* The steps.                                                              *)
(***************************************************************************)
LEMMA StartStep == ASSUME TransferInv, Start PROVE TransferInv'
<1>1. sends < SendAttempts
  BY TransferAssumption DEF TransferAssumption, TransferInv, AckIsTrue, Start
<1>2. ReceptionIsOpen' /\ BufferOfOne' /\ overrun' = overrun /\ UNCHANGED <<reassembly, receiver, failures, back, packetLoss, answerLoss, patient, refuses, missing, copies>>
  BY SameReassembly DEF Start, link, conditions
<1>3. TypeOK'
  BY <1>1, <1>2, SameReassembly, TransmitTypes DEF Start, TransferInv, TypeOK, SentPackets
<1>4. AckIsTrue'
  BY <1>1, <1>2, TransmitTypes DEF Start, TransferInv, AckIsTrue
<1> QED BY <1>2, <1>3, <1>4 DEF TransferInv, AcceptedIsSent

LEMMA HearAckStep == ASSUME TransferInv, HearAck PROVE TransferInv' /\ receiver \in Records
<1>1. ReceptionIsOpen' /\ BufferOfOne' /\ overrun' = overrun /\ UNCHANGED <<sends, receiver, failures, forth, packetLoss, answerLoss, patient, refuses, missing, copies>>
  BY SameReassembly DEF HearAck, link, conditions
<1>2. receiver \in Records
  BY HeardTypes DEF HearAck
<1>3. TypeOK'
  BY <1>1, SameReassembly, HeardTypes DEF HearAck, TransferInv, TypeOK
<1>4. AckIsTrue'
  BY <1>1, <1>2 DEF HearAck, AckIsTrue
<1> QED BY <1>1, <1>2, <1>3, <1>4 DEF TransferInv, AcceptedIsSent

LEMMA HearFailureStep ==
  ASSUME TransferInv, HearFailure
  PROVE  TransferInv' /\ sender' \in {"waiting", "failed"}
<1>1. ReceptionIsOpen' /\ BufferOfOne' /\ overrun' = overrun /\ UNCHANGED <<receiver, failures, packetLoss, answerLoss, patient, refuses, missing, copies>>
  BY SameReassembly DEF HearFailure, link, conditions
<1>2. /\ forth' \in Seq(SentPackets) /\ sends' \in 0..SendAttempts
      /\ sender' \in {"waiting", "failed"}
  <2>1. CASE ~LastSend /\ (Transmit \/ TransmitPart)
    <3>1. sends < SendAttempts
      BY <2>1, TransferAssumption DEF TransferAssumption, LastSend, TransferInv, TypeOK
    <3> QED BY <2>1, <3>1, TransmitTypes
  <2>2. CASE LastSend /\ sender' = "failed" /\ UNCHANGED <<sends, forth>>
    BY <2>2 DEF TransferInv, TypeOK, SentPackets
  <2> QED BY <2>1, <2>2 DEF HearFailure
<1>3. TypeOK'
  BY <1>1, <1>2, SameReassembly, HeardTypes DEF HearFailure, TransferInv, TypeOK, SentPackets
<1>4. AckIsTrue'
  BY <1>1, <1>2, HeardTypes DEF HearFailure, AckIsTrue
<1> QED BY <1>1, <1>2, <1>3, <1>4 DEF TransferInv, AcceptedIsSent

LEMMA SenderTimeoutStep == ASSUME TransferInv, SenderTimeout PROVE TransferInv'
<1>1. ReceptionIsOpen' /\ BufferOfOne' /\ overrun' = overrun /\ UNCHANGED <<sends, receiver, failures, forth, back, packetLoss, answerLoss, patient, refuses, missing, copies>>
  BY SameReassembly DEF SenderTimeout, link, conditions
<1>2. TypeOK'
  BY <1>1, SameReassembly DEF SenderTimeout, TransferInv, TypeOK
<1>3. AckIsTrue'
  BY <1>1 DEF SenderTimeout, TransferInv, AckIsTrue
<1> QED BY <1>1, <1>2, <1>3 DEF TransferInv, AcceptedIsSent

(* The record is judged: it is accepted as what it is, or refused.         *)
LEMMA JudgeResult ==
  ASSUME TransferInv, receiver = "waiting", NEW p \in SentPackets, Judge(p)
  PROVE  /\ receiver' \in {"waiting", "failed"} \cup Records
         /\ ~Overruns(p) => receiver' \in {"waiting", "failed", Sent}
         /\ failures' \in 0..(ReceiveAttempts - 1)
         /\ back' \in Seq(Answers)
         /\ receiver' \notin Records => back' \in Seq(Answers \ {"ACK"})
<1>1. CASE \E r \in Records : PassesFor(Stored(p), r) /\ Accept(r)
  <2>1. PICK r \in Records : PassesFor(Stored(p), r) /\ Accept(r)
    BY <1>1
  <2>2. ~Overruns(p) => r = Sent
    BY <2>1, PassesForSent DEF TransferInv
  <2>3. back \in Seq(Answers) /\ "ACK" \in Answers /\ failures \in 0..(ReceiveAttempts - 1)
    BY DEF TransferInv, TypeOK, Answers
  <2>4. Append(back, "ACK") \in Seq(Answers)
    BY <2>3
  <2> QED BY <2>1, <2>2, <2>3, <2>4 DEF Accept
<1>2. CASE Fail("DATA_INVALID")
  <2>1. "DATA_INVALID" \in Answers \ {"ACK"}
    BY DEF Answers
  <2> QED BY <1>2, <2>1, FailTypes
<1> QED BY <1>1, <1>2 DEF Judge

LEMMA ArriveStep ==
  ASSUME TransferInv, Arrive
  PROVE  /\ TransferInv' /\ sender' = sender
         /\ receiver' = receiver \/ receiver = "waiting"
<1> DEFINE p == Head(forth)
<1>1. /\ forth # <<>> /\ forth \in Seq(SentPackets)
      /\ forth' = Tail(forth) /\ PutPacket(p)
      /\ UNCHANGED <<sender, sends, packetLoss, answerLoss, patient, refuses, missing>>
  BY DEF Arrive, link, conditions, TransferInv, TypeOK, SentPackets
<1>2. p \in SentPackets /\ forth' \in Seq(SentPackets)
  BY <1>1, HeadTailProperties
<1> HIDE DEF p
<1>3. /\ ReceptionIsOpen' /\ BufferOfOne'
      /\ receiving' \in BOOLEAN /\ class' \in Classes
      /\ toReceive' \in Nat /\ received' \in Nat
      /\ buffer' = NoBuffer
           \/ \E r \in Records : buffer' \in [Slots(r) -> Records \cup {Unwritten}]
      /\ overrun' \in BOOLEAN
  BY <1>1, <1>2, PutPacketReception DEF TransferInv, TypeOK
<1>4. /\ receiver' \in {"waiting", "failed"} \cup Records
      /\ receiver' \in {"waiting", "failed", Sent} \/ receiver' = receiver \/ Overruns(p)
      /\ failures' \in 0..(ReceiveAttempts - 1)
      /\ back' \in Seq(Answers)
      /\ receiver' \notin Records => back' \in Seq(Answers \ {"ACK"})
      /\ copies' \in Nat
      /\ receiver' = receiver \/ receiver = "waiting"
  <2>1. CASE UNCHANGED <<receiver, failures, back>> /\ copies' \in {copies, copies + 1}
    BY <2>1 DEF TransferInv, TypeOK, AckIsTrue
  <2>2. CASE receiver = "waiting" /\ Judge(p) /\ UNCHANGED copies
    BY <1>2, <2>2, JudgeResult DEF TransferInv, TypeOK
  <2> QED BY <2>1, <2>2 DEF Arrive, p
<1>5. TypeOK'
  BY <1>1, <1>2, <1>3, <1>4 DEF TransferInv, TypeOK, SentPackets
<1>6. AckIsTrue'
  <2>1. receiver \in Records => receiver' \in Records
    BY <1>4, TransferAssumption DEF TransferAssumption
  <2> QED BY <1>1, <1>4, <2>1 DEF TransferInv, AckIsTrue
<1>7. AcceptedIsSent'
  <2>1. overrun' = (overrun \/ Overruns(p))
    BY <1>1 DEF PutPacket
  <2> QED BY <1>4, <2>1 DEF TransferInv, AcceptedIsSent
<1> QED BY <1>1, <1>3, <1>4, <1>5, <1>6, <1>7 DEF TransferInv

LEMMA ReceiverTimeoutStep ==
  ASSUME TransferInv, ReceiverTimeout
  PROVE  TransferInv' /\ receiver = "waiting" /\ receiver' \in {"waiting", "failed"}
<1>1. ReceptionIsOpen' /\ BufferOfOne' /\ overrun' = overrun /\ UNCHANGED <<sender, sends, forth, packetLoss, answerLoss, patient, refuses, missing, copies>>
  BY SameReassembly DEF ReceiverTimeout, link, conditions
<1>2. /\ receiver = "waiting" /\ receiver' \in {"waiting", "failed"}
      /\ failures' \in 0..(ReceiveAttempts - 1)
      /\ back' \in Seq(Answers) /\ back' \in Seq(Answers \ {"ACK"})
  <2>1. "TIMEOUT" \in Answers \ {"ACK"}
    BY DEF Answers
  <2> QED BY <2>1, FailTypes DEF ReceiverTimeout
<1>3. TypeOK'
  BY <1>1, <1>2, SameReassembly DEF ReceiverTimeout, TransferInv, TypeOK
<1>4. receiver \notin Records
  BY <1>2, TransferAssumption DEF TransferAssumption
<1> QED BY <1>1, <1>2, <1>3, <1>4 DEF TransferInv, AcceptedIsSent, AckIsTrue

LEMMA LossStep ==
  ASSUME TransferInv, LosePacket \/ LoseAnswer
  PROVE  TransferInv' /\ UNCHANGED <<sender, receiver>>
<1>1. /\ ReceptionIsOpen' /\ BufferOfOne' /\ overrun' = overrun /\ UNCHANGED <<sender, sends, receiver, failures, patient, refuses, missing, copies>>
  BY SameReassembly DEF LosePacket, LoseAnswer, conditions
<1>2. /\ forth' \in Seq(SentPackets) /\ back' \in Seq(Answers)
      /\ receiver \notin Records => back' \in Seq(Answers \ {"ACK"})
  <2>1. CASE LosePacket
    BY <2>1, HeadTailProperties DEF LosePacket, TransferInv, TypeOK, AckIsTrue, SentPackets
  <2>2. CASE LoseAnswer
    BY <2>2, HeardTypes DEF LoseAnswer, TransferInv, TypeOK, SentPackets
  <2> QED BY <2>1, <2>2
<1>3. packetLoss' \in 0..PacketLosses /\ answerLoss' \in 0..AnswerLosses
  BY TransferAssumption DEF TransferAssumption, LosePacket, LoseAnswer, TransferInv, TypeOK
<1>4. TypeOK'
  BY <1>1, <1>2, <1>3, SameReassembly DEF LosePacket, LoseAnswer, TransferInv, TypeOK, SentPackets
<1> QED BY <1>1, <1>2, <1>4 DEF TransferInv, AcceptedIsSent, AckIsTrue

LEMMA TransferStutter ==
  ASSUME TransferInv, UNCHANGED vars
  PROVE  TransferInv'
<1>1. /\ ReceptionIsOpen' /\ BufferOfOne' /\ overrun' = overrun
      /\ UNCHANGED <<reassembly, sender, sends, receiver, failures, forth, back,
                     packetLoss, answerLoss, patient, refuses, missing, copies>>
  BY SameReassembly DEF vars, link, conditions
<1>2. TypeOK'
  BY <1>1, SameReassembly DEF TransferInv, TypeOK
<1> QED BY <1>1, <1>2 DEF TransferInv, AcceptedIsSent, AckIsTrue

LEMMA TransferNext == TransferInv /\ [Next]_vars => TransferInv'
  BY StartStep, HearAckStep, HearFailureStep, SenderTimeoutStep, ArriveStep,
     ReceiverTimeoutStep, LossStep, TransferStutter DEF Next

(* The invariant on which the results rest, of any transfer.               *)
THEOREM TransferIsInvariant == Spec => []TransferInv
  BY TransferInit, TransferNext, PTL DEF Spec
-----------------------------------------------------------------------------
(* Every variable has its type: in particular, no record is sent more      *)
(* often than SendAttempts, and no reception fails more often than         *)
(* ReceiveAttempts.                                                        *)
THEOREM TransferTypes == Spec => []TypeOK
<1>1. TransferInv => TypeOK
  BY DEF TransferInv
<1> QED BY <1>1, TransferIsInvariant, PTL

(* A reception under way has the buffer its first packet asked for, and    *)
(* has counted fewer packets than it waits for, whatever lengths are       *)
(* mixed: its count, compared for equality only, does not pass it by.      *)
THEOREM TransferReceptions == Spec => []ReceptionIsOpen
<1>1. TransferInv => ReceptionIsOpen
  BY DEF TransferInv
<1> QED BY <1>1, TransferIsInvariant, PTL

(* What the receiver accepts is the record that is being sent, however     *)
(* many packets and answers are lost, whatever an earlier record left      *)
(* behind, of whatever length, and whenever the timers fire; unless a      *)
(* packet was copied past the end of the buffer.                           *)
THEOREM OnlySentIsAccepted == Spec => []AcceptedIsSent
<1>1. TransferInv => AcceptedIsSent
  BY DEF TransferInv
<1> QED BY <1>1, TransferIsInvariant, PTL

(* While the buffer is that of a record of another length, the number of   *)
(* each packet on its way is no more than what will have been counted by   *)
(* then, and the losses.                                                   *)
Follows ==
    receiving /\ toReceive # Packets[Sent] =>
      \A j \in 1..Len(forth) : forth[j].number <= received + packetLoss + j - 2

FitsInv == Follows /\ OneLossStaysInBuffer

LEMMA FitsNext == ASSUME TransferInv, FitsInv, [Next]_vars PROVE FitsInv'
<1>1. /\ forth \in Seq(SentPackets) /\ Len(forth) \in Nat /\ packetLoss \in Nat
      /\ receiving => received \in 1..(toReceive - 1) /\ toReceive \in Nat
      /\ Packets[Sent] \in Nat \ {0} /\ received \in Nat /\ toReceive \in Nat
  <2>1. packetLoss \in 0..PacketLosses /\ forth \in Seq(SentPackets)
    BY DEF TransferInv, TypeOK, SentPackets
  <2> QED BY <2>1, SentIsWritten, RecordHasPackets, LenProperties
          DEF TransferInv, TypeOK, ReceptionIsOpen
<1>2. \A j \in 1..Len(forth) : forth[j].number \in Slots(Sent)
  <2> SUFFICES ASSUME NEW j \in 1..Len(forth) PROVE forth[j].number \in Slots(Sent)
    OBVIOUS
  <2>1. forth[j] \in SentPackets
    BY <1>1, ElementOfSeq
  <2> QED BY <2>1, SentPacket
<1>3. CASE UNCHANGED <<reassembly, forth, packetLoss>>
  BY <1>3 DEF FitsInv, Follows, OneLossStaysInBuffer, reassembly
<1>4. ASSUME NEW s \in Seq(SentPackets), UNCHANGED <<reassembly, packetLoss>>,
             forth' = forth \o s,
             \A j \in 1..Len(s) : s[j].number = j - 1
      PROVE  FitsInv'
  <2>1. UNCHANGED <<receiving, toReceive, received, overrun>>
    BY <1>4 DEF reassembly
  <2>2. /\ Len(s) \in Nat /\ Len(forth') = Len(forth) + Len(s)
        /\ \A j \in 1..Len(forth') :
             forth'[j] = IF j <= Len(forth) THEN forth[j] ELSE s[j - Len(forth)]
    BY <1>1, <1>4, ConcatProperties, LenProperties
  <2>3. ASSUME receiving, toReceive # Packets[Sent], NEW j \in 1..Len(forth')
        PROVE  forth'[j].number <= received + packetLoss + j - 2
    <3>1. CASE j <= Len(forth)
      BY <1>1, <2>2, <2>3, <3>1 DEF FitsInv, Follows
    <3>2. CASE ~(j <= Len(forth))
      <4>1. j - Len(forth) \in 1..Len(s) /\ received >= 1
        BY <1>1, <2>2, <2>3, <3>2
      <4>2. forth'[j].number = j - Len(forth) - 1
        BY <1>4, <2>2, <3>2, <4>1
      <4> QED BY <1>1, <2>2, <4>1, <4>2
    <3> QED BY <3>1, <3>2
  <2> QED BY <1>4, <2>1, <2>3 DEF FitsInv, Follows, OneLossStaysInBuffer
<1>5. CASE Transmit /\ UNCHANGED <<reassembly, packetLoss>>
  <2>1. AllPackets \in Seq(SentPackets) /\ DOMAIN AllPackets = 1..Packets[Sent]
    BY AllPacketsAreSent DEF AllPackets
  <2>2. \A j \in 1..Packets[Sent] : AllPackets[j].number = j - 1
    BY DEF AllPackets, Packet
  <2>3. Len(AllPackets) = Packets[Sent]
    BY <1>1, <2>1, LenProperties
  <2> QED BY <1>4, <1>5, <2>1, <2>2, <2>3 DEF Transmit
<1>6. CASE TransmitPart /\ UNCHANGED <<reassembly, packetLoss>>
  <2>1. PICK k \in 0..(Packets[Sent] - 1) : forth' = forth \o SubSeq(AllPackets, 1, k)
    BY <1>6 DEF TransmitPart
  <2>2. \A j \in 1..k : AllPackets[j] \in SentPackets /\ AllPackets[j].number = j - 1
    <3> SUFFICES ASSUME NEW j \in 1..k
                 PROVE  AllPackets[j] \in SentPackets /\ AllPackets[j].number = j - 1
      OBVIOUS
    <3>1. j \in 1..Packets[Sent] /\ j - 1 \in Slots(Sent)
      BY <1>1 DEF Slots
    <3>2. AllPackets[j] = Packet(j - 1, Sent)
      BY <3>1 DEF AllPackets
    <3> QED BY <3>1, <3>2 DEF Packet, SentPackets, PacketsOf
  <2>3. /\ SubSeq(AllPackets, 1, k) \in Seq(SentPackets)
        /\ Len(SubSeq(AllPackets, 1, k)) = k
        /\ \A j \in 1..k : SubSeq(AllPackets, 1, k)[j] = AllPackets[j]
    <3>1. k \in Int /\ 1 \in Int /\ \A j \in 1..k : AllPackets[j] \in SentPackets
      BY <1>1, <2>2
    <3>2. /\ SubSeq(AllPackets, 1, k) \in Seq(SentPackets)
          /\ Len(SubSeq(AllPackets, 1, k)) = IF 1 <= k THEN k - 1 + 1 ELSE 0
          /\ \A j \in 1..(k - 1 + 1) : SubSeq(AllPackets, 1, k)[j] = AllPackets[1 + j - 1]
      BY <3>1, SubSeqProperties
    <3>3. k \in Nat /\ k - 1 + 1 = k /\ \A j \in 1..k : 1 + j - 1 = j
      BY <1>1
    <3> QED BY <3>2, <3>3
  <2> QED BY <1>4, <1>6, <2>1, <2>2, <2>3
<1>7. CASE LosePacket
  <2>1. /\ forth # <<>> /\ forth' = Tail(forth) /\ packetLoss' = packetLoss + 1
        /\ UNCHANGED <<receiving, toReceive, received, overrun>>
    BY <1>7 DEF LosePacket, reassembly
  <2>2. /\ Len(forth') = Len(forth) - 1 /\ Len(forth) \in Nat \ {0}
        /\ \A j \in 1..Len(forth') : forth'[j] = forth[j + 1]
    BY <1>1, <2>1, HeadTailProperties, EmptySeq
  <2>3. ASSUME receiving, toReceive # Packets[Sent], NEW j \in 1..Len(forth')
        PROVE  forth'[j].number <= received + packetLoss' + j - 2
    <3>1. j + 1 \in 1..Len(forth)
      BY <2>2
    <3>2. forth[j + 1].number <= received + packetLoss + (j + 1) - 2
      BY <2>3, <3>1 DEF FitsInv, Follows
    <3>3. received + packetLoss + (j + 1) - 2 = received + packetLoss' + j - 2
      BY <1>1, <2>1, <2>2
    <3> QED BY <2>2, <3>2, <3>3
  <2>4. packetLoss' <= 1 => packetLoss <= 1
    BY <1>1, <2>1
  <2> QED BY <2>1, <2>3, <2>4 DEF FitsInv, Follows, OneLossStaysInBuffer
<1>8. CASE Arrive
  <2> DEFINE p == Head(forth)
  <2>1. /\ forth # <<>> /\ forth' = Tail(forth) /\ PutPacket(p)
        /\ packetLoss' = packetLoss
    BY <1>8 DEF Arrive, link
  <2>2. /\ Len(forth') = Len(forth) - 1 /\ Len(forth) \in Nat \ {0}
        /\ \A j \in 1..Len(forth') : forth'[j] = forth[j + 1]
        /\ p = forth[1] /\ p \in SentPackets
    BY <1>1, <2>1, HeadTailProperties, EmptySeq
  <2> HIDE DEF p
  <2>3. /\ toReceive' = Expected(p) /\ received' = Count(p)
        /\ overrun' = (overrun \/ Overruns(p))
    BY <2>1 DEF PutPacket
  <2>4. p.record = Sent /\ p.number \in 0..(Packets[Sent] - 1)
    BY <2>2, SentPacket DEF Slots
  <2>5. packetLoss <= 1 => ~Overruns(p)
    <3> SUFFICES ASSUME packetLoss <= 1, Overruns(p) PROVE FALSE
      OBVIOUS
    <3>1. receiving /\ p.number >= toReceive
      BY DEF Overruns, Continues
    <3>2. toReceive # Packets[Sent]
      BY <1>1, <2>4, <3>1
    <3>3. 1 \in 1..Len(forth)
      BY <2>2
    <3>4. p.number <= received + packetLoss + 1 - 2
      BY <2>2, <3>1, <3>2, <3>3 DEF FitsInv, Follows
    <3> QED BY <1>1, <2>4, <3>1, <3>4
  <2>6. ASSUME receiving', toReceive' # Packets[Sent], NEW j \in 1..Len(forth')
        PROVE  forth'[j].number <= received' + packetLoss' + j - 2
    <3>1. Continues(p) /\ receiving /\ toReceive # Packets[Sent] /\ received' = received + 1
      BY <2>3, <2>4, <2>6 DEF Expected, Count, Continues
    <3>2. j + 1 \in 1..Len(forth)
      BY <2>2
    <3>3. forth[j + 1].number <= received + packetLoss + (j + 1) - 2
      BY <3>1, <3>2 DEF FitsInv, Follows
    <3>4. received + packetLoss + (j + 1) - 2 = received' + packetLoss' + j - 2
      BY <1>1, <2>1, <2>2, <3>1
    <3> QED BY <2>2, <3>3, <3>4
  <2> QED BY <2>1, <2>3, <2>5, <2>6 DEF FitsInv, Follows, OneLossStaysInBuffer
<1> QED BY <1>3, <1>5, <1>6, <1>7, <1>8
        DEF Next, vars, link, Start, HearAck, HearFailure, SenderTimeout, ReceiverTimeout,
            LoseAnswer

LEMMA FitsIsInvariant == Spec => [](TransferInv /\ FitsInv)
<1>1. Init => FitsInv
  <2> SUFFICES ASSUME Init PROVE FitsInv
    OBVIOUS
  <2>1. forth = <<>> /\ overrun = FALSE /\ Len(forth) = 0
    BY EmptySeq DEF Init
  <2> QED BY <2>1 DEF FitsInv, Follows, OneLossStaysInBuffer
<1> QED BY <1>1, FitsNext, TransferIsInvariant, PTL DEF Spec

(* Every packet is copied into the buffer, whatever an earlier record left *)
(* behind, of whatever length, as long as no more than one packet is lost. *)
THEOREM OneLossIsContained == Spec => []OneLossStaysInBuffer
<1>1. FitsInv => OneLossStaysInBuffer
  BY DEF FitsInv
<1> QED BY <1>1, FitsIsInvariant, PTL

(* The two procedures, the packets, the timers and the link implement the  *)
(* transfer of a record as RecordTransfer promises it: each end comes to   *)
(* its result once, and the sender's success is the receiver's.            *)
THEOREM TransferRefines == Spec => ImplementsTransfer
<1>1. Init => Transfer!Init
  BY DEF Init, Transfer!Init
<1>2. ASSUME TransferInv, TransferInv', [Next]_vars
      PROVE  [Transfer!Next]_(Transfer!vars)
  <2> USE DEF Transfer!Next, Transfer!vars, Transfer!Accept, Transfer!Refuse,
              Transfer!Succeed, Transfer!GiveUp
  <2>1. \A r \in Records : r \notin {"waiting", "failed"}
    BY TransferAssumption DEF TransferAssumption
  <2>2. /\ sender \in {"ready", "waiting", "done", "failed"}
        /\ receiver \in {"waiting", "failed"} \cup Records
        /\ receiver' \in {"waiting", "failed"} \cup Records
    BY <1>2 DEF TransferInv, TypeOK
  <2>3. CASE Start
    BY <2>3 DEF Start, Transmit, TransmitPart
  <2>4. CASE HearAck
    <3>1. receiver \in Records
      BY <1>2, <2>4, HearAckStep
    <3> QED BY <2>1, <2>4, <3>1 DEF HearAck
  <2>5. CASE HearFailure
    <3>1. sender' \in {"waiting", "failed"}
      BY <1>2, <2>5, HearFailureStep
    <3> QED BY <2>5, <3>1 DEF HearFailure
  <2>6. CASE SenderTimeout
    BY <2>6 DEF SenderTimeout
  <2>7. CASE Arrive
    <3>1. sender' = sender /\ (receiver' = receiver \/ receiver = "waiting")
      BY <1>2, <2>7, ArriveStep
    <3> QED BY <2>1, <2>2, <3>1
  <2>8. CASE ReceiverTimeout
    <3>1. receiver = "waiting" /\ receiver' \in {"waiting", "failed"} /\ sender' = sender
      BY <1>2, <2>8, ReceiverTimeoutStep DEF ReceiverTimeout
    <3> QED BY <3>1
  <2>9. CASE LosePacket \/ LoseAnswer
    <3>1. sender' = sender /\ receiver' = receiver
      BY <2>9 DEF LosePacket, LoseAnswer
    <3> QED BY <3>1
  <2>10. CASE UNCHANGED vars
    <3>1. sender' = sender /\ receiver' = receiver
      BY <2>10 DEF vars
    <3> QED BY <3>1
  <2> QED BY <1>2, <2>3, <2>4, <2>5, <2>6, <2>7, <2>8, <2>9, <2>10 DEF Next
<1> QED BY <1>1, <1>2, TransferIsInvariant, PTL DEF Spec, ImplementsTransfer, Transfer!Spec
-----------------------------------------------------------------------------
(***************************************************************************)
(* Whatever is sent again is owed to a failure: counting the complaints on *)
(* their way.                                                              *)
(***************************************************************************)
ComplaintsIn(s) == {i \in DOMAIN s : s[i] # "ACK"}

LEMMA ComplaintsAreFinite ==
  ASSUME NEW s \in Seq(Answers)
  PROVE  IsFiniteSet(ComplaintsIn(s)) /\ Cardinality(ComplaintsIn(s)) \in Nat
<1>1. Len(s) \in Nat /\ DOMAIN s = 1..Len(s)
  BY LenProperties
<1>2. IsFiniteSet(1..Len(s))
  BY <1>1, FS_Interval, 1 \in Int, Len(s) \in Int
<1>3. ComplaintsIn(s) \in SUBSET (1..Len(s))
  BY <1>1 DEF ComplaintsIn
<1>4. IsFiniteSet(ComplaintsIn(s))
  BY <1>2, <1>3, FS_Subset
<1> QED BY <1>4, FS_CardinalityType

(* Hearing or losing the first answer: its place is no complaint any more. *)
LEMMA ComplaintsOfTail ==
  ASSUME NEW s \in Seq(Answers), s # <<>>
  PROVE  Cardinality(ComplaintsIn(Tail(s))) =
           IF Head(s) = "ACK" THEN Cardinality(ComplaintsIn(s))
           ELSE Cardinality(ComplaintsIn(s)) - 1
<1> DEFINE S == ComplaintsIn(s) \ {1}
           T == ComplaintsIn(Tail(s))
           f == [i \in S |-> i - 1]
<1>1. /\ Len(s) \in Nat \ {0} /\ DOMAIN s = 1..Len(s) /\ Head(s) = s[1]
      /\ Tail(s) \in Seq(Answers) /\ Len(Tail(s)) = Len(s) - 1
      /\ \A i \in 1..Len(Tail(s)) : Tail(s)[i] = s[i + 1]
  BY LenProperties, EmptySeq, HeadTailProperties
<1>2. DOMAIN Tail(s) = 1..(Len(s) - 1)
  BY <1>1, LenProperties
<1>3. T = {i \in 1..(Len(s) - 1) : s[i + 1] # "ACK"}
  BY <1>1, <1>2 DEF ComplaintsIn
<1>4. S = {i \in 2..Len(s) : s[i] # "ACK"}
  BY <1>1 DEF ComplaintsIn
<1>5. f \in [S -> T]
  BY <1>1, <1>3, <1>4
<1>6. ASSUME NEW i \in S, NEW j \in S, f[i] = f[j] PROVE i = j
  BY <1>1, <1>4, <1>6
<1>7. ASSUME NEW j \in T PROVE \E i \in S : f[i] = j
  <2>1. j + 1 \in S /\ f[j + 1] = j
    BY <1>1, <1>3, <1>4
  <2> QED BY <2>1
<1>8. ExistsBijection(S, T)
  <2>1. f \in Bijection(S, T)
    BY <1>5, <1>6, <1>7, Fun_IsBij
  <2> QED BY <2>1 DEF ExistsBijection
<1>9. IsFiniteSet(S) /\ Cardinality(S) = IF Head(s) = "ACK" THEN Cardinality(ComplaintsIn(s))
                                         ELSE Cardinality(ComplaintsIn(s)) - 1
  <2>1. IsFiniteSet(ComplaintsIn(s))
    BY ComplaintsAreFinite
  <2>2. 1 \in ComplaintsIn(s) <=> Head(s) # "ACK"
    BY <1>1 DEF ComplaintsIn
  <2> QED BY <2>1, <2>2, FS_RemoveElement
<1> QED BY <1>8, <1>9, FS_Bijection

LEMMA ComplaintsOfAppend ==
  ASSUME NEW s \in Seq(Answers), NEW a \in Answers
  PROVE  Cardinality(ComplaintsIn(Append(s, a))) =
           IF a = "ACK" THEN Cardinality(ComplaintsIn(s))
           ELSE Cardinality(ComplaintsIn(s)) + 1
<1>1. /\ Len(s) \in Nat /\ DOMAIN s = 1..Len(s)
      /\ DOMAIN Append(s, a) = 1..(Len(s) + 1)
      /\ \A i \in 1..Len(s) : Append(s, a)[i] = s[i]
      /\ Append(s, a)[Len(s) + 1] = a
  BY LenProperties, AppendProperties
<1>2. ComplaintsIn(Append(s, a)) = IF a = "ACK" THEN ComplaintsIn(s)
                                   ELSE ComplaintsIn(s) \cup {Len(s) + 1}
  BY <1>1 DEF ComplaintsIn
<1>3. Len(s) + 1 \notin ComplaintsIn(s)
  BY <1>1 DEF ComplaintsIn
<1> QED BY <1>2, <1>3, ComplaintsAreFinite, FS_AddElement

(* A sender that has not started owes its first sending to nobody.         *)
Claims == (IF sender = "ready" THEN 1 ELSE sends) + Cardinality(ComplaintsIn(back))

SendingIsOwed == Claims <= failures + 1

(* Numbers, where the invariant holds.                                     *)
LEMMA ClaimsAreNumbers ==
  ASSUME TransferInv
  PROVE  /\ sends \in Nat /\ failures \in Nat /\ back \in Seq(Answers)
         /\ Cardinality(ComplaintsIn(back)) \in Nat
         /\ sender = "ready" => sends = 0
<1>1. sends \in 0..SendAttempts /\ failures \in 0..(ReceiveAttempts - 1) /\ back \in Seq(Answers)
  BY DEF TransferInv, TypeOK
<1> QED BY <1>1, ComplaintsAreFinite DEF TransferInv, AckIsTrue

LEMMA OwedStep ==
  ASSUME TransferInv, TransferInv', SendingIsOwed, [Next]_vars
  PROVE  SendingIsOwed'
<1> USE ClaimsAreNumbers DEF SendingIsOwed, Claims
<1>1. CASE Start
  BY <1>1 DEF Start, Transmit, TransmitPart
<1>2. CASE HearAck
  BY <1>2, ComplaintsOfTail DEF HearAck
<1>3. CASE HearFailure
  <2>1. /\ Cardinality(ComplaintsIn(back')) = Cardinality(ComplaintsIn(back)) - 1
        /\ sender = "waiting" /\ failures' = failures
    BY <1>3, ComplaintsOfTail DEF HearFailure
  <2>2. sender' # "ready" /\ sends' \in {sends, sends + 1}
    BY <1>3 DEF HearFailure, Transmit, TransmitPart
  <2> QED BY <2>1, <2>2
<1>4. CASE SenderTimeout
  BY <1>4 DEF SenderTimeout
<1>5. ASSUME NEW reason \in {"DATA_INVALID", "TIMEOUT"}, Fail(reason), UNCHANGED <<sender, sends>>
      PROVE  SendingIsOwed'
  <2>1. reason \in Answers /\ reason # "ACK"
    BY DEF Answers
  <2>2. CASE failures' = failures + 1 /\ back' = Append(back, reason)
    <3>1. Cardinality(ComplaintsIn(back')) = Cardinality(ComplaintsIn(back)) + 1
      BY <2>1, <2>2, ComplaintsOfAppend
    <3> QED BY <1>5, <2>2, <3>1
  <2>3. CASE UNCHANGED <<failures, back>>
    BY <1>5, <2>3
  <2> QED BY <1>5, <2>2, <2>3 DEF Fail
<1>6. CASE Arrive
  <2>1. UNCHANGED <<sender, sends>>
    BY <1>6 DEF Arrive
  <2>2. CASE UNCHANGED <<receiver, failures, back>>
    BY <2>1, <2>2
  <2>3. CASE Judge(Head(forth))
    <3>1. ASSUME NEW r \in Records, Accept(r) PROVE SendingIsOwed'
      <4>1. "ACK" \in Answers
        BY DEF Answers
      <4> QED BY <2>1, <3>1, <4>1, ComplaintsOfAppend DEF Accept
    <3> QED BY <1>5, <2>1, <2>3, <3>1 DEF Judge
  <2> QED BY <1>6, <2>2, <2>3 DEF Arrive
<1>7. CASE ReceiverTimeout
  BY <1>5, <1>7 DEF ReceiverTimeout
<1>8. CASE LosePacket
  BY <1>8 DEF LosePacket
<1>9. CASE LoseAnswer
  BY <1>9, ComplaintsOfTail DEF LoseAnswer
<1>10. CASE UNCHANGED vars
  BY <1>10 DEF vars
<1> QED BY <1>1, <1>2, <1>3, <1>4, <1>6, <1>7, <1>8, <1>9, <1>10 DEF Next

LEMMA SendingsAreOwed == Spec => []SendingIsOwed
<1>1. Init => SendingIsOwed
  <2> SUFFICES ASSUME Init PROVE SendingIsOwed
    OBVIOUS
  <2>1. ComplaintsIn(back) = {} /\ sender = "ready" /\ failures = 0
    BY DEF Init, ComplaintsIn
  <2> QED BY <2>1, FS_EmptySet DEF SendingIsOwed, Claims
<1>2. TransferInv /\ TransferInv' /\ SendingIsOwed /\ [Next]_vars => SendingIsOwed'
  BY OwedStep
<1> QED BY <1>1, <1>2, TransferIsInvariant, PTL DEF Spec

(* The record is sent again only for a failure the receiver has counted,   *)
(* whatever is lost and whenever the timers fire.                          *)
THEOREM EveryResendingIsOwed == Spec => []ResendingIsOwed
<1>1. ASSUME TransferInv, SendingIsOwed PROVE ResendingIsOwed
  <2>1. ComplaintsIn(back) = Complaints
    BY DEF ComplaintsIn, Complaints
  <2>2. sends + Cardinality(ComplaintsIn(back)) <= failures + 1
    BY <1>1, ClaimsAreNumbers DEF SendingIsOwed, Claims
  <2> QED BY <2>1, <2>2 DEF ResendingIsOwed
<1> QED BY <1>1, TransferIsInvariant, SendingsAreOwed, PTL
-----------------------------------------------------------------------------
(***************************************************************************)
(* One lost packet.                                                        *)
(*                                                                         *)
(* The dispatcher counts packets, so a packet that is lost, or one that an *)
(* earlier reception left behind, shifts where it believes a record to     *)
(* end; what it has counted then reaches over two sendings, and where the  *)
(* record left behind was a longer one, whole sendings complete nothing.   *)
(* The transfer still comes to its end because of three things.  The       *)
(* packets come in turn, the first after the last, so that the record is   *)
(* whole in the buffer whenever the last of what is counted, a record long *)
(* at most, was sent in this transfer.  What is under way and owed for a   *)
(* complaint is less than a record more than what the dispatcher waits     *)
(* for: so a complaint is heard before the next record is complete.  And   *)
(* each failure is paid for: by what was left behind, by how much of it is *)
(* missing, or by a lost packet.                                           *)
(***************************************************************************)
Size == Packets[Sent]

(* What the dispatcher waits for before it takes a record for complete;    *)
(* what it has counted of the last Size packets before that.               *)
Left    == IF receiving /\ class = ClassOf[Sent] THEN toReceive - received ELSE Size
Counted == IF Left < Size THEN Size - Left ELSE 0

(* The number of the packet that comes next, and the ones around it.       *)
NextNumber(s) == IF s = <<>> THEN 0 ELSE Head(s).number
After(n)      == IF n = Size - 1 THEN 0 ELSE n + 1
Before(n, j)  == IF j <= n THEN n - j ELSE n - j + Size

InTurn(s) ==
    /\ \A i \in 1..(Len(s) - 1) : s[i + 1].number = After(s[i].number)
    /\ s # <<>> => s[Len(s)].number = Size - 1

(* All that is counted is of this transfer, and has its place.             *)
Clean ==
    Counted > 0 =>
      /\ Slots(Sent) \subseteq DOMAIN buffer
      /\ \A j \in 1..Counted : buffer[Before(NextNumber(forth), j)] = Sent

(* Packets under way, and those still owed, beyond what is waited for; and *)
(* the same before the loss.                                               *)
Owed  == IF sender = "ready" \/ back # <<>> THEN Size ELSE 0
Due   == Len(forth) + Owed - Left
Reach == Due + packetLoss

(* What will still cost a failure: a buffer that is not clean, a count     *)
(* that stays short, once or twice, when a packet is lost.                 *)
Foul   == IF Clean THEN 0 ELSE 1
Stalls == IF Reach > 0 THEN 0 ELSE IF Reach + Size > 0 THEN 1 ELSE 2

(* Where two failures are due for what was missing, the record is whole    *)
(* in the buffer before a loss can do harm.                                *)
Patient == packetLoss = 0 /\ missing >= 2 * Size

Rewritten ==
    Patient =>
      /\ receiving /\ class = ClassOf[Sent] /\ Size <= toReceive
      /\ \A j \in 1..Size :
           j <= missing - Left => buffer[Before(NextNumber(forth), j)] = Sent

Payable ==
    /\ Reach + 2 * Size > 0
    /\ failures + Foul + Stalls <= IF missing >= 2 * Size THEN 2 ELSE packetLoss + 1
    /\ Rewritten

Enough == missing < 3 * Size

Open ==
    /\ receiver = "waiting" /\ sender \in {"ready", "waiting"}
    /\ Len(back) <= 1 /\ InTurn(forth)
    /\ sender = "ready" => forth = <<>> /\ back = <<>>
    /\ Due < Size
    /\ Enough => Payable

Settled ==
    /\ receiver = Sent /\ Len(forth) < Left
    /\ \/ sender = "waiting" /\ back = <<"ACK">>
       \/ sender = "done" /\ back = <<>>

(* Where an end stands fewer failures than that, or more are due.          *)
GivenUp ==
    \/ /\ receiver # Sent /\ sender = "failed" /\ Len(forth) < Left
       /\ Enough => SendAttempts < 3
    \/ receiver = "failed" /\ (Enough => ReceiveAttempts < 3)

LossInv == Undisturbed => copies = 0 /\ (Open \/ Settled \/ GivenUp)
-----------------------------------------------------------------------------
LEMMA SizeIsPositive == Size \in Nat \ {0} /\ Slots(Sent) = 0..(Size - 1)
  BY SentIsWritten, RecordHasPackets DEF Size, Slots

LEMMA LeftRange ==
  ASSUME TransferInv
  PROVE  /\ Left \in Nat \ {0} /\ Counted \in 0..(Size - 1)
         /\ receiving /\ class = ClassOf[Sent] => Left < toReceive /\ toReceive \in Nat
<1>1. receiving => toReceive \in Nat /\ received \in 1..(toReceive - 1)
  BY DEF TransferInv, ReceptionIsOpen
<1>2. Left \in Nat \ {0} /\ (receiving /\ class = ClassOf[Sent] => Left < toReceive)
  BY <1>1, SizeIsPositive DEF Left
<1> QED BY <1>1, <1>2, SizeIsPositive DEF Counted

LEMMA SentNumber ==
  ASSUME NEW p \in SentPackets
  PROVE  p.record = Sent /\ p.number \in 0..(Size - 1)
  BY SizeIsPositive, SentPacket

(* A packet less: what is left is in turn.                                 *)
LEMMA TurnOfTail ==
  ASSUME NEW s \in Seq(SentPackets), s # <<>>, InTurn(s)
  PROVE  /\ InTurn(Tail(s)) /\ NextNumber(Tail(s)) = After(NextNumber(s))
         /\ Head(s) \in SentPackets /\ Head(s).number = NextNumber(s)
         /\ Tail(s) \in Seq(SentPackets) /\ Len(Tail(s)) = Len(s) - 1 /\ Len(s) \in Nat \ {0}
<1>1. /\ Len(s) \in Nat \ {0} /\ Head(s) = s[1] /\ Head(s) \in SentPackets
      /\ Tail(s) \in Seq(SentPackets) /\ Len(Tail(s)) = Len(s) - 1
      /\ \A i \in 1..Len(Tail(s)) : Tail(s)[i] = s[i + 1]
  BY LenProperties, EmptySeq, HeadTailProperties
<1> DEFINE t == Tail(s)
<1>2. /\ Len(t) = Len(s) - 1 /\ \A i \in 1..Len(t) : t[i] = s[i + 1]
      /\ t \in Seq(SentPackets)
  BY <1>1
<1>3. t = <<>> <=> Len(t) = 0
  BY <1>2, EmptySeq
<1>4. t # <<>> => Head(t) = t[1]
  BY <1>2, HeadTailProperties
<1> HIDE DEF t
<1>5. ASSUME NEW i \in 1..(Len(t) - 1) PROVE t[i + 1].number = After(t[i].number)
  <2>1. i + 1 \in 1..(Len(s) - 1) /\ i \in 1..Len(t) /\ i + 1 \in 1..Len(t)
    BY <1>1, <1>2
  <2>2. s[(i + 1) + 1].number = After(s[i + 1].number)
    BY <2>1 DEF InTurn
  <2> QED BY <1>2, <2>1, <2>2
<1>6. t # <<>> => t[Len(t)].number = Size - 1
  <2> SUFFICES ASSUME t # <<>> PROVE t[Len(t)].number = Size - 1
    OBVIOUS
  <2>1. Len(t) \in 1..Len(t) /\ Len(t) + 1 = Len(s)
    BY <1>1, <1>2, <1>3
  <2> QED BY <1>2, <2>1 DEF InTurn
<1>7. NextNumber(t) = After(NextNumber(s))
  <2>1. CASE t = <<>>
    <3>1. Len(s) = 1
      <4>1. Len(t) = 0
        BY <1>3, <2>1
      <4>2. Len(t) = Len(s) - 1 /\ Len(s) \in Nat
        BY <1>1, <1>2
      <4> QED BY <4>1, <4>2
    <3>2. NextNumber(s) = Size - 1
      BY <1>1, <3>1 DEF InTurn, NextNumber
    <3> QED BY <2>1, <3>2 DEF NextNumber, After
  <2>2. CASE t # <<>>
    <3>1. 1 \in 1..(Len(s) - 1) /\ 1 \in 1..Len(t)
      BY <1>1, <1>2, <1>3, <2>2
    <3>2. s[1 + 1].number = After(s[1].number)
      BY <3>1 DEF InTurn
    <3>3. t[1] = s[1 + 1]
      BY <1>2, <3>1
    <3> QED BY <1>1, <1>4, <2>2, <3>2, <3>3 DEF NextNumber
  <2> QED BY <2>1, <2>2
<1> QED BY <1>1, <1>2, <1>5, <1>6, <1>7 DEF InTurn, NextNumber, t

(* A sending more: it comes in turn.                                       *)
LEMMA TurnOfSending ==
  ASSUME NEW s \in Seq(SentPackets), InTurn(s)
  PROVE  /\ InTurn(s \o AllPackets) /\ NextNumber(s \o AllPackets) = NextNumber(s)
         /\ Len(s \o AllPackets) = Len(s) + Size /\ Len(s) \in Nat
<1> DEFINE t == s \o AllPackets
<1>1. /\ AllPackets \in Seq(SentPackets) /\ Len(AllPackets) = Size
      /\ \A i \in 1..Size : AllPackets[i].number = i - 1
  <2>1. AllPackets \in Seq(SentPackets)
    BY AllPacketsAreSent
  <2>2. DOMAIN AllPackets = 1..Size /\ Size \in Nat
    BY SizeIsPositive DEF AllPackets, Size
  <2>3. Len(AllPackets) = Size
    BY <2>1, <2>2, LenProperties
  <2>4. ASSUME NEW i \in 1..Size PROVE AllPackets[i].number = i - 1
    BY DEF AllPackets, Packet, Size
  <2> QED BY <2>1, <2>3, <2>4
<1>2. /\ t \in Seq(SentPackets) /\ Len(t) = Len(s) + Size /\ Len(s) \in Nat
      /\ \A i \in 1..Len(t) : t[i] = IF i <= Len(s) THEN s[i] ELSE AllPackets[i - Len(s)]
  <2>1. /\ t \in Seq(SentPackets) /\ Len(t) = Len(s) + Len(AllPackets)
        /\ \A i \in 1..(Len(s) + Len(AllPackets)) :
             t[i] = IF i <= Len(s) THEN s[i] ELSE AllPackets[i - Len(s)]
    BY <1>1, ConcatProperties
  <2> QED BY <1>1, <2>1, LenProperties
<1>3. /\ s = <<>> <=> Len(s) = 0
      /\ t # <<>> /\ Head(t) = t[1]
      /\ s # <<>> => Head(s) = s[1]
  <2>1. s = <<>> <=> Len(s) = 0
    BY EmptySeq
  <2>2. t # <<>>
    BY <1>2, SizeIsPositive, EmptySeq
  <2> QED BY <1>2, <2>1, <2>2, HeadTailProperties
<1> HIDE DEF t
<1>4. ASSUME NEW i \in 1..(Len(t) - 1) PROVE t[i + 1].number = After(t[i].number)
  <2>0. /\ i \in 1..Len(t) /\ i + 1 \in 1..Len(t) /\ i \in Nat
        /\ Size \in Nat \ {0} /\ Len(s) \in Nat
    BY <1>2, SizeIsPositive
  <2>1. CASE i < Len(s)
    <3>1. i \in 1..(Len(s) - 1) /\ i <= Len(s) /\ i + 1 <= Len(s)
      BY <2>0, <2>1
    <3>2. s[i + 1].number = After(s[i].number)
      BY <3>1 DEF InTurn
    <3> QED BY <1>2, <2>0, <3>1, <3>2
  <2>2. CASE i = Len(s)
    <3>1. s[i].number = Size - 1
      BY <1>3, <2>0, <2>2 DEF InTurn
    <3>2. t[i] = s[i] /\ t[i + 1] = AllPackets[1]
      BY <1>2, <2>0, <2>2
    <3>3. AllPackets[1].number = 0
      BY <1>1, <2>0
    <3> QED BY <3>1, <3>2, <3>3 DEF After
  <2>3. CASE i > Len(s)
    <3>1. i - Len(s) \in 1..(Size - 1) /\ ~(i <= Len(s)) /\ ~(i + 1 <= Len(s))
      BY <1>2, <2>0, <2>3
    <3>2. t[i] = AllPackets[i - Len(s)] /\ t[i + 1] = AllPackets[(i - Len(s)) + 1]
      <4>1. (i + 1) - Len(s) = (i - Len(s)) + 1
        BY <2>0
      <4> QED BY <1>2, <2>0, <3>1, <4>1
    <3>3. /\ AllPackets[i - Len(s)].number = i - Len(s) - 1
          /\ AllPackets[(i - Len(s)) + 1].number = i - Len(s)
      <4>1. i - Len(s) \in 1..Size /\ (i - Len(s)) + 1 \in 1..Size /\ (i - Len(s)) + 1 - 1 = i - Len(s)
        BY <2>0, <3>1
      <4> QED BY <1>1, <4>1
    <3>4. i - Len(s) - 1 # Size - 1 /\ (i - Len(s) - 1) + 1 = i - Len(s)
      BY <2>0, <3>1
    <3> QED BY <3>2, <3>3, <3>4 DEF After
  <2> QED BY <2>0, <2>1, <2>2, <2>3
<1>5. t[Len(t)].number = Size - 1
  <2>1. /\ Len(t) \in 1..Len(t) /\ ~(Len(t) <= Len(s)) /\ Len(t) - Len(s) = Size
        /\ Size \in 1..Size
    BY <1>2, SizeIsPositive
  <2>2. t[Len(t)] = AllPackets[Size]
    BY <1>2, <2>1
  <2> QED BY <1>1, <2>1, <2>2
<1>6. NextNumber(t) = NextNumber(s)
  <2>1. 1 \in 1..Len(t) /\ 1 \in 1..Size /\ 1 - 1 = 0
    BY <1>2, SizeIsPositive
  <2>2. CASE s = <<>>
    <3>1. Len(s) = 0 /\ ~(1 <= Len(s)) /\ 1 - Len(s) = 1
      BY <1>3, <2>2
    <3>2. t[1] = AllPackets[1]
      BY <1>2, <2>1, <3>1
    <3> QED BY <1>1, <1>3, <2>1, <2>2, <3>2 DEF NextNumber
  <2>3. CASE s # <<>>
    <3>1. 1 <= Len(s)
      BY <1>2, <1>3, <2>3
    <3>2. t[1] = s[1]
      BY <1>2, <2>1, <3>1
    <3> QED BY <1>3, <2>3, <3>2 DEF NextNumber
  <2> QED BY <2>2, <2>3
<1> QED BY <1>2, <1>4, <1>5, <1>6 DEF InTurn, t
-----------------------------------------------------------------------------
(***************************************************************************)
(* The packet that arrives.                                                *)
(***************************************************************************)
LEMMA ArrivalCounts ==
  ASSUME TransferInv, NEW p \in SentPackets, PutPacket(p)
  PROVE  /\ Completes(p) <=> Left = 1
         /\ Left' = IF Completes(p) THEN Size ELSE Left - 1
<1>1. p.record = Sent /\ Size \in Nat \ {0} /\ Packets[Sent] = Size
  BY SentNumber, SizeIsPositive DEF Size
<1>2. /\ class' = ClassOf[Sent] /\ toReceive' = Expected(p) /\ received' = Count(p)
      /\ receiving' = ~Completes(p)
  BY <1>1 DEF PutPacket
<1>3. CASE Continues(p)
  <2>1. /\ receiving /\ class = ClassOf[Sent] /\ Left = toReceive - received
        /\ toReceive \in Nat /\ received \in 1..(toReceive - 1)
    BY <1>1, <1>3 DEF Continues, Left, TransferInv, ReceptionIsOpen
  <2>2. Count(p) = received + 1 /\ Expected(p) = toReceive
    BY <1>3 DEF Count, Expected
  <2>3. Completes(p) <=> Left = 1
    BY <2>1, <2>2 DEF Completes
  <2>4. Completes(p) => Left' = Size
    BY <1>2 DEF Left, Size
  <2>5. ~Completes(p) => Left' = toReceive' - received'
    BY <1>2 DEF Left
  <2> QED BY <1>2, <2>1, <2>2, <2>3, <2>4, <2>5
<1>4. CASE ~Continues(p)
  <2>1. Left = Size /\ Count(p) = 1 /\ Expected(p) = Size
    BY <1>1, <1>4 DEF Continues, Left, Count, Expected
  <2> QED BY <1>1, <1>2, <2>1 DEF Completes, Left, Size
<1> QED BY <1>3, <1>4

(* The slots before the next one, going round.                             *)
LEMMA BeforeIsSlot ==
  ASSUME NEW n \in 0..(Size - 1), NEW j \in 1..(Size - 1)
  PROVE  /\ Before(n, j) \in 0..(Size - 1) /\ Before(n, j) # n
         /\ After(n) \in 0..(Size - 1)
         /\ Before(After(n), j + 1) = Before(n, j)
  BY SizeIsPositive DEF Before, After

LEMMA AfterThenBefore ==
  ASSUME NEW n \in 0..(Size - 1)
  PROVE  Before(After(n), 1) = n
  BY SizeIsPositive DEF Before, After

LEMMA EverySlotIsBefore ==
  ASSUME NEW n \in 0..(Size - 1), NEW i \in 0..(Size - 1), i # n
  PROVE  \E j \in 1..(Size - 1) : Before(n, j) = i
<1>1. CASE i < n
  <2>1. n - i \in 1..(Size - 1) /\ Before(n, n - i) = i
    BY <1>1, SizeIsPositive DEF Before
  <2> QED BY <2>1
<1>2. CASE i > n
  <2>1. n - i + Size \in 1..(Size - 1) /\ Before(n, n - i + Size) = i
    BY <1>2, SizeIsPositive DEF Before
  <2> QED BY <2>1
<1> QED BY <1>1, <1>2, SizeIsPositive

(* Where the packet that comes next is stored, and what stays beside it.   *)
LEMMA ArrivalStores ==
  ASSUME TransferInv, InTurn(forth), forth # <<>>, forth' = Tail(forth)
  PROVE  /\ Head(forth) \in SentPackets
         /\ Head(forth).number = NextNumber(forth) /\ NextNumber(forth) \in 0..(Size - 1)
         /\ NextNumber(forth') = After(NextNumber(forth))
         /\ NextNumber(forth) \in DOMAIN Stored(Head(forth)) =>
              Stored(Head(forth))[NextNumber(forth)] = Sent
         /\ \A i \in DOMAIN buffer : Continues(Head(forth)) =>
              /\ i \in DOMAIN Stored(Head(forth))
              /\ i # NextNumber(forth) => Stored(Head(forth))[i] = buffer[i]
<1> DEFINE p == Head(forth)
           n == NextNumber(forth)
<1>1. /\ p \in SentPackets /\ p.number = n /\ n \in 0..(Size - 1) /\ p.record = Sent
      /\ NextNumber(forth') = After(n)
  BY TurnOfTail, SentNumber DEF TransferInv, TypeOK, SentPackets
<1> HIDE DEF p, n
<1>2. /\ n \in DOMAIN Stored(p) => Stored(p)[n] = Sent
      /\ \A i \in DOMAIN buffer : Continues(p) =>
           i \in DOMAIN Stored(p) /\ (i # n => Stored(p)[i] = buffer[i])
  BY <1>1 DEF Stored
<1> QED BY <1>1, <1>2 DEF p, n

(* The packet that comes next keeps the buffer clean, and makes it whole   *)
(* when it completes the count.                                            *)
LEMMA ArrivalIsClean ==
  ASSUME TransferInv, InTurn(forth), Clean, forth # <<>>, forth' = Tail(forth),
         PutPacket(Head(forth))
  PROVE  /\ ~Completes(Head(forth)) => Clean'
         /\ Completes(Head(forth)) => Whole(Stored(Head(forth)), Sent)
<1> DEFINE p == Head(forth)
           n == NextNumber(forth)
<1>1. /\ p \in SentPackets /\ p.number = n /\ n \in 0..(Size - 1)
      /\ NextNumber(forth') = After(n)
      /\ n \in DOMAIN Stored(p) => Stored(p)[n] = Sent
      /\ \A i \in DOMAIN buffer : Continues(p) =>
           i \in DOMAIN Stored(p) /\ (i # n => Stored(p)[i] = buffer[i])
  BY ArrivalStores
<1>2. /\ Size \in Nat \ {0} /\ Counted \in 0..(Size - 1) /\ Left \in Nat \ {0}
      /\ Slots(Sent) = 0..(Size - 1)
  BY SizeIsPositive, LeftRange
<1>3. PutPacket(p)
  OBVIOUS
<1>4. Counted > 0 => /\ Slots(Sent) \subseteq DOMAIN buffer
                     /\ \A j \in 1..Counted : buffer[Before(n, j)] = Sent
  BY DEF Clean
<1> HIDE DEF p, n
<1>5. Counted > 0 => Continues(p)
  BY <1>1, <1>2, SentNumber DEF Continues, Counted, Left
<1>6. 0..(Size - 1) \subseteq DOMAIN Stored(p) /\ Stored(p)[n] = Sent
  <2>1. CASE Counted > 0
    BY <1>1, <1>2, <1>4, <1>5, <2>1
  <2>2. CASE Counted = 0 /\ Continues(p)
    <3>1. receiving /\ class = ClassOf[Sent] /\ Left >= Size
      BY <1>1, <1>2, <2>2, SentNumber DEF Continues, Counted
    <3>2. toReceive > Size /\ toReceive \in Nat /\ DOMAIN buffer = 0..(toReceive - 1)
      BY <1>2, <3>1, LeftRange DEF TransferInv, ReceptionIsOpen
    <3>3. 0..(Size - 1) \subseteq DOMAIN buffer
      BY <1>2, <3>2
    <3> QED BY <1>1, <2>2, <3>3
  <2>3. CASE ~Continues(p)
    BY <1>1, <1>2, <2>3, SentNumber DEF Stored
  <2> QED BY <1>2, <2>1, <2>2, <2>3
<1>7. ASSUME NEW j \in 1..Counted PROVE Stored(p)[Before(n, j)] = Sent
  <2>1. j \in 1..(Size - 1) /\ Counted > 0
    BY <1>2
  <2>2. Before(n, j) \in 0..(Size - 1) /\ Before(n, j) # n
    BY <1>1, <2>1, BeforeIsSlot
  <2> QED BY <1>1, <1>2, <1>4, <1>5, <2>1, <2>2
<1>8. ASSUME ~Completes(p) PROVE Clean'
  <2>1. Left' = Left - 1 /\ Left > 1
    BY <1>1, <1>2, <1>3, <1>8, ArrivalCounts
  <2>2. Counted' = 0 \/ (Counted' = Counted + 1 /\ Counted < Size - 1)
    BY <1>2, <2>1 DEF Counted, Size
  <2>3. buffer' = Stored(p)
    BY <1>3, <1>8 DEF PutPacket
  <2>4. ASSUME NEW j \in 1..(Counted + 1), Counted < Size - 1
        PROVE  Stored(p)[Before(After(n), j)] = Sent
    <3>1. CASE j = 1
      BY <1>1, <1>6, <3>1, AfterThenBefore
    <3>2. CASE j # 1
      <4>1. j - 1 \in 1..Counted /\ j - 1 \in 1..(Size - 1) /\ (j - 1) + 1 = j
        BY <1>2, <3>2
      <4>2. Before(After(n), (j - 1) + 1) = Before(n, j - 1)
        BY <1>1, <4>1, BeforeIsSlot
      <4> QED BY <1>7, <4>1, <4>2
    <3> QED BY <3>1, <3>2
  <2>5. Slots(Sent) \subseteq DOMAIN Stored(p)
    BY <1>2, <1>6
  <2>6. CASE Counted' = 0
    BY <2>6 DEF Clean
  <2>7. CASE Counted' = Counted + 1 /\ Counted < Size - 1
    <3>1. \A j \in 1..Counted' : buffer'[Before(NextNumber(forth'), j)] = Sent
      BY <1>1, <2>3, <2>4, <2>7
    <3> QED BY <2>3, <2>5, <3>1 DEF Clean, Before, Slots, Size
  <2> QED BY <2>2, <2>6, <2>7
<1>9. ASSUME Completes(p) PROVE Whole(Stored(p), Sent)
  <2>1. Counted = Size - 1
    <3>1. Left = 1
      BY <1>1, <1>3, <1>9, ArrivalCounts
    <3> QED BY <1>2, <3>1 DEF Counted
  <2>2. ASSUME NEW i \in 0..(Size - 1) PROVE Stored(p)[i] = Sent
    <3>1. CASE i = n
      BY <1>6, <3>1
    <3>2. CASE i # n
      <4>1. PICK j \in 1..(Size - 1) : Before(n, j) = i
        BY <1>1, <3>2, EverySlotIsBefore
      <4> QED BY <1>7, <2>1, <4>1
    <3> QED BY <3>1, <3>2
  <2> QED BY <1>2, <1>6, <2>2 DEF Whole
<1> QED BY <1>8, <1>9 DEF p

(* What was missing keeps being written over, in turn.                     *)
LEMMA ArrivalRewrites ==
  ASSUME TransferInv, InTurn(forth), Rewritten, forth # <<>>, forth' = Tail(forth),
         PutPacket(Head(forth)), ~Completes(Head(forth)), UNCHANGED <<packetLoss, missing>>
  PROVE  Rewritten'
<1> DEFINE p == Head(forth)
           n == NextNumber(forth)
<1>1. /\ p \in SentPackets /\ p.number = n /\ n \in 0..(Size - 1)
      /\ NextNumber(forth') = After(n)
      /\ n \in DOMAIN Stored(p) => Stored(p)[n] = Sent
      /\ \A i \in DOMAIN buffer : Continues(p) =>
           i \in DOMAIN Stored(p) /\ (i # n => Stored(p)[i] = buffer[i])
  BY ArrivalStores
<1>2. /\ Size \in Nat \ {0} /\ Left \in Nat \ {0} /\ missing \in Nat
      /\ Left' = Left - 1 /\ PutPacket(p) /\ ~Completes(p)
  BY <1>1, SizeIsPositive, LeftRange, ArrivalCounts DEF TransferInv, TypeOK
<1> SUFFICES ASSUME Patient'
             PROVE  /\ receiving' /\ class' = ClassOf[Sent] /\ Size <= toReceive'
                    /\ \A j \in 1..Size :
                         j <= missing' - Left' => buffer'[Before(NextNumber(forth'), j)] = Sent
  BY DEF Rewritten, Size, Before
<1>3. Patient
  BY DEF Patient, Size
<1>4. /\ receiving /\ class = ClassOf[Sent] /\ Size <= toReceive
      /\ \A j \in 1..Size : j <= missing - Left => buffer[Before(n, j)] = Sent
  BY <1>3 DEF Rewritten
<1> HIDE DEF p, n
<1>5. Continues(p) /\ p.record = Sent
  BY <1>1, <1>4, SentNumber DEF Continues
<1>6. /\ receiving' /\ class' = ClassOf[Sent] /\ toReceive' = toReceive /\ buffer' = Stored(p)
  BY <1>2, <1>5 DEF PutPacket, Expected
<1>7. \A i \in 0..(Size - 1) : i \in DOMAIN buffer
  <2>1. DOMAIN buffer = 0..(toReceive - 1) /\ toReceive \in Nat
    BY <1>4 DEF TransferInv, ReceptionIsOpen
  <2> QED BY <1>2, <1>4, <2>1
<1>8. ASSUME NEW j \in 1..Size, j <= missing - (Left - 1)
      PROVE  Stored(p)[Before(After(n), j)] = Sent
  <2>1. CASE j = 1
    BY <1>1, <1>5, <1>7, <2>1, AfterThenBefore
  <2>2. CASE j # 1
    <3>1. j - 1 \in 1..(Size - 1) /\ j - 1 \in 1..Size /\ (j - 1) + 1 = j /\ j - 1 <= missing - Left
      BY <1>2, <1>8, <2>2
    <3>2. /\ Before(After(n), (j - 1) + 1) = Before(n, j - 1)
          /\ Before(n, j - 1) \in 0..(Size - 1) /\ Before(n, j - 1) # n
      BY <1>1, <3>1, BeforeIsSlot
    <3>3. buffer[Before(n, j - 1)] = Sent
      BY <1>4, <3>1
    <3> QED BY <1>1, <1>5, <1>7, <3>1, <3>2, <3>3
  <2> QED BY <2>1, <2>2
<1> QED BY <1>1, <1>2, <1>4, <1>6, <1>8

(* Where less than a record is missing of so much, all of it was sent.     *)
LEMMA RewrittenIsClean ==
  ASSUME TransferInv, Rewritten, Patient, Left <= Size, NextNumber(forth) \in 0..(Size - 1)
  PROVE  /\ 0..(Size - 1) \subseteq DOMAIN buffer
         /\ \A i \in 0..(Size - 1) : buffer[i] = Sent
<1> DEFINE n == NextNumber(forth)
<1>1. /\ Size \in Nat \ {0} /\ Left \in Nat \ {0} /\ missing \in Nat /\ missing >= 2 * Size
  BY SizeIsPositive, LeftRange DEF Patient, TransferInv, TypeOK
<1>2. /\ receiving /\ class = ClassOf[Sent] /\ Size <= toReceive
      /\ \A j \in 1..Size : j <= missing - Left => buffer[Before(n, j)] = Sent
  BY DEF Rewritten
<1>3. DOMAIN buffer = 0..(toReceive - 1) /\ toReceive \in Nat
  BY <1>2 DEF TransferInv, ReceptionIsOpen
<1>4. 0..(Size - 1) \subseteq DOMAIN buffer
  BY <1>1, <1>2, <1>3
<1>5. n \in 0..(Size - 1)
  OBVIOUS
<1> HIDE DEF n
<1>6. ASSUME NEW i \in 0..(Size - 1) PROVE buffer[i] = Sent
  <2>1. PICK j \in 1..Size : Before(n, j) = i
    <3>1. CASE i = n
      <4>1. Before(n, Size) = n
        BY <1>1, <1>5 DEF Before
      <4> QED BY <1>1, <3>1, <4>1
    <3>2. CASE i # n
      <4>1. PICK j \in 1..(Size - 1) : Before(n, j) = i
        BY <1>5, <3>2, EverySlotIsBefore
      <4>2. j \in 1..Size
        BY <1>1
      <4> QED BY <4>1, <4>2
    <3> QED BY <3>1, <3>2
  <2>2. j <= missing - Left
    BY <1>1
  <2> QED BY <1>2, <2>1, <2>2
<1> QED BY <1>4, <1>6

-----------------------------------------------------------------------------
(***************************************************************************)
(* The steps of an undisturbed transfer.                                   *)
(***************************************************************************)
LEMMA LossNumbers ==
  ASSUME TransferInv
  PROVE  /\ Size \in Nat \ {0} /\ Left \in Nat \ {0} /\ Counted \in 0..(Size - 1)
         /\ forth \in Seq(SentPackets) /\ Len(forth) \in Nat
         /\ back \in Seq(Answers) /\ Len(back) \in Nat
         /\ failures \in 0..(ReceiveAttempts - 1) /\ failures \in Nat
         /\ packetLoss \in Nat /\ answerLoss \in Nat /\ copies \in Nat /\ missing \in Nat
         /\ Foul \in 0..1 /\ Stalls \in 0..2 /\ Owed \in {0, Size}
         /\ Due \in Int /\ Reach \in Int /\ Reach = Due + packetLoss
         /\ SendAttempts \in Nat /\ ReceiveAttempts \in Nat
         /\ Sent # "waiting" /\ Sent # "failed" /\ Sent \in Records
<1>1. Size \in Nat \ {0} /\ Left \in Nat \ {0} /\ Counted \in 0..(Size - 1)
  BY SizeIsPositive, LeftRange
<1>2. /\ forth \in Seq(SentPackets) /\ back \in Seq(Answers)
      /\ failures \in 0..(ReceiveAttempts - 1) /\ missing \in Nat
      /\ packetLoss \in 0..PacketLosses /\ answerLoss \in 0..AnswerLosses /\ copies \in Nat
  BY DEF TransferInv, TypeOK, SentPackets
<1>3. Len(forth) \in Nat /\ Len(back) \in Nat
  BY <1>2, LenProperties
<1>4. Owed \in {0, Size} /\ Foul \in 0..1 /\ Stalls \in 0..2
  BY DEF Owed, Foul, Stalls
<1>5. packetLoss \in Nat /\ answerLoss \in Nat /\ failures \in Nat
  BY <1>2, TransferAssumption DEF TransferAssumption
<1>6. Due \in Int /\ Reach \in Int
  BY <1>1, <1>3, <1>4, <1>5 DEF Due, Reach
<1> QED BY <1>1, <1>2, <1>3, <1>4, <1>5, <1>6, TransferAssumption DEF TransferAssumption, Reach

(* The number that comes next is one of the record's.                      *)
LEMMA NextIsNumber ==
  ASSUME TransferInv
  PROVE  NextNumber(forth) \in 0..(Size - 1)
<1>1. CASE forth = <<>>
  BY <1>1, LossNumbers DEF NextNumber
<1>2. CASE forth # <<>>
  <2>1. Head(forth) \in SentPackets
    BY <1>2, LossNumbers, HeadTailProperties
  <2> QED BY <1>2, <2>1, SentNumber DEF NextNumber
<1> QED BY <1>1, <1>2

(* While the record is not accepted, what the sender hears is a complaint. *)
LEMMA OpenHearsNoAck ==
  ASSUME TransferInv, Open, back # <<>>
  PROVE  Head(back) # "ACK" /\ Tail(back) = <<>> /\ Owed = Size
<1>1. back \in Seq(Answers) /\ receiver \notin Records /\ Len(back) <= 1
  BY LossNumbers, TransferAssumption DEF Open, TransferAssumption
<1>2. Head(back) # "ACK"
  <2>1. back \in Seq(Answers \ {"ACK"})
    BY <1>1 DEF TransferInv, AckIsTrue
  <2> QED BY <2>1, HeadTailProperties
<1>3. Len(Tail(back)) = Len(back) - 1 /\ Tail(back) \in Seq(Answers) /\ Len(back) \in Nat \ {0}
  BY <1>1, HeadTailProperties, EmptySeq, LenProperties
<1>4. Tail(back) = <<>>
  BY <1>1, <1>3, EmptySeq
<1> QED BY <1>2, <1>4 DEF Owed

LEMMA Singleton ==
  ASSUME NEW a \in Answers
  PROVE  /\ Append(<<>>, a) = <<a>> /\ <<a>> # <<>> /\ Len(<<a>>) = 1
         /\ Head(<<a>>) = a /\ Tail(<<a>>) = <<>>
  OBVIOUS

(* One loss, or what was missing, costs two failures at the most.          *)
LEMMA FewFailures ==
  ASSUME TransferInv, Undisturbed, Payable
  PROVE  failures + Foul + Stalls <= 2 /\ failures <= 2
<1>1. /\ failures \in Nat /\ Foul \in 0..1 /\ Stalls \in 0..2 /\ packetLoss \in Nat
      /\ packetLoss <= 1
  BY LossNumbers DEF Undisturbed
<1>2. failures + Foul + Stalls <= IF missing >= 2 * Size THEN 2 ELSE packetLoss + 1
  BY DEF Payable
<1> QED BY <1>1, <1>2

(* Sums of what is due.                                                    *)
LEMMA LessIsDue ==
  \A a, b, c, d, n \in Int : d <= b /\ a + b + c <= n => a + d + c <= n
  OBVIOUS

(* What counts towards the record is not changed by the sender.            *)
LEMMA SameCount ==
  ASSUME UNCHANGED reassembly
  PROVE  Left' = Left /\ Counted' = Counted /\ buffer' = buffer
  BY DEF Left, Counted, reassembly, Size

(* What is left in the buffer and what comes next are the same.            *)
LEMMA SameBuffer ==
  ASSUME UNCHANGED <<reassembly, packetLoss, missing>>, NextNumber(forth') = NextNumber(forth)
  PROVE  /\ Clean' = Clean /\ Foul' = Foul
         /\ Rewritten => Rewritten'
<1>1. Left' = Left /\ Counted' = Counted /\ buffer' = buffer
      /\ UNCHANGED <<receiving, class, toReceive>>
  BY SameCount DEF reassembly
<1>2. Clean' = Clean
  BY <1>1 DEF Clean, Before, Slots, Size
<1>3. Rewritten => Rewritten'
  BY <1>1 DEF Rewritten, Patient, Before, Size
<1> QED BY <1>2, <1>3 DEF Foul

LEMMA SameStalls ==
  ASSUME UNCHANGED Reach
  PROVE  Stalls' = Stalls
  BY DEF Stalls, Size

(* A sending pays what was owed.                                           *)
LEMMA SendingPays ==
  ASSUME TransferInv, Open, Owed = Size, Transmit, back' = <<>>,
         UNCHANGED <<reassembly, receiver, failures, packetLoss, missing>>
  PROVE  Open'
<1>1. /\ InTurn(forth') /\ NextNumber(forth') = NextNumber(forth)
      /\ Len(forth') = Len(forth) + Size
  BY LossNumbers, TurnOfSending DEF Transmit, Open
<1>2. Left' = Left /\ Foul' = Foul /\ (Rewritten => Rewritten')
  BY <1>1, SameCount, SameBuffer
<1>3. Owed' = 0 /\ sender' = "waiting"
  BY DEF Transmit, Owed
<1>4. Due' = Due
  <2>1. Len(forth) \in Int /\ Size \in Int /\ Left \in Int
    BY LossNumbers
  <2>2. Due = Len(forth) + Size - Left
    BY DEF Due
  <2>3. Due' = (Len(forth) + Size) + 0 - Left
    BY <1>1, <1>2, <1>3 DEF Due
  <2> QED BY <2>1, <2>2, <2>3
<1>5. Reach' = Reach /\ Stalls' = Stalls
  BY <1>4, SameStalls DEF Reach
<1>6. Len(back') = 0
  BY EmptySeq
<1>7. Enough' => Payable'
  BY <1>2, <1>5 DEF Open, Enough, Payable, Size
<1>8. InTurn(forth)' /\ Due' < Size'
  BY <1>1, <1>4 DEF Open, Size, InTurn, After
<1> QED BY <1>3, <1>6, <1>7, <1>8 DEF Open

LEMMA LossStart ==
  ASSUME TransferInv, LossInv, Undisturbed, Start
  PROVE  copies' = 0 /\ (Open' \/ Settled' \/ GivenUp')
<1>1. copies = 0 /\ copies' = 0 /\ (Open \/ GivenUp) /\ UNCHANGED missing
  BY DEF LossInv, Settled, Start, link, conditions
<1>2. CASE Open
  <2>1. Transmit /\ back' = <<>> /\ UNCHANGED <<reassembly, receiver, failures, packetLoss>>
    BY <1>2 DEF Start, TransmitPart, Undisturbed, Open, link
  <2>2. Owed = Size
    BY DEF Owed, Start
  <2> QED BY <1>1, <1>2, <2>1, <2>2, SendingPays
<1>3. CASE GivenUp
  BY <1>1, <1>3 DEF GivenUp, Start, Enough, Size
<1> QED BY <1>1, <1>2, <1>3

LEMMA LossHearAck ==
  ASSUME TransferInv, LossInv, Undisturbed, HearAck
  PROVE  copies' = 0 /\ (Open' \/ Settled' \/ GivenUp')
<1>1. copies' = 0 /\ (Open \/ Settled \/ GivenUp) /\ UNCHANGED missing
  BY DEF LossInv, HearAck, link, conditions
<1>2. ~Open
  BY OpenHearsNoAck DEF HearAck
<1>3. CASE Settled
  <2>1. back = <<"ACK">> /\ "ACK" \in Answers
    BY <1>3 DEF Settled, HearAck, Answers
  <2>2. back' = <<>> /\ sender' = "done" /\ UNCHANGED <<reassembly, receiver, forth>>
    BY <2>1, Singleton DEF HearAck
  <2> QED BY <1>1, <1>3, <2>2, SameCount DEF Settled
<1>4. CASE GivenUp
  <2>1. receiver = "failed" /\ receiver' = receiver
    BY <1>4 DEF GivenUp, HearAck
  <2> QED BY <1>1, <1>4, <2>1, LossNumbers DEF GivenUp, HearAck, Enough, Size
<1> QED BY <1>1, <1>2, <1>3, <1>4

(* A sender gives up only after more failures than one loss can cost.      *)
LEMMA LossHearFailure ==
  ASSUME TransferInv, LossInv, SendingIsOwed, Undisturbed, HearFailure
  PROVE  copies' = 0 /\ (Open' \/ Settled' \/ GivenUp')
<1>1. copies' = 0 /\ (Open \/ Settled \/ GivenUp) /\ UNCHANGED missing
  BY DEF LossInv, HearFailure, link, conditions
<1>2. CASE Open
  <2>1. /\ back' = <<>> /\ Owed = Size
        /\ UNCHANGED <<reassembly, receiver, failures, packetLoss>>
    BY <1>2, OpenHearsNoAck DEF HearFailure, link
  <2>2. CASE Transmit
    BY <1>1, <1>2, <2>1, <2>2, SendingPays
  <2>3. CASE LastSend /\ sender' = "failed" /\ UNCHANGED <<sends, forth>>
    <3>1. ASSUME Enough PROVE SendAttempts < 3
      <4>1. sends <= failures
        <5>1. Cardinality(ComplaintsIn(back)) >= 1
          <6>1. /\ Cardinality(ComplaintsIn(Tail(back))) = Cardinality(ComplaintsIn(back)) - 1
                /\ Tail(back) = <<>> /\ back \in Seq(Answers)
            BY <1>2, OpenHearsNoAck, LossNumbers, ComplaintsOfTail DEF HearFailure
          <6>2. Cardinality(ComplaintsIn(Tail(back))) \in Nat
            <7>1. Tail(back) \in Seq(Answers)
              BY <6>1, EmptySeq
            <7> QED BY <7>1, ComplaintsAreFinite
          <6>3. Cardinality(ComplaintsIn(back)) \in Nat
            BY <6>1, ComplaintsAreFinite
          <6> QED BY <6>1, <6>2, <6>3
        <5>2. sends + Cardinality(ComplaintsIn(back)) <= failures + 1
          BY DEF SendingIsOwed, Claims, HearFailure
        <5> QED BY <5>1, <5>2, ClaimsAreNumbers
      <4>2. failures <= 2
        BY <1>2, <3>1, FewFailures DEF Open
      <4>3. sends >= SendAttempts /\ sends \in Nat
        BY <2>3, ClaimsAreNumbers DEF LastSend
      <4> QED BY <4>1, <4>2, <4>3, LossNumbers
    <3>2. Len(forth') < Left'
      <4>1. Left' = Left /\ forth' = forth
        BY <2>1, <2>3, SameCount
      <4>2. Len(forth) + Size - Left < Size
        BY <1>2, <2>1 DEF Open, Due
      <4>3. Len(forth) < Left
        BY <4>2, LossNumbers
      <4> QED BY <4>1, <4>3
    <3>3. receiver' # Sent
      BY <1>2, <2>1, LossNumbers DEF Open
    <3> QED BY <1>1, <2>3, <3>1, <3>2, <3>3 DEF GivenUp, Enough, Size
  <2> QED BY <2>2, <2>3 DEF HearFailure, TransmitPart, Undisturbed
<1>3. ~Settled
  <2> SUFFICES ASSUME Settled PROVE FALSE
    OBVIOUS
  <2>1. back = <<"ACK">> /\ Head(back) # "ACK" /\ "ACK" \in Answers
    BY DEF Settled, HearFailure, Answers
  <2> QED BY <2>1, Singleton
<1>4. CASE GivenUp
  <2>1. receiver = "failed" /\ receiver' = receiver
    BY <1>4 DEF GivenUp, HearFailure
  <2> QED BY <1>1, <1>4, <2>1, LossNumbers DEF GivenUp, HearFailure, Enough, Size
<1> QED BY <1>1, <1>2, <1>3, <1>4

LEMMA LossSenderTimeout ==
  ASSUME TransferInv, LossInv, Undisturbed, SenderTimeout
  PROVE  copies' = 0 /\ (Open' \/ Settled' \/ GivenUp')
<1>1. /\ copies' = 0 /\ (Open \/ Settled \/ GivenUp) /\ receiver # "waiting" /\ back = <<>>
      /\ sender = "waiting" /\ UNCHANGED <<receiver, missing>>
  BY DEF LossInv, SenderTimeout, Undisturbed, link, conditions
<1>2. ~Open /\ ~Settled
  BY <1>1, Singleton DEF Open, Settled, Answers
<1>3. receiver = "failed"
  BY <1>1, <1>2 DEF GivenUp
<1> QED BY <1>1, <1>2, <1>3, LossNumbers DEF GivenUp, Enough, Size

(* A failure is paid for by one of two: what was foul is clean, or what    *)
(* stalled goes on; the complaint takes the place of a record's packets.   *)
LEMMA FailurePays ==
  ASSUME TransferInv, Undisturbed, Open, back = <<>>, sender = "waiting",
         NEW reason \in Answers, Fail(reason), UNCHANGED <<sender, packetLoss, missing>>,
         InTurn(forth'), back' # <<>> => Due' < Size,
         Enough => /\ Foul + Stalls >= 1
                   /\ back' # <<>> => /\ Reach' + 2 * Size > 0 /\ Rewritten'
                                      /\ Foul' + Stalls' = Foul + Stalls - 1
  PROVE  Open' \/ GivenUp'
<1>1. /\ failures \in Nat /\ Foul \in 0..1 /\ Stalls \in 0..2 /\ packetLoss \in Nat
      /\ Foul' \in 0..1 /\ Stalls' \in 0..2 /\ ReceiveAttempts \in Nat
  BY LossNumbers DEF Foul, Stalls
<1>2. CASE failures + 1 < ReceiveAttempts /\ failures' = failures + 1
           /\ back' = Append(back, reason) /\ UNCHANGED receiver
  <2>1. back' = <<reason>> /\ Len(back') = 1 /\ back' # <<>>
    BY <1>2, Singleton
  <2>2. ASSUME Enough
        PROVE  failures' + Foul' + Stalls' <= IF missing >= 2 * Size THEN 2 ELSE packetLoss + 1
    <3>1. failures + Foul + Stalls <= IF missing >= 2 * Size THEN 2 ELSE packetLoss + 1
      BY <2>2 DEF Open, Payable
    <3>2. Foul' + Stalls' = Foul + Stalls - 1
      BY <2>1, <2>2
    <3>3. failures' + Foul' + Stalls' = failures + Foul + Stalls
      <4>1. /\ failures \in Int /\ Foul \in Int /\ Stalls \in Int
            /\ Foul' \in Int /\ Stalls' \in Int
        BY <1>1
      <4>2. failures' = failures + 1 /\ failures' \in Int
        BY <1>2, <4>1
      <4>3. PICK a \in Int, b \in Int, c \in Int, e \in Int, f \in Int, g \in Int :
              /\ a = failures /\ b = Foul /\ c = Stalls
              /\ e = failures' /\ f = Foul' /\ g = Stalls'
        BY <4>1, <4>2
      <4>4. e = a + 1 /\ f + g = b + c - 1
        BY <3>2, <4>2, <4>3
      <4>5. e + f + g = a + b + c
        BY <4>4
      <4> QED BY <4>3, <4>5
    <3> QED BY <3>1, <3>3
  <2>3. Enough' => Payable'
    BY <1>2, <2>1, <2>2 DEF Payable, Enough, Size
  <2>4. InTurn(forth)' /\ Due' < Size'
    BY <2>1 DEF InTurn, After, Size
  <2> QED BY <1>2, <2>1, <2>3, <2>4 DEF Open
<1>3. CASE failures + 1 >= ReceiveAttempts /\ receiver' = "failed"
  <2>1. ASSUME Enough PROVE ReceiveAttempts < 3
    <3>1. failures + Foul + Stalls <= 2
      BY <2>1, FewFailures DEF Open
    <3> QED BY <1>1, <1>3, <2>1, <3>1
  <2> QED BY <1>3, <2>1 DEF GivenUp, Enough, Size
<1> QED BY <1>2, <1>3 DEF Fail

(* A timeout ends a count that stays short.                                *)
LEMMA LossReceiverTimeout ==
  ASSUME TransferInv, LossInv, Undisturbed, ReceiverTimeout
  PROVE  copies' = 0 /\ (Open' \/ Settled' \/ GivenUp')
<1>1. /\ copies' = 0 /\ (Open \/ GivenUp) /\ receiver = "waiting" /\ sender # "ready"
      /\ forth = <<>>
      /\ sender = "waiting" => back = <<>>
      /\ Fail("TIMEOUT") /\ "TIMEOUT" \in Answers
      /\ UNCHANGED <<reassembly, sender, forth, packetLoss, missing>>
  BY LossNumbers DEF LossInv, ReceiverTimeout, Undisturbed, Settled, Answers, link, conditions
<1>2. CASE Open
  <2>1. sender = "waiting" /\ back = <<>>
    BY <1>1, <1>2 DEF Open
  <2>2. Len(forth) = 0 /\ Owed = 0 /\ Len(forth') = 0
    BY <1>1, <2>1, EmptySeq DEF Owed
  <2>3. Due = 0 - Left /\ Left \in Nat \ {0} /\ packetLoss \in 0..1 /\ Size \in Nat \ {0}
    <3>1. Left \in Nat \ {0} /\ Size \in Nat \ {0} /\ packetLoss \in Nat /\ packetLoss <= 1
      BY LossNumbers DEF Undisturbed
    <3>2. Due = 0 + 0 - Left
      BY <2>2 DEF Due
    <3> QED BY <3>1, <3>2
  <2>4. Reach \in Int /\ Reach <= 0 /\ Stalls >= 1
    <3>1. Reach = Due + packetLoss
      BY DEF Reach
    <3>2. Reach \in Int /\ Reach <= 0
      BY <2>3, <3>1
    <3> QED BY <2>3, <3>2 DEF Stalls
  <2>5. Left' = Left /\ Foul' = Foul /\ Foul \in 0..1 /\ (Rewritten => Rewritten')
    BY <1>1, SameCount, SameBuffer, LossNumbers
  <2>6. ASSUME back' # <<>> PROVE Due' = Due + Size /\ Reach' = Reach + Size
    <3>1. Owed' = Size
      BY <2>6 DEF Owed, Size
    <3>2. Size \in Int /\ Left \in Int /\ packetLoss \in Int /\ packetLoss' = packetLoss
      BY <1>1, <2>3
    <3>3. Due' = 0 + Size - Left
      BY <2>2, <2>5, <3>1 DEF Due
    <3>4. Due' = Due + Size
      BY <2>3, <3>2, <3>3
    <3>5. Reach = (0 - Left) + packetLoss /\ Reach' = ((0 - Left) + Size) + packetLoss
      BY <2>3, <3>2, <3>4 DEF Reach
    <3> QED BY <3>2, <3>4, <3>5
  <2>7. ASSUME back' # <<>> PROVE Due' < Size
    <3>1. Due' = Due + Size
      BY <2>6, <2>7
    <3> QED BY <2>3, <3>1
  <2>8. ASSUME Enough, back' # <<>>
        PROVE  /\ Reach' + 2 * Size > 0 /\ Rewritten'
               /\ Foul' + Stalls' = Foul + Stalls - 1
    <3>1. Reach + 2 * Size > 0 /\ Rewritten
      BY <1>2, <2>8 DEF Open, Payable
    <3>2. Reach' = Reach + Size /\ Size' = Size
      BY <2>6, <2>8 DEF Size
    <3>3. Stalls' = Stalls - 1
      BY <2>3, <2>4, <3>1, <3>2 DEF Stalls
    <3>4. Stalls \in 0..2 /\ Foul \in 0..1 /\ Foul' = Foul
      BY <2>5, LossNumbers
    <3>5. Foul' + Stalls' = Foul + Stalls - 1
      BY <3>3, <3>4
    <3>6. Reach' + 2 * Size > 0
      BY <2>3, <2>4, <3>1, <3>2
    <3> QED BY <2>5, <3>1, <3>5, <3>6
  <2>9. Foul + Stalls >= 1
    <3>1. Foul \in 0..1 /\ Stalls \in 0..2 /\ Stalls >= 1
      BY <2>4, LossNumbers
    <3> QED BY <3>1
  <2>10. InTurn(forth')
    BY <1>1, <1>2 DEF Open
  <2> QED BY <1>1, <1>2, <2>1, <2>7, <2>8, <2>9, <2>10, FailurePays
<1>3. CASE GivenUp
  <2>1. receiver # "failed" /\ receiver' # Sent /\ Left' = Left
    BY <1>1, LossNumbers, SameCount DEF Fail
  <2> QED BY <1>1, <1>3, <2>1 DEF GivenUp, Enough, Size
<1> QED BY <1>1, <1>2, <1>3

(* A packet less on its way.                                               *)
LEMMA LossLosePacket ==
  ASSUME TransferInv, LossInv, Undisturbed, Undisturbed', LosePacket
  PROVE  copies' = 0 /\ (Open' \/ Settled' \/ GivenUp')
<1>1. /\ copies' = 0 /\ (Open \/ Settled \/ GivenUp)
      /\ forth # <<>> /\ forth' = Tail(forth)
      /\ UNCHANGED <<reassembly, sender, sends, receiver, failures, back, missing>>
  BY DEF LossInv, LosePacket, conditions
<1>2. packetLoss = 0 /\ packetLoss' = 1
  BY LossNumbers DEF LosePacket, Undisturbed
<1>3. /\ Len(forth') = Len(forth) - 1 /\ Len(forth) \in Nat \ {0}
      /\ Left' = Left /\ Counted' = Counted /\ buffer' = buffer
  BY <1>1, LossNumbers, SameCount, HeadTailProperties, EmptySeq
<1>4. CASE Open
  <2>1. Due' = Due - 1 /\ Reach' = Reach
    <3>1. Owed' = Owed
      BY <1>1 DEF Owed, Size
    <3>2. Due' = Due - 1
      <4>1. Owed \in Int /\ Left \in Int /\ Len(forth) \in Int
        BY LossNumbers
      <4>2. Due' = (Len(forth) - 1) + Owed - Left
        BY <1>3, <3>1 DEF Due
      <4>3. Due = Len(forth) + Owed - Left
        BY DEF Due
      <4> QED BY <4>1, <4>2, <4>3
    <3> QED BY <1>2, <3>2, LossNumbers DEF Reach
  <2>2. Stalls' = Stalls
    BY <2>1, SameStalls
  <2>3. InTurn(forth')
    BY <1>1, <1>4, LossNumbers, TurnOfTail DEF Open
  <2>4. NextNumber(forth') \in 0..(Size - 1)
    <3>1. NextNumber(forth') = After(NextNumber(forth))
      BY <1>1, <1>4, LossNumbers, TurnOfTail DEF Open
    <3>2. NextNumber(forth) \in 0..(Size - 1) /\ Size \in Nat \ {0}
      BY NextIsNumber, LossNumbers
    <3> QED BY <3>1, <3>2 DEF After
  <2>5. ASSUME Payable PROVE failures + Foul' + Stalls <= 2
                             /\ (missing < 2 * Size => failures + Foul' + Stalls <= packetLoss + 2)
    <3>1. /\ failures + Foul + Stalls <= IF missing >= 2 * Size THEN 2 ELSE packetLoss + 1
          /\ Rewritten
      BY <2>5 DEF Payable
    <3>2. Foul \in 0..1 /\ Foul' \in 0..1 /\ Stalls \in 0..2 /\ failures \in Nat
      BY LossNumbers DEF Foul
    <3>3. CASE missing >= 2 * Size
      <4>1. Patient
        BY <1>2, <3>3 DEF Patient
      <4>2. Clean'
        <5>1. CASE Counted = 0
          BY <1>3, <5>1 DEF Clean
        <5>2. CASE Counted > 0
          <6>1. Left <= Size /\ Counted \in 1..(Size - 1)
            BY <5>2, LossNumbers DEF Counted
          <6>2. /\ 0..(Size - 1) \subseteq DOMAIN buffer
                /\ \A i \in 0..(Size - 1) : buffer[i] = Sent
            BY <3>1, <4>1, <6>1, NextIsNumber, RewrittenIsClean
          <6>3. \A j \in 1..Counted : Before(NextNumber(forth'), j) \in 0..(Size - 1)
            <7>1. \A j \in 1..Counted : j \in 1..(Size - 1)
              BY <6>1, LossNumbers
            <7> QED BY <2>4, <7>1, BeforeIsSlot
          <6>4. \A j \in 1..Counted : buffer[Before(NextNumber(forth'), j)] = Sent
            BY <6>2, <6>3
          <6>5. Slots(Sent) \subseteq DOMAIN buffer
            BY <6>2, SizeIsPositive
          <6> QED BY <1>3, <6>4, <6>5 DEF Clean, Before, Slots, Size
        <5> QED BY <5>1, <5>2, LossNumbers
      <4>3. Foul' = 0
        BY <4>2 DEF Foul
      <4>4. failures + Foul + Stalls <= 2
        BY <3>1, <3>3
      <4>5. failures + Foul' + Stalls <= 2
        BY <3>2, <4>3, <4>4
      <4>6. ~(missing < 2 * Size)
        BY <3>3, LossNumbers
      <4> QED BY <4>5, <4>6
    <3>4. CASE ~(missing >= 2 * Size)
      <4>1. failures + Foul + Stalls <= 0 + 1
        BY <1>2, <3>1, <3>4
      <4>2. failures + 0 + Stalls <= 1 /\ Foul' <= 1
        BY <3>2, <4>1
      <4>3. failures + Stalls <= 1 /\ failures + Stalls \in Int /\ Foul' \in Int
        BY <3>2, <4>2
      <4>4. failures + Foul' + Stalls = (failures + Stalls) + Foul'
        BY <3>2
      <4>5. failures + Foul' + Stalls <= 2
        BY <4>2, <4>3, <4>4
      <4> QED BY <1>2, <4>5
    <3> QED BY <3>3, <3>4
  <2>6. Rewritten'
    BY <1>2 DEF Rewritten, Patient
  <2>7. Enough' => Payable'
    <3> SUFFICES ASSUME Enough PROVE Payable'
      BY <1>1 DEF Enough, Size
    <3>1. Payable
      BY <1>4 DEF Open
    <3>2. failures' + Foul' + Stalls' <= IF missing' >= 2 * Size THEN 2 ELSE packetLoss' + 1
      BY <1>1, <1>2, <2>2, <2>5, <3>1, LossNumbers
    <3>3. Reach' + 2 * Size > 0
      BY <2>1, <3>1 DEF Payable
    <3> QED BY <2>6, <3>2, <3>3 DEF Payable, Size
  <2>8. Due' < Size /\ InTurn(forth)'
    BY <1>4, <2>1, <2>3, LossNumbers DEF Open, InTurn, After, Size
  <2> QED BY <1>1, <1>4, <2>7, <2>8 DEF Open, Size
<1>5. CASE Settled
  BY <1>1, <1>3, <1>5, LossNumbers DEF Settled
<1>6. CASE GivenUp
  BY <1>1, <1>3, <1>6, LossNumbers DEF GivenUp, Enough, Size
<1> QED BY <1>1, <1>4, <1>5, <1>6

(* A packet that does not complete the count only moves there.             *)
LEMMA LossPacketCounts ==
  ASSUME TransferInv, LossInv, Undisturbed, Arrive, ~Completes(Head(forth))
  PROVE  copies' = 0 /\ (Open' \/ Settled' \/ GivenUp')
<1>1. /\ copies' = 0 /\ (Open \/ Settled \/ GivenUp)
      /\ forth # <<>> /\ forth' = Tail(forth) /\ PutPacket(Head(forth))
      /\ UNCHANGED <<sender, receiver, failures, back, packetLoss, missing>>
  BY DEF LossInv, Arrive, link, conditions
<1>2. Head(forth) \in SentPackets /\ Len(forth') = Len(forth) - 1 /\ Len(forth) \in Nat
  BY <1>1, LossNumbers, HeadTailProperties
<1>3. Left' = Left - 1 /\ Left \in Nat
  BY <1>1, <1>2, ArrivalCounts, LossNumbers
<1>4. CASE Open
  <2>1. Due' = Due
    <3>1. Owed' = Owed
      BY <1>1 DEF Owed, Size
    <3> QED BY <1>2, <1>3, <3>1, LossNumbers DEF Due
  <2>2. Reach' = Reach /\ Stalls' = Stalls
    BY <1>1, <2>1, SameStalls DEF Reach
  <2>3. Foul' <= Foul
    BY <1>1, <1>4, ArrivalIsClean DEF Open, Foul
  <2>4. InTurn(forth')
    BY <1>1, <1>4, LossNumbers, TurnOfTail DEF Open
  <2>5. Enough' => Payable'
    <3> SUFFICES ASSUME Enough PROVE Payable'
      BY <1>1 DEF Enough, Size
    <3>1. /\ failures + Foul + Stalls <= IF missing >= 2 * Size THEN 2 ELSE packetLoss + 1
          /\ Rewritten /\ Reach + 2 * Size > 0
      BY <1>4 DEF Open, Payable
    <3>2. Foul \in 0..1 /\ Foul' \in 0..1 /\ Stalls \in 0..2 /\ failures \in Nat /\ packetLoss \in Nat
      BY LossNumbers DEF Foul
    <3>3. failures + Foul' + Stalls <= IF missing >= 2 * Size THEN 2 ELSE packetLoss + 1
      <4>0. /\ Foul \in Int /\ Foul' \in Int /\ Stalls \in Int /\ failures \in Int
            /\ packetLoss + 1 \in Int /\ 2 \in Int
        BY <3>2
      <4>1. CASE missing >= 2 * Size
        <5>1. failures + Foul + Stalls <= 2
          BY <3>1, <4>1
        <5>2. failures + Foul' + Stalls <= 2
          BY <2>3, <5>1, <4>0, LessIsDue
        <5> QED BY <4>1, <5>2
      <4>2. CASE ~(missing >= 2 * Size)
        <5>1. failures + Foul + Stalls <= packetLoss + 1
          BY <3>1, <4>2
        <5>2. failures + Foul' + Stalls <= packetLoss + 1
          BY <2>3, <5>1, <4>0, LessIsDue
        <5> QED BY <4>2, <5>2
      <4> QED BY <4>1, <4>2
    <3>4. Rewritten'
      BY <1>1, <1>4, <3>1, ArrivalRewrites DEF Open
    <3> QED BY <1>1, <2>2, <3>1, <3>3, <3>4 DEF Payable, Size
  <2>6. Due' < Size /\ InTurn(forth)'
    BY <1>4, <2>1, <2>4 DEF Open, InTurn, After, Size
  <2> QED BY <1>1, <1>4, <2>5, <2>6 DEF Open, Size
<1>5. CASE Settled
  BY <1>1, <1>2, <1>3, <1>5 DEF Settled
<1>6. CASE GivenUp
  BY <1>1, <1>2, <1>3, <1>6 DEF GivenUp, Enough, Size
<1> QED BY <1>1, <1>4, <1>5, <1>6

(* A packet that completes it finds the sender waiting for the answer, and *)
(* what is refused was foul.                                               *)
LEMMA LossPacketCompletes ==
  ASSUME TransferInv, LossInv, Undisturbed, ~overrun', Arrive, Completes(Head(forth))
  PROVE  copies' = 0 /\ (Open' \/ Settled' \/ GivenUp')
<1> DEFINE p == Head(forth)
<1>1. /\ copies = 0 /\ (Open \/ Settled \/ GivenUp)
      /\ forth # <<>> /\ forth' = Tail(forth) /\ PutPacket(p) /\ Completes(p)
      /\ UNCHANGED <<sender, packetLoss, missing>>
  BY DEF LossInv, Arrive, link, conditions
<1>2. p \in SentPackets /\ Len(forth') = Len(forth) - 1 /\ Len(forth) \in Nat \ {0}
  BY <1>1, LossNumbers, HeadTailProperties, LenProperties, EmptySeq
<1>3. \/ receiver = "waiting" /\ Judge(p) /\ UNCHANGED copies
      \/ receiver # "waiting" /\ (receiver = "failed" => UNCHANGED copies)
         /\ UNCHANGED <<receiver, failures, back>>
  BY <1>1 DEF Arrive
<1>4. ASSUME Clean, InTurn(forth) PROVE Whole(Stored(p), Sent)
  BY <1>1, <1>4, ArrivalIsClean
<1>5. ~Overruns(p)
  BY <1>1 DEF PutPacket
<1> HIDE DEF p
<1>6. Left = 1 /\ Left' = Size /\ Size \in Nat \ {0} /\ Counted' = 0
  <2>1. Left = 1 /\ Left' = Size /\ Size \in Nat \ {0}
    BY <1>1, <1>2, ArrivalCounts, LossNumbers
  <2> QED BY <2>1 DEF Counted, Size
<1>7. ~Settled
  BY <1>2, <1>6 DEF Settled
<1>8. CASE Open
  <2>1. Owed = 0 /\ Len(forth) <= Size
    <3>1. Len(forth) + Owed - 1 < Size /\ Owed \in {0, Size}
      BY <1>6, <1>8, LossNumbers DEF Open, Due
    <3> QED BY <1>2, <1>6, <3>1
  <2>2. sender = "waiting" /\ back = <<>>
    BY <1>6, <1>8, <2>1 DEF Open, Owed
  <2>3. receiver = "waiting" /\ Judge(p) /\ copies' = 0 /\ sender' = "waiting"
    BY <1>1, <1>3, <1>8, <2>2 DEF Open
  <2>4. CASE \E r \in Records : PassesFor(Stored(p), r) /\ Accept(r)
    <3>1. PICK r \in Records : PassesFor(Stored(p), r) /\ Accept(r)
      BY <2>4
    <3>2. r = Sent
      BY <1>2, <1>5, <3>1, PassesForSent DEF TransferInv
    <3>3. receiver' = Sent /\ back' = <<"ACK">>
      <4>1. "ACK" \in Answers
        BY DEF Answers
      <4> QED BY <2>2, <3>1, <3>2, <4>1, Singleton DEF Accept
    <3>4. Len(forth') < Left'
      BY <1>2, <1>6, <2>1
    <3> QED BY <2>3, <3>3, <3>4 DEF Settled
  <2>5. CASE ~(\E r \in Records : Whole(Stored(p), r)) /\ Fail("DATA_INVALID")
    <3>1. InTurn(forth) /\ ~Clean /\ Foul = 1
      BY <1>4, <1>8, <2>5, SentIsWritten DEF Open, Foul
    <3>2. Foul' = 0
      BY <1>6 DEF Foul, Clean
    <3>3. Foul + Stalls >= 1 /\ Stalls \in 0..2
      BY <3>1, LossNumbers
    <3>4. InTurn(forth')
      BY <1>1, <3>1, LossNumbers, TurnOfTail
    <3>5. ASSUME back' # <<>>
          PROVE  Due' = Due /\ Reach' = Reach /\ Stalls' = Stalls
      <4>1. Due' = Due
        <5>1. Owed' = Size
          BY <3>5 DEF Owed, Size
        <5> QED BY <1>2, <1>6, <2>1, <5>1 DEF Due
      <4>2. Reach' = Reach
        BY <1>1, <4>1 DEF Reach
      <4> QED BY <4>1, <4>2, SameStalls
    <3>6. ASSUME Enough PROVE Rewritten'
      <4>1. ~Patient
        <5> SUFFICES ASSUME Patient PROVE FALSE
          OBVIOUS
        <5>1. Rewritten
          BY <1>8, <3>6 DEF Open, Payable
        <5>2. /\ 0..(Size - 1) \subseteq DOMAIN buffer
              /\ \A i \in 0..(Size - 1) : buffer[i] = Sent
          BY <1>6, <5>1, NextIsNumber, RewrittenIsClean
        <5>3. \A j \in 1..Counted : Before(NextNumber(forth), j) \in 0..(Size - 1)
          <6>1. \A j \in 1..Counted : j \in 1..(Size - 1)
            BY LossNumbers
          <6> QED BY <6>1, NextIsNumber, BeforeIsSlot
        <5>4. Clean
          BY <5>2, <5>3, SizeIsPositive DEF Clean
        <5> QED BY <3>1, <5>4
      <4> QED BY <1>1, <4>1 DEF Rewritten, Patient, Size
    <3>7. "DATA_INVALID" \in Answers
      BY DEF Answers
    <3>8. Enough => Reach + 2 * Size > 0
      BY <1>8 DEF Open, Payable
    <3>9. Due < Size /\ Fail("DATA_INVALID")
      BY <1>8, <2>5 DEF Open
    <3>10. ASSUME Enough, back' # <<>>
           PROVE  /\ Reach' + 2 * Size > 0 /\ Rewritten'
                  /\ Foul' + Stalls' = Foul + Stalls - 1
      BY <3>1, <3>2, <3>3, <3>5, <3>6, <3>8, <3>10
    <3>11. Open' \/ GivenUp'
      BY <1>1, <1>8, <2>2, <3>3, <3>4, <3>5, <3>7, <3>9, <3>10, FailurePays
    <3> QED BY <2>3, <3>11
  <2> QED BY <2>3, <2>4, <2>5 DEF Judge
<1>9. CASE GivenUp
  <2>1. receiver = "failed" /\ (Enough => ReceiveAttempts < 3)
    BY <1>2, <1>6, <1>9 DEF GivenUp
  <2> QED BY <1>1, <1>3, <2>1 DEF GivenUp, Enough, Size
<1> QED BY <1>1, <1>7, <1>8, <1>9

LEMMA LossInit == Init => LossInv
<1> SUFFICES ASSUME Init PROVE LossInv
  OBVIOUS
<1>1. /\ receiver = "waiting" /\ sender = "ready" /\ failures = 0 /\ packetLoss = 0
      /\ forth = <<>> /\ back = <<>> /\ copies = 0 /\ TransferInv
      /\ missing = IF receiving /\ class = ClassOf[Sent] THEN toReceive - received ELSE 0
  BY TransferInit DEF Init
<1>2. /\ Len(forth) = 0 /\ Len(back) = 0 /\ Owed = Size
      /\ Size \in Nat \ {0} /\ Left \in Nat \ {0} /\ missing \in Nat
  BY <1>1, LossNumbers, EmptySeq DEF Owed
<1>3. Due = Size - Left /\ Reach = Size - Left
  BY <1>1, <1>2 DEF Due, Reach
<1>4. Left = IF missing = 0 THEN Size ELSE missing
  BY <1>1, <1>2 DEF Left
<1>5. InTurn(forth)
  BY <1>1, <1>2 DEF InTurn
<1>6. ASSUME Enough PROVE Payable
  <2>1. Left >= Size => Foul = 0
    BY <1>2 DEF Foul, Clean, Counted
  <2>2. Left < Size => Stalls = 0
    BY <1>2, <1>3 DEF Stalls
  <2>3. Reach + 2 * Size > 0
    BY <1>2, <1>3, <1>4, <1>6 DEF Enough, Size
  <2>4. missing < 2 * Size => Stalls <= 1
    BY <1>2, <1>3, <1>4 DEF Stalls
  <2>5. failures + Foul + Stalls <= IF missing >= 2 * Size THEN 2 ELSE packetLoss + 1
    <3>1. Foul \in 0..1 /\ Stalls \in 0..2
      BY <1>1, LossNumbers
    <3> QED BY <1>1, <1>2, <1>4, <2>1, <2>2, <2>4, <3>1
  <2>6. Rewritten
    <3> SUFFICES ASSUME Patient
                 PROVE  /\ receiving /\ class = ClassOf[Sent] /\ Size <= toReceive
                        /\ \A j \in 1..Size : ~(j <= missing - Left)
      BY DEF Rewritten
    <3>1. missing >= 2 * Size /\ Left = missing
      BY <1>2, <1>4 DEF Patient
    <3>2. receiving /\ class = ClassOf[Sent]
      BY <1>1, <1>2, <3>1
    <3> QED BY <1>1, <1>2, <3>1, <3>2, LeftRange
  <2> QED BY <2>3, <2>5, <2>6 DEF Payable
<1>7. Due < Size
  BY <1>2, <1>3
<1> QED BY <1>1, <1>2, <1>5, <1>6, <1>7 DEF LossInv, Open

LEMMA LossNext ==
  ASSUME TransferInv, FitsInv', SendingIsOwed, LossInv, [Next]_vars
  PROVE  LossInv'
<1> SUFFICES ASSUME Undisturbed' PROVE copies' = 0 /\ (Open' \/ Settled' \/ GivenUp')
  BY DEF LossInv
<1>1. ~LoseAnswer
  BY LossNumbers DEF LoseAnswer, Undisturbed
<1>2. Undisturbed
  <2>1. UNCHANGED <<patient, refuses>> /\ answerLoss' = answerLoss
    BY <1>1 DEF Next, vars, link, conditions, Start, HearAck, HearFailure, SenderTimeout,
                Arrive, ReceiverTimeout, LosePacket
  <2>2. packetLoss' \in {packetLoss, packetLoss + 1}
    BY <1>1 DEF Next, vars, link, Start, HearAck, HearFailure, SenderTimeout,
                Arrive, ReceiverTimeout, LosePacket
  <2> QED BY <2>1, <2>2, LossNumbers DEF Undisturbed
<1>3. CASE UNCHANGED vars
  <2>1. UNCHANGED <<reassembly, sender, receiver, failures, forth, back, packetLoss, missing, copies>>
    BY <1>3 DEF vars, link, conditions
  <2>2. Left' = Left /\ Foul' = Foul /\ (Rewritten => Rewritten')
    BY <2>1, SameCount, SameBuffer
  <2>3. Due' = Due /\ Reach' = Reach /\ Stalls' = Stalls
    BY <2>1, <2>2 DEF Due, Owed, Reach, Stalls, Size
  <2>4. Enough' => (Payable => Payable') /\ Enough
    BY <2>1, <2>2, <2>3 DEF Payable, Enough, Size
  <2>5. Open => Open'
    BY <2>1, <2>3, <2>4 DEF Open, InTurn, After, Size
  <2> QED BY <1>2, <2>1, <2>2, <2>5 DEF LossInv, Settled, GivenUp, Enough, Size
<1>4. CASE Arrive
  <2>1. ~overrun'
    BY DEF FitsInv, OneLossStaysInBuffer, Undisturbed
  <2> QED BY <1>2, <1>4, <2>1, LossPacketCounts, LossPacketCompletes
<1>5. CASE LosePacket
  BY <1>2, <1>5, LossLosePacket
<1> QED BY <1>1, <1>2, <1>3, <1>4, <1>5, LossStart, LossHearAck, LossHearFailure,
           LossSenderTimeout, LossReceiverTimeout DEF Next

LEMMA LossIsInvariant == Spec => [](TransferInv /\ LossInv)
  BY LossInit, LossNext, FitsIsInvariant, SendingsAreOwed, PTL DEF Spec

(* Where timers outlast what is under way, one lost packet is repaired,    *)
(* whatever an earlier record left behind, unless so much is missing of it *)
(* that three attempts are spent on that: with three attempts at either    *)
(* end, which is what the code grants at least, neither gives up.          *)
THEOREM OneLossNeverFails ==
  ASSUME SendAttempts >= 3, ReceiveAttempts >= 3
  PROVE  Spec => []OneLossIsRepaired
<1>1. ASSUME TransferInv, LossInv PROVE OneLossIsRepaired
  <2> SUFFICES ASSUME Undisturbed, Enough PROVE sender # "failed" /\ receiver # "failed"
    BY DEF OneLossIsRepaired, Enough, Size
  <2>1. Open \/ Settled
    BY <1>1, LossNumbers DEF LossInv, GivenUp
  <2> QED BY <1>1, <2>1, LossNumbers DEF Open, Settled
<1> QED BY <1>1, LossIsInvariant, PTL

(* And the record is never handed over a second time, whatever the limits  *)
(* and whatever was left behind.                                           *)
THEOREM OneLossMakesNoCopy == Spec => []NoSecondCopy
<1>1. ASSUME TransferInv, LossInv PROVE NoSecondCopy
  BY <1>1 DEF LossInv, NoSecondCopy
<1> QED BY <1>1, LossIsInvariant, PTL
=============================================================================
