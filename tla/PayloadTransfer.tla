-------------------------- MODULE PayloadTransfer --------------------------
(***************************************************************************)
(* The transfer of one record: ICommHandler::sendDataProcedure at one end, *)
(* ICommHandler::receiveDataProcedure at the other, a serial link between  *)
(* them that keeps the order but may lose frames, and timers.              *)
(*                                                                         *)
(* The application's own ends (UploadSignalPayload, and the payload        *)
(* reception of ICommAction) follow the same procedures with limits of     *)
(* their own: SendAttempts and ReceiveAttempts are 4 in ICommHandler, 3 in *)
(* the application.                                                        *)
(***************************************************************************)
EXTENDS PayloadReassembly, Sequences, FiniteSets

CONSTANTS
  Sent,             \* the record to be sent
  SendAttempts,     \* how often the sender sends it at most
  ReceiveAttempts,  \* how many failures the receiver stands, plus one
  PacketLosses,     \* bound: packets the link loses
  AnswerLosses      \* bound: answers the link loses

ASSUME TransferAssumption ==
    /\ Sent \in Records
    /\ Records \cap {"waiting", "failed"} = {}
    /\ SendAttempts \in Nat \ {0} /\ ReceiveAttempts \in Nat \ {0}
    /\ PacketLosses \in Nat /\ AnswerLosses \in Nat

VARIABLES
  sender,     \* ready, waiting, done, failed
  sends,      \* how often the record was sent
  receiver,   \* waiting, failed, or the record that was accepted
  failures,   \* retransmissionCounter of the receiver
  forth,      \* packets on their way
  back,       \* answers on their way
  packetLoss, answerLoss,   \* losses so far
  copies,     \* records handed over after one was accepted
  patient,    \* the timers outlast what is under way
  refuses,    \* the interface may refuse a packet
  missing     \* packets that the reception left behind still waits for

(* The circumstances of a transfer: they do not change while it lasts.     *)
conditions == <<patient, refuses, missing>>

link == <<packetLoss, answerLoss, conditions>>
vars == <<reassembly, sender, sends, receiver, failures, forth, back, link, copies>>

(* A dispatcher may still hold what is left of an earlier reception: some  *)
(* packets of one other record, of any class and any length.               *)
Leftover ==
    \E old \in Records \ {Sent} :
      /\ class = ClassOf[old] /\ toReceive = Packets[old]
      /\ received \in 1..(Packets[old] - 1)
      /\ buffer \in [Slots(old) -> {old, Unwritten}]
      /\ LET written == {i \in Slots(old) : buffer[i] = old}
         IN  written # {} /\ Cardinality(written) <= received

Init ==
    /\ \/ /\ receiving = FALSE /\ class = NoClass /\ toReceive = 0
          /\ received = 0 /\ buffer = NoBuffer
       \/ receiving = TRUE /\ Leftover
    /\ overrun = FALSE
    /\ missing = IF receiving /\ class = ClassOf[Sent] THEN toReceive - received ELSE 0
    /\ sender = "ready" /\ sends = 0
    /\ receiver = "waiting" /\ failures = 0
    /\ forth = <<>> /\ back = <<>>
    /\ packetLoss = 0 /\ answerLoss = 0 /\ copies = 0
    /\ patient \in BOOLEAN /\ refuses \in BOOLEAN

AllPackets == [i \in 1..Packets[Sent] |-> Packet(i - 1, Sent)]
-----------------------------------------------------------------------------
(***************************************************************************)
(* The sender.                                                             *)
(***************************************************************************)

(* sendSignalData: the packets go out one by one; nothing the sender reads *)
(* comes in between.                                                       *)
Transmit ==
    /\ forth' = forth \o AllPackets
    /\ sends' = sends + 1
    /\ sender' = "waiting"

(* The interface refuses a packet for longer than the retries last.        *)
TransmitPart ==
    /\ refuses
    /\ \E k \in 0..(Packets[Sent] - 1) :
         forth' = forth \o SubSeq(AllPackets, 1, k)
    /\ sender' = "failed"
    /\ UNCHANGED sends

Start ==
    /\ sender = "ready"
    /\ Transmit \/ TransmitPart
    /\ UNCHANGED <<reassembly, receiver, failures, back, link, copies>>

HearAck_Any ==                  \* mutant: any answer is taken for an ACK
    /\ sender = "waiting" /\ back # <<>>
    /\ back' = Tail(back)
    /\ sender' = "done"
    /\ UNCHANGED <<reassembly, sends, receiver, failures, forth, link, copies>>

HearAck ==
    /\ sender = "waiting" /\ back # <<>> /\ Head(back) = "ACK"
    /\ back' = Tail(back)
    /\ sender' = "done"
    /\ UNCHANGED <<reassembly, sends, receiver, failures, forth, link, copies>>

LastSend_OneLess == sends + 1 >= SendAttempts    \* mutant: one too few

LastSend == sends >= SendAttempts

HearFailure ==
    /\ sender = "waiting" /\ back # <<>> /\ Head(back) # "ACK"
    /\ back' = Tail(back)
    /\ \/ ~LastSend /\ (Transmit \/ TransmitPart)
       \/ LastSend /\ sender' = "failed" /\ UNCHANGED <<sends, forth>>
    /\ UNCHANGED <<reassembly, receiver, failures, link, copies>>

(* waitForAnyCommand times out: the procedure is given up at once.         *)
SenderTimeout ==
    /\ sender = "waiting"
    /\ patient => forth = <<>> /\ back = <<>> /\ receiver # "waiting"
    /\ sender' = "failed"
    /\ UNCHANGED <<reassembly, sends, receiver, failures, forth, back, link, copies>>
-----------------------------------------------------------------------------
(***************************************************************************)
(* The receiver.                                                           *)
(***************************************************************************)

(* isValid: the checksum of the whole record.  It accepts the record whose *)
(* packets fill the buffer; one whose other packets the memory held by     *)
(* chance; and never a mixture.  A buffer may be longer than the record,   *)
(* or end before it.                                                       *)
PassesFor_Mixed(b, r) == \E i \in DOMAIN b : b[i] = r   \* mutant: no checksum

PassesFor(b, r) ==
    /\ \A i \in Slots(r) \cap DOMAIN b : b[i] \in {r, Unwritten}
    /\ \E i \in Slots(r) \cap DOMAIN b : b[i] = r

Whole(b, r) == Slots(r) \subseteq DOMAIN b /\ \A i \in Slots(r) : b[i] = r

Accept_AsksAgain(r) ==          \* mutant: the wrong answer
    /\ receiver' = r
    /\ back' = Append(back, "DATA_INVALID")
    /\ UNCHANGED failures

Accept(r) ==
    /\ receiver' = r
    /\ back' = Append(back, "ACK")
    /\ UNCHANGED failures

(* DATA_INVALID and TIMEOUT count alike.                                   *)
Fail_Uncounted(reason) ==       \* mutant: the failure is not counted
    /\ Len(back) < ReceiveAttempts
    /\ back' = Append(back, reason)
    /\ UNCHANGED <<receiver, failures>>

Fail_Endless(reason) ==         \* mutant: the last failure ends nothing
    /\ IF failures + 1 < ReceiveAttempts
       THEN failures' = failures + 1 /\ back' = Append(back, reason)
       ELSE UNCHANGED <<failures, back>>
    /\ UNCHANGED receiver

Fail(reason) ==
    \/ /\ failures + 1 < ReceiveAttempts
       /\ failures' = failures + 1
       /\ back' = Append(back, reason)
       /\ UNCHANGED receiver
    \/ /\ failures + 1 >= ReceiveAttempts
       /\ receiver' = "failed"
       /\ UNCHANGED <<failures, back>>

(* The record is judged by its checksum only: of the class that is waited  *)
(* for it is, as only the sender's packets complete a record.              *)
Judge(p) ==
    \/ \E r \in Records : PassesFor(Stored(p), r) /\ Accept(r)
    \/ /\ ~\E r \in Records : Whole(Stored(p), r)
       /\ Fail("DATA_INVALID")

(* A packet arrives, whether or not the procedure is still under way.      *)
Arrive ==
    /\ forth # <<>> /\ forth' = Tail(forth)
    /\ PutPacket(Head(forth))
    /\ \/ /\ ~Completes(Head(forth))
          /\ UNCHANGED <<receiver, failures, back, copies>>
       \/ /\ Completes(Head(forth)) /\ receiver = "waiting"
          /\ Judge(Head(forth))
          /\ UNCHANGED copies
       \/ /\ Completes(Head(forth)) /\ receiver # "waiting"
          /\ copies' = IF receiver = "failed" THEN copies ELSE copies + 1
          /\ UNCHANGED <<receiver, failures, back>>
    /\ UNCHANGED <<sender, sends, link>>

ReceiverTimeout ==
    /\ receiver = "waiting"
    /\ patient => sender # "ready" /\ forth = <<>> /\ (sender = "waiting" => back = <<>>)
    /\ Fail("TIMEOUT")
    /\ UNCHANGED <<reassembly, sender, sends, forth, link, copies>>
-----------------------------------------------------------------------------
(***************************************************************************)
(* The link.  A frame with a wrong checksum is a lost frame.               *)
(***************************************************************************)
LosePacket ==
    /\ packetLoss < PacketLosses /\ packetLoss' = packetLoss + 1
    /\ forth # <<>> /\ forth' = Tail(forth)
    /\ UNCHANGED <<reassembly, sender, sends, receiver, failures, back, answerLoss,
                   conditions, copies>>

LoseAnswer ==
    /\ answerLoss < AnswerLosses /\ answerLoss' = answerLoss + 1
    /\ back # <<>> /\ back' = Tail(back)
    /\ UNCHANGED <<reassembly, sender, sends, receiver, failures, forth, packetLoss,
                   conditions, copies>>

Next ==
    \/ Start \/ HearAck \/ HearFailure \/ SenderTimeout
    \/ Arrive \/ ReceiverTimeout
    \/ LosePacket \/ LoseAnswer

Spec == Init /\ [][Next]_vars

(* The sender gets to send, what is on the link arrives, timers fire.      *)
FairSpec ==
    /\ Spec
    /\ WF_vars(Start) /\ WF_vars(HearAck \/ HearFailure) /\ WF_vars(SenderTimeout)
    /\ WF_vars(Arrive) /\ WF_vars(ReceiverTimeout)
-----------------------------------------------------------------------------
(***************************************************************************)
(* Properties.                                                             *)
(***************************************************************************)
Answers == {"ACK", "DATA_INVALID", "TIMEOUT"}

PacketsOf(r) == {Packet(i, r) : i \in Slots(r)}

(* Every variable has its type.                                            *)
TypeOK ==
    /\ receiving \in BOOLEAN
    /\ class \in Classes \cup {NoClass} /\ toReceive \in Nat /\ received \in Nat
    /\ buffer = NoBuffer
         \/ \E r \in Records : buffer \in [Slots(r) -> Records \cup {Unwritten}]
    /\ overrun \in BOOLEAN
    /\ sender \in {"ready", "waiting", "done", "failed"}
    /\ sends \in 0..SendAttempts
    /\ receiver \in {"waiting", "failed"} \cup Records
    /\ failures \in 0..(ReceiveAttempts - 1)
    /\ forth \in Seq(PacketsOf(Sent)) /\ back \in Seq(Answers)
    /\ packetLoss \in 0..PacketLosses /\ answerLoss \in 0..AnswerLosses
    /\ copies \in Nat
    /\ patient \in BOOLEAN /\ refuses \in BOOLEAN /\ missing \in Nat

(* A packet is copied past the end of the buffer (CommDispatcher.cpp:360)  *)
(* only where the reception of a shorter record of the class was left      *)
(* behind, and two packets of this one are lost: as long as one loss is    *)
(* all, each packet falls into the buffer that is there.                   *)
OneLossStaysInBuffer == packetLoss <= 1 => ~overrun

(* Whatever an earlier record left behind, of whatever length, whatever is *)
(* lost and however the timers race: while the packets fall into the       *)
(* buffer, what the receiver accepts is the record that is being sent,     *)
(* though its packets may come from different attempts.                    *)
AcceptedIsSent == overrun \/ receiver \in {"waiting", "failed", Sent}

(* The record is sent again only for a failure the receiver has counted:   *)
(* neither end can drive the other beyond its own limit.                   *)
Complaints == {i \in DOMAIN back : back[i] # "ACK"}

ResendingIsOwed == sends + Cardinality(Complaints) <= failures + 1

(* The sender's result is right whenever it is a success.                  *)
Transfer == INSTANCE RecordTransfer
            WITH sender   <- IF sender \in {"ready", "waiting"} THEN "open" ELSE sender,
                 receiver <- CASE receiver = "waiting" -> "open"
                               [] receiver = "failed"  -> "failed"
                               [] OTHER                -> "accepted"

ImplementsTransfer == Transfer!Spec

(* Both ends come to a result.                                             *)
BothEnd == <>(sender \in {"done", "failed"} /\ receiver # "waiting")

(* With timers that outlast what is under way, a single lost packet is     *)
(* repaired, though it puts the count of packets out of step with the      *)
(* attempts, and though an earlier reception may have left some behind:    *)
(* neither end gives up.  Where a longer record of the class was left      *)
(* behind, the attempts are spent on what is missing of that one: with     *)
(* three attempts, less than three times the record must be.               *)
Undisturbed == patient /\ ~refuses /\ packetLoss <= 1 /\ answerLoss = 0

OneLossIsRepaired ==
    Undisturbed /\ missing < 3 * Packets[Sent] => sender # "failed" /\ receiver # "failed"

(* Nor does a second copy of the record turn up after the procedure, where *)
(* nobody waits for it; this whatever was left behind.                     *)
NoSecondCopy == Undisturbed => copies = 0
=============================================================================
