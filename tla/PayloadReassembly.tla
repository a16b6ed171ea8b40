-------------------------- MODULE PayloadReassembly --------------------------
(***************************************************************************)
(* How CommDispatcher puts a signal payload together.  A record is cut by  *)
(* MessagesBuilder into numbered packets of one size, each of which says   *)
(* how many there are: two records of one class need not have the same     *)
(* number (routes, WiFi configurations).  The dispatcher makes a buffer of *)
(* as many packets as the first one says, writes each packet where its     *)
(* number says, but counts packets to decide that the record is complete:  *)
(* it does not ask which ones it has got, nor whether they are of the      *)
(* record it began with.                                                   *)
(*                                                                         *)
(* A packet's contents are abstracted to the record they are part of.      *)
(***************************************************************************)
EXTENDS Naturals

CONSTANTS
  Classes,   \* the classes of records that travel as payload
  Records,   \* the records
  ClassOf,   \* [Records -> Classes], the command that its packets name
  Packets    \* [Records -> the number of its packets]

VARIABLES
  receiving, \* receivingSignalData
  class,     \* receivedSignalData
  toReceive, \* signalDataPacketsToReceive
  received,  \* signalDataPacketsReceived
  buffer,    \* signalDataBuffer, packet by packet; <<>> is NULL
  overrun    \* history: a packet was copied past the end of its buffer

reassembly == <<receiving, class, toReceive, received, buffer, overrun>>

(* What new[] returns: whatever the memory held.                           *)
Unwritten == "unwritten"
NoClass   == "none"
NoBuffer  == <<>>

ASSUME RecordsAssumption ==
    /\ ClassOf \in [Records -> Classes]
    /\ Packets \in [Records -> Nat \ {0}]
ASSUME UnwrittenAssumption == Unwritten \notin Records

Slots(r) == 0..(Packets[r] - 1)

(* Packet number i of record r, as MessagesBuilder::getNext makes it; the  *)
(* command and the number of packets it carries are those of its record.   *)
Packet(i, r) == [number |-> i, record |-> r]

(* reset, but for the frame under way.                                     *)
ResetReassembly ==
    /\ receiving' = FALSE /\ class' = NoClass
    /\ toReceive' = 0 /\ received' = 0
    /\ buffer' = NoBuffer
    /\ UNCHANGED overrun

(* A packet continues the reception under way or begins another.           *)
Continues(p) == receiving /\ class = ClassOf[p.record]

(* initSignalDataPayloadReception, where it is called, and the copy.  What *)
(* a copy past the end of the buffer overwrites is not followed.           *)
Stored(p) ==
    LET before == IF Continues(p) THEN buffer
                  ELSE [i \in Slots(p.record) |-> Unwritten]
    IN  [i \in DOMAIN before |-> IF i = p.number THEN p.record ELSE before[i]]

Overruns(p) == Continues(p) /\ p.number >= toReceive

Count(p) == IF Continues(p) THEN received + 1 ELSE 1

Expected_AsSaid(p) == Packets[p.record]      \* mutant: the last packet's number

Expected(p) == IF Continues(p) THEN toReceive ELSE Packets[p.record]

Completes_OneLate(p) == Count(p) > Expected(p)   \* mutant: one packet too many

Completes(p) == Count(p) = Expected(p)

(* handleSignalDataPayloadReception.  A record that is complete is taken   *)
(* out, and its buffer deleted, by the caller of putChar.                  *)
PutPacket(p) ==
    /\ class' = ClassOf[p.record]
    /\ toReceive' = Expected(p) /\ received' = Count(p)
    /\ receiving' = ~Completes(p)
    /\ buffer' = IF Completes(p) THEN NoBuffer ELSE Stored(p)
    /\ overrun' = (overrun \/ Overruns(p))

(* Any other valid frame ends the reception under way; its buffer stays    *)
(* until the next one begins.                                              *)
AbandonReception ==
    /\ receiving' = FALSE
    /\ UNCHANGED <<class, toReceive, received, buffer, overrun>>

(* A reception under way has a buffer of the number of packets that its    *)
(* first packet said, whatever the others say, has written to it, and has  *)
(* not yet counted that many: the comparison that ends it, for equality    *)
(* only, is never passed by, and no reception is endless.                  *)
ReceptionIsOpen ==
    receiving =>
      /\ class \in Classes /\ toReceive \in Nat
      /\ received \in 1..(toReceive - 1)
      /\ DOMAIN buffer = 0..(toReceive - 1)
      /\ \E i \in DOMAIN buffer : buffer[i] # Unwritten
=============================================================================
