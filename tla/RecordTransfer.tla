--------------------------- MODULE RecordTransfer ---------------------------
(***************************************************************************)
(* What the transfer of one record promises.  Each end comes to its own    *)
(* result, and for good; the sender reports success only when the receiver *)
(* has accepted a record.  The converse is not promised: the answer that   *)
(* would tell the sender may be lost.                                      *)
(***************************************************************************)
VARIABLES sender,    \* open, done or failed
          receiver   \* open, failed or accepted

vars == <<sender, receiver>>

Init == sender = "open" /\ receiver = "open"

Accept  == receiver = "open" /\ receiver' = "accepted" /\ UNCHANGED sender
Refuse  == receiver = "open" /\ receiver' = "failed" /\ UNCHANGED sender

Succeed == sender = "open" /\ receiver = "accepted" /\ sender' = "done" /\ UNCHANGED receiver
GiveUp  == sender = "open" /\ sender' = "failed" /\ UNCHANGED receiver

Next == Accept \/ Refuse \/ Succeed \/ GiveUp

Spec == Init /\ [][Next]_vars
=============================================================================
