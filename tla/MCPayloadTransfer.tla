------------------------- MODULE MCPayloadTransfer -------------------------
(* Five records: the one that is sent; one of its class and its length, a  *)
(* shorter and a longer one, which may have been left behind; and one of   *)
(* another class.                                                          *)
EXTENDS PayloadTransfer

CONSTANTS Length, Short, Long      \* packets of the records

MCRecords == {"new", "old", "brief", "long", "other"}
MCClasses == {"route", "settings"}
MCClassOf == [r \in MCRecords |-> IF r = "other" THEN "settings" ELSE "route"]
MCPackets == [r \in MCRecords |-> CASE r \in {"new", "old"} -> Length
                                    [] r = "brief" -> Short
                                    [] r = "long"  -> Long
                                    [] OTHER       -> Length + 1]
=============================================================================
