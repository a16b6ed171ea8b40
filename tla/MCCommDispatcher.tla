-------------------------- MODULE MCCommDispatcher --------------------------
(* Two routes, of two and of three packets, and other settings of two.     *)
EXTENDS CommDispatcher

MCRecords == {"brief", "long", "other"}
MCClasses == {"route", "settings"}
MCClassOf == [r \in MCRecords |-> IF r = "other" THEN "settings" ELSE "route"]
MCPackets == [r \in MCRecords |-> IF r = "long" THEN 3 ELSE 2]
=============================================================================
