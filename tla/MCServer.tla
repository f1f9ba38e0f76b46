------------------------------ MODULE MCServer ------------------------------
(* Two addresses, two keys with a guid each: enough for two addresses to   *)
(* claim one guid, for a guid to change under an entry, and for an address *)
(* to be dropped and to come back with an old answer still under way.      *)
EXTENDS Server

MCKeyGuid == [k \in Key |-> IF k = "ka" THEN "ga" ELSE "gb"]
=============================================================================
