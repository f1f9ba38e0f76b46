---------------------------- MODULE MCHandshake -----------------------------
(* "p" has two endpoints, one before and one after a restart. In one run   *)
(* it is alone; in the other "q" is a second instance of the game on p's   *)
(* machine: p's key, and a guid that is not its hash.                      *)
EXTENDS Handshake

MCKeyGuid == [k \in Key |-> "gp"]
MCKeyOf   == [x \in Player |-> "kp"]
MCGuidOf  == [x \in Player |-> IF x = "p" THEN "gp" ELSE "gq"]
MCPorts   == [x \in Player |-> IF x = "p" THEN {"p1", "p2"} ELSE {"q1"}]
=============================================================================
