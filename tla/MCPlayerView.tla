---------------------------- MODULE MCPlayerView ----------------------------
(* Endpoints "r1" and "r2" are one player's, before and after a restart;   *)
(* "o1" is another player's.  All three at once are too many states, so a   *)
(* behaviour is of one of two parts: two players who come, go and change    *)
(* places, or one player who returns at another endpoint while the old      *)
(* entry lingers.                                                           *)
EXTENDS PlayerView

CONSTANTS x, y, z

VARIABLE part

MCGuidAt == [a \in Address |-> IF a = "o1" THEN "o" ELSE "r"]
Symmetry == Permutations({x, y})

Changing  == INSTANCE PlayerView WITH Address <- {"o1", "r1"}, State <- {z}
Returning == INSTANCE PlayerView WITH Address <- {"r1", "r2"}, State <- {x, y}

MCInit == Init /\ part \in {"changing", "returning"}

MCNext == /\ UNCHANGED part
          /\ \/ part = "changing" /\ Changing!Next
             \/ part = "returning" /\ Returning!Next

MCSpec == MCInit /\ [][MCNext]_<<vars, part>>
=============================================================================
