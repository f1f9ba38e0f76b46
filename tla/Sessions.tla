------------------------------ MODULE Sessions ------------------------------
(***************************************************************************)
(* What the master server promises, seen from outside: every address is in *)
(* one phase of a session, a session becomes authenticated only after the  *)
(* server has heard a state from it, an authenticated session ends only by *)
(* silence, and a broadcast names exactly the authenticated sessions that  *)
(* have been heard from recently.  Module Server implements it.            *)
(***************************************************************************)
CONSTANT Address

VARIABLES
    phase,   \* "absent", "stray", "pending" or "authenticated"
    fresh,   \* the addresses heard from within the time-out
    told     \* the addresses named by the last step's broadcast

vars == <<phase, fresh, told>>

In(p) == {a \in Address : phase[a] = p}

Init == /\ phase = [a \in Address |-> "absent"]
        /\ fresh = {}
        /\ told = {}

\* A packet that is refused can leave an entry, which counts for nothing.
Stray(a) == /\ phase' = [phase EXCEPT ![a] = IF @ = "absent" THEN "stray" ELSE @]
            /\ told' = {}
            /\ UNCHANGED fresh

\* A state is received: the session starts, or goes on in its phase.
Hear(a) == /\ phase' = [phase EXCEPT ![a] = IF @ = "authenticated" THEN @ ELSE "pending"]
           /\ fresh' = fresh \cup {a}
           /\ told' = {}

\* The challenge is answered, for the first time or again.
Authenticate(a) == /\ phase[a] \in {"pending", "authenticated"}
                   /\ phase' = [phase EXCEPT ![a] = "authenticated"]
                   /\ fresh' = fresh \cup {a}
                   /\ told' = {}

\* The frame: sessions that are not fresh end, the others are broadcast.
Sweep == /\ phase' = [a \in Address |-> IF a \in fresh THEN phase[a] ELSE "absent"]
         /\ told' = {a \in fresh : phase[a] = "authenticated"}
         /\ UNCHANGED fresh

\* Time passes and some sessions stop being fresh.
Fade == /\ fresh' \in SUBSET fresh
        /\ told' = {}
        /\ UNCHANGED phase

Next == \/ \E a \in Address : Stray(a) \/ Hear(a) \/ Authenticate(a)
        \/ Sweep
        \/ Fade

Spec == Init /\ [][Next]_vars
=============================================================================
