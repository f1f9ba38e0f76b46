------------------------------- MODULE MCParts -------------------------------
(***************************************************************************)
(* The parts of the client that keep their state to themselves, each run   *)
(* alone: the first state chooses the part, and the variables of the       *)
(* others stay as they begin.                                              *)
(***************************************************************************)
EXTENDS Branches, Parts

MCPlaces == {17, 23, 29}
MCTargets == {7, 60}
MCGrid == {8, 32, 40}

Pairs == {"key", "handle"}
Objects == Pairs \X {1, 2} \cup {<<"action", 1>>, <<"pool", 1>>}
MCClassOf == [o \in Objects |-> o[1]]

VARIABLE part

-----------------------------------------------------------------------------
patchVars == vars

AllParts == {"patches", "request", "settings", "splash", "owners", "arrays", "detours"}

MCInit ==
    /\ part \in AllParts
    /\ Init /\ H!Init /\ F!Init /\ S!Init /\ O!Init /\ A!Init /\ D!Init
    /\ part # "patches" => foreign = {}
    /\ part # "splash" => Head(order) = "splash"

MCNext ==
    /\ UNCHANGED part
    /\ \/ /\ part = "patches" /\ Next
          /\ UNCHANGED <<httpVars, settingsVars, splashVars, ownersVars, arrayVars, detourVars>>
       \/ /\ part = "request" /\ H!Next
          /\ UNCHANGED <<patchVars, settingsVars, splashVars, ownersVars, arrayVars, detourVars>>
       \/ /\ part = "settings" /\ F!Next
          /\ UNCHANGED <<patchVars, httpVars, splashVars, ownersVars, arrayVars, detourVars>>
       \/ /\ part = "splash" /\ S!Next
          /\ UNCHANGED <<patchVars, httpVars, settingsVars, ownersVars, arrayVars, detourVars>>
       \/ /\ part = "owners" /\ O!Next
          /\ UNCHANGED <<patchVars, httpVars, settingsVars, splashVars, arrayVars, detourVars>>
       \/ /\ part = "arrays" /\ A!Next
          /\ UNCHANGED <<patchVars, httpVars, settingsVars, splashVars, ownersVars, detourVars>>
       \/ /\ part = "detours" /\ D!Next
          /\ UNCHANGED <<patchVars, httpVars, settingsVars, splashVars, ownersVars, arrayVars>>

\* What modules Http and Splash assume.
MCSpec ==
    /\ MCInit
    /\ [][MCNext]_<<part, patchVars, httpVars, settingsVars, splashVars, ownersVars, arrayVars, detourVars>>
    /\ WF_httpVars(part = "request" /\ H!Own)
    /\ WF_httpVars(part = "request" /\ H!ProgressThrows)
    /\ WF_splashVars(part = "splash" /\ S!Task)
    /\ \A t \in S!Thread :
          /\ WF_splashVars(part = "splash" /\ S!Closing(t))
          /\ WF_splashVars(part = "splash" /\ S!Leaving(t))
=============================================================================
