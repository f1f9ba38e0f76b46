------------------------------ MODULE Detours -------------------------------
(***************************************************************************)
(* utils::hook::detour (common/utils/hook.cpp): an object that leads a     *)
(* function of the game to one of the client, and gives the place back     *)
(* when it is destroyed.  The library that writes the jump is MinHook,     *)
(* which is external: it keeps one hook for a place, enabled or not.       *)
(*                                                                         *)
(* MinHook's jump has five bytes.  A detour can be moved behind a nop,     *)
(* which takes a sixth that MinHook does not know of.                      *)
(***************************************************************************)
EXTENDS Naturals

CONSTANTS
    Detour,     \* the objects
    Place       \* the places in the game's code

VARIABLES
    place,      \* object -> place_, or None
    moved,      \* object -> moved_data_ is not empty: it is the jump
    hook,       \* place -> what MinHook keeps: None, "disabled" or "enabled"
    code,       \* place -> what stands there
    refused,    \* the objects whose create has failed since they got their place
    harmed      \* history: the places at which a use has broken what stands there

vars == <<place, moved, hook, code, refused, harmed>>

None == "none"

PlaceAssumption == None \notin Place

TypeOK ==
    /\ place \in [Detour -> Place \cup {None}]
    /\ moved \in [Detour -> BOOLEAN]
    /\ hook \in [Place -> {None, "disabled", "enabled"}]
    /\ code \in [Place -> {"game", "jump", "moved", "torn"}]
    /\ refused \subseteq Detour
    /\ harmed \subseteq Place

Init ==
    /\ place = [d \in Detour |-> None]
    /\ moved = [d \in Detour |-> FALSE]
    /\ hook = [p \in Place |-> None]
    /\ code = [p \in Place |-> "game"]
    /\ refused = {}
    /\ harmed = {}

-----------------------------------------------------------------------------
(* MinHook; no place means every place. *)

Meant(d) == IF place[d] = None THEN Place ELSE {place[d]}

Enabled(d) == {p \in Meant(d) : hook[p] = "disabled"}

Disabled(d) == {p \in Meant(d) : hook[p] = "enabled"}

\* Five bytes are put back, behind which a sixth may be left.
Restored(c) == IF c = "moved" THEN "torn" ELSE "game"

-----------------------------------------------------------------------------
(* detour *)

\* What stands at the place when the saved bytes are back.
UnMoved(d, p) == IF moved[d] THEN "jump" ELSE code[p]

\* Three uses break something. A jump is saved and the hook not enabled any more:
\* the jump is put back where the game's code stands.
Rewrites(d) == {p \in {place[d]} : moved[d] /\ hook[p] # "enabled"}

\* A jump that another object has moved is taken back: five of its six bytes.
Tears(d, places) == {p \in places : hook[p] = "enabled" /\ code[p] = "moved" /\ ~moved[d]}

\* The hook that is removed is that of another object at the same place.
Robs(d) == {p \in {place[d]} : \E e \in Detour \ ({d} \cup refused) : place[e] = p}

\* mutation: only MinHook's bytes are given back
ClearMoved(d) ==
    /\ hook' = [p \in Place |-> IF p = place[d] THEN None ELSE hook[p]]
    /\ code' = [p \in Place |->
                   IF p = place[d] /\ hook[p] = "enabled" THEN Restored(code[p]) ELSE code[p]]
    /\ place' = [place EXCEPT ![d] = None]
    /\ moved' = [moved EXCEPT ![d] = FALSE]

\* The saved bytes, MinHook's, and the hook goes, whoever has made it.
Clear(d) ==
    /\ hook' = [p \in Place |-> IF p = place[d] THEN None ELSE hook[p]]
    /\ code' = [p \in Place |->
                   IF p # place[d] THEN code[p]
                   ELSE IF hook[p] = "enabled" THEN Restored(UnMoved(d, p))
                   ELSE UnMoved(d, p)]
    /\ place' = [place EXCEPT ![d] = None]
    /\ moved' = [moved EXCEPT ![d] = FALSE]

\* clear and the destructor
Destroy(d) ==
    /\ place[d] # None
    /\ Clear(d)
    /\ refused' = refused \ {d}
    /\ harmed' = harmed \cup Rewrites(d) \cup Tears(d, {place[d]}) \cup Robs(d)

\* A new hook is enabled at once. What the object had is cleared before.
Create(d, p) ==
    /\ place[d] = None
    /\ hook[p] = None
    /\ place' = [place EXCEPT ![d] = p]
    /\ hook' = [hook EXCEPT ![p] = "enabled"]
    /\ code' = [code EXCEPT ![p] = "jump"]
    /\ UNCHANGED <<moved, refused, harmed>>

\* An exception, for whatever reason MinHook has, that there is a hook already
\* among them: place_ is set, though the object has no hook there.
CreateRefused(d, p) ==
    /\ place[d] = None
    /\ place' = [place EXCEPT ![d] = p]
    /\ refused' = refused \cup {d}
    /\ UNCHANGED <<moved, hook, code, harmed>>

\* move_hook, where a jump stands; anywhere else it throws.
Move(d) ==
    /\ place[d] # None
    /\ code[place[d]] = "jump"
    /\ code' = [code EXCEPT ![place[d]] = "moved"]
    /\ moved' = [moved EXCEPT ![d] = TRUE]
    /\ UNCHANGED <<place, hook, refused, harmed>>

\* If it was moved before, the new jump is moved as well.
Enable(d) ==
    /\ Enabled(d) # {}
    /\ hook' = [p \in Place |-> IF p \in Enabled(d) THEN "enabled" ELSE hook[p]]
    /\ code' = [p \in Place |->
                   IF p \notin Enabled(d) THEN code[p]
                   ELSE IF moved[d] THEN "moved" ELSE "jump"]
    /\ UNCHANGED <<place, moved, refused, harmed>>

\* The saved bytes are kept, and put in place again by the next call.
Disable(d) ==
    /\ hook' = [p \in Place |-> IF p \in Disabled(d) THEN "disabled" ELSE hook[p]]
    /\ code' = [p \in Place |->
                   IF p \in Disabled(d) THEN Restored(UnMoved(d, p))
                   ELSE IF p = place[d] THEN UnMoved(d, p)
                   ELSE code[p]]
    /\ harmed' = harmed \cup (IF place[d] = None THEN {} ELSE Rewrites(d)) \cup Tears(d, Meant(d))
    /\ UNCHANGED <<place, moved, refused>>

\* operator=(detour&&), onto an object that has nothing: clear comes before.
MoveAssign(to, from) ==
    /\ to # from
    /\ place[to] = None
    /\ place' = [place EXCEPT ![to] = place[from], ![from] = None]
    /\ moved' = [moved EXCEPT ![to] = moved[from], ![from] = FALSE]
    /\ refused' = (refused \ {to, from}) \cup {e \in {to} : from \in refused}
    /\ UNCHANGED <<hook, code, harmed>>

Next ==
    \E d \in Detour :
       \/ Destroy(d) \/ Move(d) \/ Enable(d) \/ Disable(d)
       \/ \E p \in Place : Create(d, p) \/ CreateRefused(d, p)
       \/ \E from \in Detour : MoveAssign(d, from)

Spec == Init /\ [][Next]_vars

-----------------------------------------------------------------------------
(* Property *)

\* In every sequence of operations no hook outlives the objects that have its place.
\* And wherever none of the three uses below has come before, the game's code
\* stands, to the last byte, unless a hook is enabled there, and there is a hook as
\* long as the one object whose create made it has the place. What really breaks it,
\* at that place and at no other: to disable or destroy a detour that was moved when
\* it is not enabled, which puts its jump back; to disable or destroy one whose place
\* another has moved, or to disable one that has no place, which means all there are;
\* and to destroy one whose create failed because another's hook was there, which
\* removes that one's (hook.cpp:266-355, 560-588).
PlacesRestored ==
    /\ \A p \in Place : hook[p] # None => \E d \in Detour : place[d] = p
    /\ \A p \in Place \ harmed :
          /\ code[p] = "game" <=> hook[p] # "enabled"
          /\ code[p] # "torn"
          /\ hook[p] # None <=> \E d \in Detour \ refused : place[d] = p
          /\ \A d, e \in Detour \ refused : place[d] = p /\ place[e] = p => d = e
=============================================================================
