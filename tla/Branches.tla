------------------------------ MODULE Branches ------------------------------
(***************************************************************************)
(* How a place in the game's code is redirected (common/utils/hook.cpp): a *)
(* call or a jump there holds a signed displacement of 32 bits, so a       *)
(* function that is further away is reached through a trampoline, and      *)
(* trampolines come from blocks that are allocated near the place.         *)
(*                                                                         *)
(* Addresses are numbers.  Everything is scaled: 2^31 is Reach, 64 KiB are *)
(* Granule, the 14 bytes of a trampoline are Slot, the 5 bytes of a branch *)
(* are Width.  Patching happens in post_load, before the game runs, in one *)
(* thread; the lock of memory_container is not modelled.                   *)
(***************************************************************************)
EXTENDS Integers, Sequences

CONSTANTS
    Places,     \* addresses of the game's code that are patched
    Targets,    \* addresses of the functions they are led to
    Grid,       \* the multiples of Granule that VirtualAlloc may hand out
    Reach, Granule, Slot, Width,
    MaxBlocks   \* bound: blocks that are allocated

ASSUME SizesAssumption ==
    /\ {Reach, Granule, Slot, Width} \subseteq Nat \ {0}
    /\ Slot <= Granule
    /\ Reach % Granule = 0
    /\ MaxBlocks \in Nat

\* Code lies in the images of the process, where VirtualAlloc hands out nothing.
ASSUME AddressesAssumption ==
    /\ Places \subseteq Nat
    /\ Targets \subseteq Nat
    /\ Grid \subseteq Nat
    /\ \A g \in Grid : g % Granule = 0
    /\ \A g, h \in Grid : g < h => g + Granule <= h
    /\ \A g \in Grid, t \in Targets : t < g \/ g + Granule <= t

VARIABLES
    blocks,     \* memory_container: the blocks in the order they were allocated
    foreign,    \* multiples of Granule that belong to others
    near,       \* address -> displacement of the branch that is written there
    far,        \* address -> where the trampoline that is written there leads
    wanted,     \* place -> where it was last redirected to
    needless    \* places where an allocation failed with free memory in reach

vars == <<blocks, foreign, near, far, wanted, needless>>

Block == [base : Grid, used : 0 .. Granule]

TypeOK ==
    /\ blocks \in Seq(Block)
    /\ foreign \subseteq Grid
    /\ DOMAIN near \subseteq Places
    /\ \A p \in DOMAIN near : near[p] \in -Reach .. Reach - 1
    /\ \A s \in DOMAIN far : s \in Nat /\ far[s] \in Targets
    /\ DOMAIN wanted = DOMAIN near
    /\ \A p \in DOMAIN wanted : wanted[p] \in Targets
    /\ needless \subseteq Places

Init ==
    /\ blocks = <<>>
    /\ foreign \in SUBSET Grid
    /\ near = <<>>
    /\ far = <<>>
    /\ wanted = <<>>
    /\ needless = {}

-----------------------------------------------------------------------------
(* Distances *)

\* What is left of a distance in the signed field of a branch.
Displacement(pointer, data) ==
    ((data - (pointer + Width) + Reach) % (2 * Reach)) - Reach

IsRelativelyFar(pointer, data) ==
    data - (pointer + Width) # Displacement(pointer, data)

-----------------------------------------------------------------------------
(* Blocks *)

Owned == {blocks[i].base : i \in DOMAIN blocks}

\* mutation: the search begins at the place
FirstAbove(pointer) == (pointer \div Granule) * Granule + Granule

\* The first address that is tried: below all that can be reached, rounded
\* down, plus one step.
FirstCandidate(pointer) == ((pointer - Reach) \div Granule) * Granule + Granule

\* What VirtualAlloc is asked for, in order, until an address is too far; it
\* grants the first that is nobody's.
Candidates(pointer) ==
    {g \in Grid \ (foreign \cup Owned) :
        /\ g >= FirstCandidate(pointer)
        /\ ~IsRelativelyFar(pointer, g)
        /\ \A k \in 0 .. (g - FirstCandidate(pointer)) \div Granule :
              ~IsRelativelyFar(pointer, FirstCandidate(pointer) + k * Granule)}

GetPtr(b) == b.base + b.used

Fits(b, size) == b.used + size <= Granule

\* mutation: any block with room will do
UsableAnywhere(pointer, size) == {i \in DOMAIN blocks : Fits(blocks[i], size)}

Usable(pointer, size) ==
    {i \in DOMAIN blocks :
        ~IsRelativelyFar(pointer, GetPtr(blocks[i])) /\ Fits(blocks[i], size)}

\* get_memory_near: the slot it returns and the blocks that then stand.
Taken(i, size) ==
    [slot |-> GetPtr(blocks[i]),
     blocks |-> [blocks EXCEPT ![i].used = @ + size]]

Fresh(g, size) ==
    [slot |-> g, blocks |-> Append(blocks, [base |-> g, used |-> size])]

Least(S) == {x \in S : \A y \in S : x <= y}

GetMemoryNear(pointer, size) ==
    IF Usable(pointer, size) # {}
    THEN {Taken(i, size) : i \in Least(Usable(pointer, size))}
    ELSE {Fresh(g, size) : g \in Least(Candidates(pointer))}

-----------------------------------------------------------------------------
(* Branches *)

Put(f, x, y) == [z \in DOMAIN f \cup {x} |-> IF z = x THEN y ELSE f[z]]

\* call and jump, for a function within reach.
PatchNear(place, target) ==
    /\ ~IsRelativelyFar(place, target)
    /\ near' = Put(near, place, Displacement(place, target))
    /\ wanted' = Put(wanted, place, target)
    /\ UNCHANGED <<blocks, foreign, far, needless>>

\* The same through a trampoline.
PatchFar(place, target) ==
    /\ IsRelativelyFar(place, target)
    /\ Len(blocks) < MaxBlocks \/ Usable(place, Slot) # {}
    /\ \E got \in GetMemoryNear(place, Slot) :
          /\ blocks' = got.blocks
          /\ near' = Put(near, place, Displacement(place, got.slot))
          /\ far' = Put(far, got.slot, target)
    /\ wanted' = Put(wanted, place, target)
    /\ UNCHANGED <<foreign, needless>>

\* No memory: an exception, before anything is written.
PatchFails(place, target) ==
    /\ IsRelativelyFar(place, target)
    /\ GetMemoryNear(place, Slot) = {}
    /\ needless' =
          IF \E g \in Grid \ (foreign \cup Owned) : ~IsRelativelyFar(place, g)
          THEN needless \cup {place}
          ELSE needless
    /\ UNCHANGED <<blocks, foreign, near, far, wanted>>

\* The rest of the process allocates and frees.
Others ==
    /\ \E g \in Grid \ Owned :
          foreign' = IF g \in foreign THEN foreign \ {g} ELSE foreign \cup {g}
    /\ UNCHANGED <<blocks, near, far, wanted, needless>>

Next ==
    \/ \E place \in Places, target \in Targets :
          \/ PatchNear(place, target)
          \/ PatchFar(place, target)
          \/ PatchFails(place, target)
    \/ Others

Spec == Init /\ [][Next]_vars

-----------------------------------------------------------------------------
(* Properties *)

\* Where the processor gets to from a patched place.
Arrival(place) ==
    LET at == place + Width + near[place]
    IN  IF at \in DOMAIN far THEN far[at] ELSE at

\* However many places are patched, in whatever order and distance, and however
\* often, each leads to the function it was last redirected to: no displacement
\* is cut off, and no trampoline is taken away from one that still needs it
\* (hook.cpp:430-511).
BranchesArrive == \A place \in DOMAIN wanted : Arrival(place) = wanted[place]

\* Trampolines overlap neither each other nor the end of their block, and blocks
\* lie in nobody else's memory (hook.cpp:102-149).
TrampolinesApart ==
    /\ \A s, t \in DOMAIN far : s < t => s + Slot <= t
    /\ \A s \in DOMAIN far :
          \E i \in DOMAIN blocks :
             blocks[i].base <= s /\ s + Slot <= blocks[i].base + Granule
    /\ Owned \cap foreign = {}
    /\ \A i, j \in DOMAIN blocks : i # j => blocks[i].base # blocks[j].base

\* Both: what is patched leads where it should, by trampolines that are its own
\* (hook.cpp:102-149, 430-511).
PatchesHold == BranchesArrive /\ TrampolinesApart

\* "Failed to allocate" (hook.cpp:67) is said only when no free memory is within
\* reach of the place, unless fewer than Width bytes separate the place from the
\* next multiple of Granule: then the first address that is tried is already too
\* far, and ends the search (hook.cpp:24-51).
FailsOnlyWhenFull == \A p \in needless : p % Granule > Granule - Width
=============================================================================
