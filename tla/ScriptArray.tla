---------------------------- MODULE ScriptArray -----------------------------
(***************************************************************************)
(* scripting::array (client/module/scripting.hpp): the arrays that the     *)
(* client and the game's scripts hand to each other.  Their memory is the  *)
(* game's, and so an array must look as the game made it: a pointer and a  *)
(* length, no capacity.  The elements here are scripting::string, which is *)
(* such an array itself.                                                   *)
(*                                                                         *)
(* A block of memory is a number; 0 is none.  A string is its block.       *)
(***************************************************************************)
EXTENDS Naturals, Sequences, FiniteSets, SequencesExt, FiniteSetsExt

CONSTANTS
    Name,       \* the arrays
    MaxBlock,   \* bound: blocks that are allocated at a time
    MaxLength   \* bound: elements of an array

BlockAssumption == MaxBlock \in Nat /\ MaxLength \in Nat

VARIABLES
    arrays,     \* array -> its block, and the blocks of its strings
    vector,     \* the strings of a std::vector
    live        \* the blocks that are allocated

vars == <<arrays, vector, live>>

String == 0 .. MaxBlock

Empty == [values |-> 0, items |-> <<>>]

TypeOK ==
    /\ arrays \in [Name -> [values : 0 .. MaxBlock, items : Seq(String)]]
    /\ vector \in Seq(String)
    /\ live \subseteq 1 .. MaxBlock

Init ==
    /\ arrays = [a \in Name |-> Empty]
    /\ vector = <<>>
    /\ live = {}

Items(a) == arrays[a].items

Size(a) == Len(Items(a))

\* n blocks that allocate_memory returns, where there are as many.
New(n) ==
    LET free == (1 .. MaxBlock) \ live
    IN  IF Cardinality(free) < n THEN {} ELSE {SetToSeq(CHOOSE S \in kSubset(n, free) : TRUE)}

\* The arguments: strings that the caller has made, or one that is not set.
Argument(new) == {0, new}

\* What is left when these are allocated and those freed; 0 is never freed.
Change(allocated, freed) == live' = ((live \cup allocated) \ freed) \ {0}

-----------------------------------------------------------------------------
(* The operations; one that throws changes nothing *)

PopBack(a) ==
    /\ Size(a) > 0
    /\ arrays' = [arrays EXCEPT ![a].items = Front(@)]
    /\ Change({}, {Last(Items(a))})
    /\ UNCHANGED vector

\* All strings, and the block.
Contents(a) == ToSet(Items(a)) \cup {arrays[a].values}

\* The destructor as well.
Clear(a) ==
    /\ arrays' = [arrays EXCEPT ![a] = Empty]
    /\ Change({}, Contents(a))
    /\ UNCHANGED vector

\* The elements that go are popped one by one; the block stays, the argument goes.
Shrink(a) ==
    /\ \E n \in 0 .. Size(a) :
          /\ arrays' = [arrays EXCEPT ![a].items = SubSeq(@, 1, n)]
          /\ Change({}, ToSet(SubSeq(Items(a), n + 1, Size(a))))
    /\ UNCHANGED vector

\* mutation: the old block is not cleared before it is replaced
GrowForgetting(a) ==
    /\ \E n \in Size(a) + 1 .. MaxLength : \E new \in New(n - Size(a) + 1) :
          \E first \in Argument(new[1]) :
             LET copies == SubSeq(new, 2, n - Size(a))
             IN  /\ arrays' = [arrays EXCEPT ![a] = [values |-> Last(new),
                                                     items |-> @.items \o <<first>> \o copies]]
                 /\ Change({first, Last(new)} \cup ToSet(copies), {})
    /\ UNCHANGED vector

\* resize and push_back: the elements move into a new block, the argument itself
\* is the first of the new ones, and the others are copies of it.
Grow(a) ==
    /\ \E n \in Size(a) + 1 .. MaxLength : \E new \in New(n - Size(a) + 1) :
          \E first \in Argument(new[1]) :
             LET copies == SubSeq(new, 2, n - Size(a))
             IN  /\ arrays' = [arrays EXCEPT ![a] = [values |-> Last(new),
                                                     items |-> @.items \o <<first>> \o copies]]
                 /\ Change({first, Last(new)} \cup ToSet(copies), {arrays[a].values})
    /\ UNCHANGED vector

\* Through a temporary array; also the copy of an empty array has a block, and so
\* has the copy of a string that is not set.
CopyAssign(a, b) ==
    /\ a # b
    /\ \E new \in New(Size(b) + 1) :
          /\ arrays' = [arrays EXCEPT ![a] = [values |-> Last(new), items |-> Front(new)]]
          /\ Change(ToSet(new), Contents(a))
    /\ UNCHANGED vector

\* clear, take, and leave nothing behind.
MoveAssign(a, b) ==
    /\ a # b
    /\ arrays' = [arrays EXCEPT ![a] = arrays[b], ![b] = Empty]
    /\ Change({}, Contents(a))
    /\ UNCHANGED vector

\* at(i) = string
Replace(a) ==
    /\ \E i \in DOMAIN Items(a) : \E new \in New(1) :
          /\ arrays' = [arrays EXCEPT ![a].items[i] = new[1]]
          /\ Change({new[1]}, {Items(a)[i]})
    /\ UNCHANGED vector

\* The strings go over, the block is freed; what the vector held goes.
MoveToVector(a) ==
    /\ vector' = Items(a)
    /\ arrays' = [arrays EXCEPT ![a] = Empty]
    /\ Change({}, {arrays[a].values} \cup ToSet(vector))

ToVector(a) ==
    \E new \in New(Size(a)) :
       /\ vector' = new
       /\ Change(ToSet(new), ToSet(vector))
       /\ UNCHANGED arrays

\* array = std::move(vector)
FromVector(a) ==
    \E new \in New(1) :
       /\ arrays' = [arrays EXCEPT ![a] = [values |-> new[1], items |-> vector]]
       /\ vector' = <<>>
       /\ Change({new[1]}, Contents(a))

Next ==
    \E a \in Name :
       \/ PopBack(a) \/ Clear(a) \/ Shrink(a) \/ Grow(a) \/ Replace(a)
       \/ MoveToVector(a) \/ ToVector(a) \/ FromVector(a)
       \/ \E b \in Name : CopyAssign(a, b) \/ MoveAssign(a, b)

Spec == Init /\ [][Next]_vars

-----------------------------------------------------------------------------
(* Property *)

Once(s) == \A i, j \in DOMAIN s : s[i] = s[j] /\ i # j => s[i] = 0

\* In every sequence of operations each block that the game has given is referred
\* to from exactly one place, and nothing refers to one that was freed: neither
\* array nor string is freed twice, leaked, or shared (scripting.hpp:59-305).
BlocksOwned ==
    /\ \A a \in Name : /\ Once(Items(a))
                       /\ arrays[a].values \in ToSet(Items(a)) => arrays[a].values = 0
    /\ \A a, b \in Name : a # b => Contents(a) \cap Contents(b) \subseteq {0}
    /\ Once(vector)
    /\ \A a \in Name : Contents(a) \cap ToSet(vector) \subseteq {0}
    /\ live = (ToSet(vector) \cup UNION {Contents(a) : a \in Name}) \ {0}
=============================================================================
