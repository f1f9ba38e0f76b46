-------------------------------- MODULE Data --------------------------------
(***************************************************************************)
(* The algorithms that keep no state, each with the inputs it is asked     *)
(* for: how messages become packets and packets messages, addresses,       *)
(* strings, the cleanup of folders, the choice of scripts, and the tools   *)
(* that patches are made with.                                             *)
(***************************************************************************)
EXTENDS Naturals, Sequences

VARIABLE input      \* [of: the property it is for, x: what it is]

\* The input is any of xs, for the property of that name.
From(of, xs) == \E x \in xs : input = [of |-> of, x |-> x]

-----------------------------------------------------------------------------
(* Packets *)

CONSTANTS Base, Item, Messages, Lines, Players

W == INSTANCE Packets

ASSUME SizesAssumption == W!SizesAssumption

ASSUME PacketsAssumption ==
    /\ \A message \in Messages : W!IsMessage(message)
    /\ Lines \subseteq Seq(Nat)
    /\ Players \subseteq Nat

\* Messages arrive whole or not at all, commands are found where they are, and
\* snapshots arrive up to a number of players (byte_buffer.hpp:32-97,
\* manager.cpp:69-97, socket.cpp:85-98).
ArrivesExactly ==
    /\ input.of = "message" => W!WholeOrNotAtAll(input.x)
    /\ input.of = "line" => W!HandsOnExactly(input.x)
    /\ input.of = "players" => W!UpTo46(input.x)

-----------------------------------------------------------------------------
(* Addresses *)

CONSTANTS Words, Known, Numbers, Decimal, Ipv4Text, Endpoints, Somewhere

A == INSTANCE Addresses

ASSUME HostsAssumption == A!HostsAssumption

ASSUME EndpointsAssumption ==
    /\ \A a \in Endpoints :
          /\ A!IsAddress(a)
          /\ a.family = "v4" => a.ip \in DOMAIN Ipv4Text /\ a.port \in Numbers
    /\ \A a \in Somewhere : A!IsAddress(a)

Families == SUBSET {"v4", "v6"} \ {{}}

\* Senders are found again, and texts name addresses (address.cpp:77-99, 159-353).
AddressesHold ==
    /\ input.of = "senders" => A!SendersAreKeys(input.x[1], input.x[2], input.x[3])
    /\ input.of = "named" => A!TextsName(input.x[1], input.x[2])
    /\ input.of = "somewhere" => A!LocalIsPrivate(input.x)

-----------------------------------------------------------------------------
(* Texts *)

CONSTANTS Byte, Wide, Size, Strings, WideNames, Arrays

T == INSTANCE Texts

ASSUME WidthsAssumption == T!WidthsAssumption

ASSUME StringsAssumption ==
    /\ Strings \subseteq Seq(0 .. Wide - 1)
    /\ WideNames \subseteq Seq(0 .. Wide - 1)
    /\ Arrays \subseteq [1 .. Size -> 0 .. Byte - 1]

\* Strings keep what they hold, names arrive (scripting.cpp:104-246,
\* string.cpp:197-281).
NamesSurvive ==
    /\ input.of = "strings" => T!StringsKeep(input.x[1], input.x[2])
    /\ input.of = "names" => T!NamesArrive(input.x[1], input.x[2])

-----------------------------------------------------------------------------
(* Files *)

CONSTANTS DataNames, FileNames, Folders, Lists

C == INSTANCE Cleanup

ASSUME FoldersAssumption ==
    /\ "data" \in DataNames
    /\ \A folder \in Folders : C!IsFolder(folder, FileNames)
    /\ \A list \in Lists : C!IsList(list, FileNames)

\* A file cannot have the name of a directory.
Cleaned == {c \in Folders \X Lists : c[2] \cap c[1].directories = {}}

CONSTANTS Pieces, Roots, Own, Custom

O == INSTANCE Overrides

ASSUME ScriptsAssumption ==
    /\ Roots \subseteq Seq(Pieces)
    /\ Own \subseteq Seq(Seq(Pieces))
    /\ Custom \subseteq Seq(Seq(Pieces))
    /\ {O!Separator[i] : i \in 1 .. 3} \subseteq Pieces

Scripts == [rootA : Roots, rootB : Roots, own : Own, appdata : Custom, beside : Custom]

\* The cleanup before an update spares what it should, and the last script of a
\* name wins (file_updater.cpp:325-411, scripting_filesystem.cpp:70-123).
FilesChosen ==
    /\ input.of = "folder" => C!SparesWhatItShould(input.x[1], input.x[2])
    /\ input.of = "scripts" =>
          O!LastOneWins(input.x.rootA, input.x.rootB, input.x.own, input.x.appdata, input.x.beside)

-----------------------------------------------------------------------------
(* The tools for patches *)

CONSTANTS Radix, Lane, Enough, Searches, Cores

G == INSTANCE Signatures

ASSUME SearchAssumption == G!SearchAssumption

ASSUME SearchesAssumption ==
    /\ \A search \in Searches : G!IsSearch(search)
    /\ Cores \subseteq Nat \ {0}

\* A search finds what a text spells, each place once, and misses only what is at
\* the very end of the image (signature.cpp:12-203).
PatternsFound ==
    input.of = "search" =>
       G!FindsEach(input.x[1].text, input.x[1].tokens, input.x[1].image, input.x[2])

CONSTANTS Machines

X == INSTANCE Stubs

ASSUME MachinesAssumption == \A m \in Machines : X!IsMachine(m)

\* A stub leaves no trace but in xmm0 to xmm5 (hook.cpp:174-254, renderer.cpp:69-76).
GameUnaware == input.of = "stub" => X!Unnoticed(input.x[1], input.x[2], input.x[3])

\* Both: searches find what is there but for the end of the image, and what is
\* patched in is not noticed but in xmm0 to xmm5 (signature.cpp:12-203,
\* hook.cpp:174-254).
ToolsWork == PatternsFound /\ GameUnaware

-----------------------------------------------------------------------------
Init ==
    \/ From("message", Messages)
    \/ From("line", Lines)
    \/ From("players", Players)
    \/ From("senders", Endpoints \X Endpoints \X Endpoints)
    \/ From("named", Endpoints \X Families)
    \/ From("somewhere", Somewhere)
    \/ From("strings", Strings \X Strings)
    \/ From("names", WideNames \X Arrays)
    \/ From("folder", Cleaned)
    \/ From("scripts", Scripts)
    \/ From("search", Searches \X Cores)
    \/ From("stub", Machines \X (SUBSET X!Volatile) \X BOOLEAN)

Next == UNCHANGED input

Spec == Init /\ [][Next]_input
=============================================================================
