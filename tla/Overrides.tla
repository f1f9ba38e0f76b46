----------------------------- MODULE Overrides ------------------------------
(***************************************************************************)
(* Which scripts the game compiles: its own, those of the user's data      *)
(* folder and those beside the program, where a later one replaces an      *)
(* earlier one of the same name (client/module/scripting_filesystem.cpp).  *)
(*                                                                         *)
(* A path is a sequence of pieces of text; "/" is the separator, and a     *)
(* name may consist of several pieces, as ends_with sees only characters.  *)
(* Names are alike in case: those of custom scripts are put into lower     *)
(* case (64), and one of the game's own with a capital letter would stay.  *)
(***************************************************************************)
EXTENDS Naturals, Sequences, SequencesExt, Subsequences

Separator == <<"/", "scripts", "/">>

EndsWith(path, suffix) == IsSuffix(suffix, path)

\* Where the separator first stands.
Positions(path) ==
    {i \in 1 .. Len(path) - 2 : SubSeq(path, i, i + 2) = Separator}

FirstPosition(path) == {i \in Positions(path) : \A j \in Positions(path) : i <= j}

\* What a custom script is known by; no script without a folder of scripts has any.
Part(path) == {SubSeq(path, i + 3, Len(path)) : i \in FirstPosition(path)}

RemoveOverridden(base, custom) ==
    Kept(base, {k \in DOMAIN base : \A i \in DOMAIN custom :
                                     \A part \in Part(custom[i]) : ~EndsWith(base[k], part)})

\* Nothing happens for a folder that does not exist or holds no script.
AddScriptsFromFolder(base, custom) ==
    IF custom = <<>> THEN base ELSE RemoveOverridden(base, custom) \o custom

CollectScript(own, appdata, beside) ==
    AddScriptsFromFolder(AddScriptsFromFolder(own, appdata), beside)

-----------------------------------------------------------------------------
(* Property *)

\* Where no folder of scripts lies above them, the game compiles each name once:
\* the script beside the program, else the user's, else the game's own; a name is
\* lost only to one that it ends with, and that one may be shorter by part of a
\* word (scripting_filesystem.cpp:70-123).
LastOneWins(rootA, rootB, own, appdata, beside) ==
    LET InA(name) == rootA \o Separator \o name
        InB(name) == rootB \o Separator \o name
        collected == CollectScript(own, [i \in DOMAIN appdata |-> InA(appdata[i])],
                                   [i \in DOMAIN beside |-> InB(beside[i])])
        Beaten(path, names) == \E name \in names : EndsWith(path, name)
        NoScriptsIn(root) == Positions(Append(root, "/")) = {}
    IN  NoScriptsIn(rootA) /\ NoScriptsIn(rootB) =>
          ToSet(collected) =
             {s \in ToSet(own) : ~Beaten(s, ToSet(appdata) \cup ToSet(beside))}
             \cup {InA(a) : a \in {a \in ToSet(appdata) : ~Beaten(InA(a), ToSet(beside))}}
             \cup {InB(b) : b \in ToSet(beside)}
=============================================================================
