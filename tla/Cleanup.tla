------------------------------ MODULE Cleanup -------------------------------
(***************************************************************************)
(* What the self-update throws away before it downloads anything:          *)
(* cleanup_directories (client/updater/file_updater.cpp).                  *)
(*                                                                         *)
(* A path is a sequence of names below the folder of the program.  The     *)
(* folder is a set of files and a set of directories.  A removal that      *)
(* fails, as that of a file that is in use, is not modelled.               *)
(***************************************************************************)
EXTENDS Naturals, Sequences, SequencesExt

\* The list of the update server: an answer that is no list names no file.
\* name.starts_with("data") is true of these first names.
CONSTANT DataNames

Below(path, folder) == IsPrefix(folder, path)

\* Removing one after the other is removing all that is to go.
WithoutAll(folder, paths) ==
    [files |-> {f \in folder.files : \A p \in paths : ~Below(f, p)},
     directories |-> {d \in folder.directories : \A p \in paths : ~Below(d, p)}]

Entries(folder) == folder.files \cup folder.directories

\* mutation: the user's files are nothing special
KeptAtRootListed(folder, listed, entry) ==
    \/ entry = <<"data">> /\ entry \in folder.directories
    \/ entry \in listed

KeptAtRoot(folder, listed, entry) ==
    \/ entry \in {<<"user">>, <<"data">>} /\ entry \in folder.directories
    \/ entry \in listed

CleanupRoot(folder, listed) ==
    WithoutAll(folder, {e \in Entries(folder) :
                           Len(e) = 1 /\ ~KeptAtRoot(folder, listed, e)})

Legal(listed) == {l \in listed : Head(l) \in DataNames}

\* is_inside_folder, for a directory: also when it has the name of a listed file.
KeptInData(folder, listed, entry) ==
    \/ entry \in folder.directories /\ \E l \in Legal(listed) : Below(l, entry)
    \/ entry \in folder.files /\ entry \in Legal(listed)

CleanupData(folder, listed) ==
    WithoutAll(folder, {e \in Entries(folder) :
                           /\ Len(e) > 1 /\ Head(e) = "data"
                           /\ ~KeptInData(folder, listed, e)})

CleanupDirectories(folder, listed) ==
    IF listed = {} THEN folder ELSE CleanupData(CleanupRoot(folder, listed), listed)

-----------------------------------------------------------------------------
(* Property *)

\* What a folder is: what is above an entry is a directory.
IsFolder(folder, names) ==
    /\ folder \in [files : SUBSET Seq(names), directories : SUBSET Seq(names)]
    /\ <<>> \notin Entries(folder)
    /\ folder.files \cap folder.directories = {}
    /\ \A e \in Entries(folder) : \A n \in 1 .. Len(e) - 1 : SubSeq(e, 1, n) \in folder.directories

IsList(listed, names) == listed \subseteq Seq(names) /\ <<>> \notin listed

\* Nothing that is wanted goes and nothing else stays: what the user has, what
\* the list names at the root and below data.  The list names nothing elsewhere,
\* or it would be thrown away and fetched again by every start.  Without a list
\* all stays (file_updater.cpp:131-134, 325-411).
SparesWhatItShould(folder, listed) ==
    LET left == CleanupDirectories(folder, listed)
        placed == {l \in listed : Len(l) = 1 \/ Head(l) = "data"}
    IN  /\ listed # {} =>
             left.files = {f \in folder.files :
                             \/ Head(f) = "user" /\ <<"user">> \in folder.directories
                             \/ f \in placed}
        /\ listed = {} => left = folder
        /\ CleanupDirectories(left, listed) = left
=============================================================================
