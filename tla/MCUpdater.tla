----------------------------- MODULE MCUpdater ------------------------------
(* The program, three files more, one that is not listed, and two threads. *)
EXTENDS Updater

MCListed == <<"a", "w3m.exe", "b", "c">>
=============================================================================
