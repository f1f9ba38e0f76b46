------------------------------ MODULE MCClient ------------------------------
(* The three owners, the splash screen and one component that waits for    *)
(* nothing, in every order of registration; the game has two threads more  *)
(* than main, which owns both windows.                                     *)
EXTENDS Client

MCPriority == [c \in Component |-> CASE c = "updater" -> 5 [] c = "launcher" -> 3 [] OTHER -> 0]
=============================================================================
