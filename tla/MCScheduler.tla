---------------------------- MODULE MCScheduler -----------------------------
(* One task of each kind; the looping one has a delay.                     *)
EXTENDS Scheduler

MCKind     == [t \in Task |-> CASE t = "s" -> "schedule" [] t = "l" -> "loop" [] OTHER -> "once"]
MCInterval == [t \in Task |-> IF t = "l" THEN 2 ELSE 0]
=============================================================================
