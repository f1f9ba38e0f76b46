------------------------------- MODULE Tasks --------------------------------
(***************************************************************************)
(* What a pipeline of the scheduler promises to those who register tasks:  *)
(* the tasks form one list in the order they were registered, a task       *)
(* leaves it only when its handler, being called, asks for it, and nothing *)
(* is called once the pipeline has been shut down.                         *)
(***************************************************************************)
EXTENDS Naturals, Sequences, SequencesExt

CONSTANT Task

VARIABLES
    alive,     \* the registered tasks, oldest first
    calling,   \* the task whose handler runs, as a set of at most one
    shut       \* the pipeline has been shut down

vars == <<alive, calling, shut>>

Init == alive = <<>> /\ calling = {} /\ shut = FALSE

Register(t) == /\ t \notin ToSet(alive)
               /\ alive' = Append(alive, t)
               /\ UNCHANGED <<calling, shut>>

Call(t) == /\ t \in ToSet(alive) /\ calling = {} /\ ~shut
           /\ calling' = {t}
           /\ UNCHANGED <<alive, shut>>

Return(t) == /\ calling = {t}
             /\ calling' = {}
             /\ \/ UNCHANGED alive
                \/ \E k \in DOMAIN alive : alive[k] = t /\ alive' = RemoveAt(alive, k)
             /\ UNCHANGED shut

ShutDown == calling = {} /\ shut' = TRUE /\ UNCHANGED <<alive, calling>>

Next == \/ \E t \in Task : Register(t) \/ Call(t) \/ Return(t)
        \/ ShutDown

Spec == Init /\ [][Next]_vars
=============================================================================
