----------------------------- MODULE RoundRobin -----------------------------
(* What the scheduler promises: tasks are created one after another, then   *)
(* take turns, in the order of their creation, for ever.                    *)
EXTENDS Naturals

CONSTANT MaxTasks   \* Bound on the number of tasks.

VARIABLES
    count,          \* How many tasks there are.
    running         \* The task whose turn it is; 0 while the kernel boots.

Init == count = 0 /\ running = 0

Create ==
    /\ running = 0
    /\ count < MaxTasks
    /\ count' = count + 1
    /\ UNCHANGED running

Start ==
    /\ running = 0
    /\ count > 0
    /\ running' = 1
    /\ UNCHANGED count

Switch ==
    /\ running > 0
    /\ running' = IF running = count THEN 1 ELSE running + 1
    /\ UNCHANGED count

Next == Create \/ Start \/ Switch

Spec == Init /\ [][Next]_<<count, running>>
=============================================================================
