------------------------------ MODULE PhaseChain ------------------------------
(***************************************************************************)
(* What the workflow promises about a configuration's phases, with no      *)
(* Makefile, no timestamps and no infrastructure: phases are completed one *)
(* after the other and undone in the reverse order, so the completed       *)
(* phases are always 0..n for some n.                                      *)
(***************************************************************************)
EXTENDS Integers

CONSTANTS
    Configs,           \* the configurations
    Last               \* the number of the last phase

VARIABLE completed     \* completed[c]: the phases c reports as completed

Init == completed = [c \in Configs |-> {}]

\* One more phase is completed, the first that was missing.
Complete(c, k) ==
    /\ completed[c] = 0 .. k-1
    /\ completed' = [completed EXCEPT ![c] = 0 .. k]

\* The last completed phase is undone.
Undo(c, k) ==
    /\ completed[c] = 0 .. k
    /\ completed' = [completed EXCEPT ![c] = 0 .. k-1]

Next == \E c \in Configs, k \in 0 .. Last : Complete(c, k) \/ Undo(c, k)

Spec == Init /\ [][Next]_completed
===============================================================================
