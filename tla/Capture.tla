------------------------------- MODULE Capture -------------------------------
(***************************************************************************)
(* Phase 8, the capture of compatibility: each workflow reads              *)
(* compatibility.yaml, adds the record of its own configuration under the  *)
(* key system.network.distro.version and writes the file back.  The file   *)
(* belongs to the checkout, which all workflows started from it share, and *)
(* nothing locks it; Ansible's copy replaces it in one step.               *)
(***************************************************************************)
EXTENDS Integers, FiniteSets

CONSTANTS
    Workflows,      \* the workflows of one checkout
    Keys,           \* system.network.distro.version
    Key,            \* Key[w]: w's key; configurations may share one
    MaxCaptures     \* bound on the captures of a behaviour

VARIABLES
    matrix,     \* matrix[k]: the number of the capture on record for k, 0 if none
    exists,     \* compatibility.yaml exists
    pc,         \* pc[w]: what the phase 8 of w does
    base,       \* base[w]: base_matrix_dict
    n,          \* captures so far
    newest      \* newest[k]: the last capture written for k

vars == <<matrix, exists, pc, base, n, newest>>

Empty == [k \in Keys |-> 0]

Init ==
    /\ matrix = Empty
    /\ exists = FALSE
    /\ pc = [w \in Workflows |-> "idle"]
    /\ base = [w \in Workflows |-> Empty]
    /\ n = 0
    /\ newest = Empty

\* The facts of the first physical host, the commit, the user.
Start(w) ==
    /\ pc[w] = "idle"
    /\ pc' = [pc EXCEPT ![w] = "stat"]
    /\ UNCHANGED <<matrix, exists, base, n, newest>>

\* "Check for compatibility matrix": without one, the entries to keep are none.
Check(w) ==
    /\ pc[w] = "stat"
    /\ pc' = [pc EXCEPT ![w] = IF exists THEN "read" ELSE "merge"]
    /\ base' = [base EXCEPT ![w] = Empty]
    /\ UNCHANGED <<matrix, exists, n, newest>>

\* "Read existing compatibility matrix", "Preserve existing compatibility entries".
Read(w) ==
    /\ pc[w] = "read"
    /\ pc' = [pc EXCEPT ![w] = "merge"]
    /\ base' = [base EXCEPT ![w] = matrix]
    /\ UNCHANGED <<matrix, exists, n, newest>>

\* base_matrix_dict | combine(new entry)
Merged(w, r) == [base[w] EXCEPT ![Key[w]] = r]

\* "Write shared compatibility matrix".
Write(w) ==
    /\ pc[w] = "merge"
    /\ n < MaxCaptures
    /\ n' = n + 1
    /\ matrix' = Merged(w, n')
    /\ exists' = TRUE
    /\ pc' = [pc EXCEPT ![w] = "idle"]
    /\ newest' = [newest EXCEPT ![Key[w]] = n']
    /\ UNCHANGED base

\* A task fails or the user interrupts.
Fail(w) ==
    /\ pc[w] # "idle"
    /\ pc' = [pc EXCEPT ![w] = "idle"]
    /\ UNCHANGED <<matrix, exists, base, n, newest>>

Next == \E w \in Workflows : Start(w) \/ Check(w) \/ Read(w) \/ Write(w) \/ Fail(w)

Spec == Init /\ [][Next]_vars

-------------------------------------------------------------------------------
(* Property.                                                               *)

\* "Preserve existing compatibility entries" (tassi_capture_compatibility.yaml:45):
\* writing the record of one key does not lose another's newest.
EntriesPreserved ==
    \A k \in Keys : newest[k] # 0 => matrix[k] # 0

===============================================================================
