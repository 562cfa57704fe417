---------------------------- MODULE MCWorkItems -----------------------------
(* Two directories and two agents.  Two todos of two priorities that are     *)
(* read; or a blocker and two notes that are read; or a blocker with its    *)
(* three notes; or two blockers that would share a key.                     *)
EXTENDS WorkItems, TLC
CONSTANTS a1, a2, p1, p2, n1, x1
Symmetric == Permutations({a1, a2}) \cup Permutations({p1, p2})
Rows == {[todos |-> 2, blockers |-> 0, notes |-> 0, reads |-> TRUE],
         [todos |-> 0, blockers |-> 1, notes |-> 2, reads |-> TRUE],
         [todos |-> 0, blockers |-> 1, notes |-> 3, reads |-> FALSE],
         [todos |-> 0, blockers |-> 2, notes |-> 2, reads |-> FALSE]}
=============================================================================
