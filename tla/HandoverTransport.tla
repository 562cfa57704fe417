------------------------- MODULE HandoverTransport -------------------------
(***************************************************************************)
(* What the handover queue promises its two sides, with no consumers, no   *)
(* claims and no clock: a handover that was submitted stays in the queue    *)
(* until it is delivered, buried as a dead letter or erased with its owner,  *)
(* and it counts as delivered only when the consumer's own store has it.     *)
(***************************************************************************)
CONSTANTS
    Ids,            \* the handovers that may ever be submitted
    Agents,         \* who may submit them
    Nobody          \* no agent

VARIABLES
    stage,          \* where each handover is in its life
    from,           \* who submitted each handover that is still kept
    stored          \* the handovers the consumer's store holds

Stages == {"absent", "waiting", "delivered", "dead", "erased"}

Init == /\ stage = [h \in Ids |-> "absent"]
        /\ from = [h \in Ids |-> Nobody]
        /\ stored = {}

\* Every member of S goes to stage to.
Move(S, to) == stage' = [h \in Ids |-> IF h \in S THEN to ELSE stage[h]]

Submit(h, a) == /\ stage[h] = "absent"
                /\ Move({h}, "waiting")
                /\ from' = [from EXCEPT ![h] = a]
                /\ UNCHANGED stored

\* A consumer stores a handover; it may do so late, from a copy it still
\* holds of a handover that was buried or erased in the meantime.
Store(h) == /\ stage[h] # "absent"
            /\ stored' = stored \cup {h}
            /\ UNCHANGED <<stage, from>>

\* A dead letter can still be delivered: the consumer that buried it may hold
\* a copy it managed to store after all.
Deliver(S) == /\ \A h \in S : stage[h] \in {"waiting", "dead"}
              /\ S \subseteq stored
              /\ Move(S, "delivered")
              /\ UNCHANGED <<from, stored>>

Bury(S) == /\ \A h \in S : stage[h] = "waiting"
           /\ Move(S, "dead")
           /\ UNCHANGED <<from, stored>>

\* An agent leaves for good and takes all of its handovers along: the only way
\* a handover ever disappears.
Erase(a) == /\ Move({h \in Ids : from[h] = a}, "erased")
            /\ from' = [h \in Ids |-> IF from[h] = a THEN Nobody ELSE from[h]]
            /\ UNCHANGED stored

Next == \/ \E h \in Ids : Store(h) \/ \E a \in Agents : Submit(h, a)
        \/ \E S \in SUBSET Ids : Deliver(S) \/ Bury(S)
        \/ \E a \in Agents : Erase(a)

Spec == Init /\ [][Next]_<<stage, from, stored>>
=============================================================================
