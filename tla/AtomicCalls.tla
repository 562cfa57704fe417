----------------------------- MODULE AtomicCalls -----------------------------
(***************************************************************************)
(* What a tool call promises its caller: it takes effect at one moment, or *)
(* it fails and takes no effect.  A call that writes adds one to every key *)
(* of the store; a call that reads answers with a store that was current   *)
(* at some moment between the call and its answer.  Only a power loss      *)
(* takes writes back, the latest before the earlier ones, to a store that  *)
(* was current.  Locks, retries and rollbacks do not exist here; TxnRetry  *)
(* implements it.                                                          *)
(***************************************************************************)
EXTENDS Integers

CONSTANTS Clients, Keys, Nothing

VARIABLES
    store,      \* the value of every key
    recent,     \* the stores that are not on the disk for certain yet, and the last that is
    status,     \* where the call of each client stands
    kind,       \* "read" or "write", per client
    past,       \* the stores that were current since the client's call began
    view        \* the answer of a reading call

vars == <<store, recent, status, kind, past, view>>

Init == /\ store = [k \in Keys |-> 0]
        /\ recent = {store}
        /\ status = [c \in Clients |-> "idle"]
        /\ kind = [c \in Clients |-> "read"]
        /\ past = [c \in Clients |-> {}]
        /\ view = [c \in Clients |-> Nothing]

Call(c, how) == /\ status[c] = "idle"
                /\ status' = [status EXCEPT ![c] = "called"]
                /\ kind' = [kind EXCEPT ![c] = how]
                /\ past' = [past EXCEPT ![c] = {store}]
                /\ UNCHANGED <<store, recent, view>>

Write(c) == /\ status[c] = "called" /\ kind[c] = "write"
            /\ status' = [status EXCEPT ![c] = "written"]
            /\ store' = [k \in Keys |-> store[k] + 1]
            /\ recent' = recent \cup {store'}
            /\ past' = [d \in Clients |-> IF status[d] = "idle" THEN past[d]
                                          ELSE past[d] \cup {store'}]
            /\ UNCHANGED <<kind, view>>

Answer(c) == /\ status[c] = "called" /\ kind[c] = "read"
             /\ status' = [status EXCEPT ![c] = "answered"]
             /\ \E seen \in past[c] : view' = [view EXCEPT ![c] = seen]
             /\ UNCHANGED <<store, recent, kind, past>>

Fail(c) == /\ status[c] = "called"
           /\ status' = [status EXCEPT ![c] = "failed"]
           /\ UNCHANGED <<store, recent, kind, past, view>>

\* The caller hears how its call ended, or dies and never does.
End(c) == /\ status[c] # "idle"
          /\ status' = [status EXCEPT ![c] = "idle"]
          /\ past' = [past EXCEPT ![c] = {}]
          /\ view' = [view EXCEPT ![c] = Nothing]
          /\ UNCHANGED <<store, recent, kind>>

\* What was written is safe from now on.
Sync == recent' = {store} /\ UNCHANGED <<store, status, kind, past, view>>

\* All callers are gone, and with them the writes after some recent store.
Lose == /\ store' \in recent /\ recent' = {store'}
        /\ status' = [c \in Clients |-> "idle"]
        /\ past' = [c \in Clients |-> {}]
        /\ view' = [c \in Clients |-> Nothing]
        /\ UNCHANGED kind

Next == \/ \E c \in Clients : \/ \E how \in {"read", "write"} : Call(c, how)
                              \/ Write(c) \/ Answer(c) \/ Fail(c) \/ End(c)
        \/ Sync \/ Lose

Spec == Init /\ [][Next]_vars
=============================================================================
