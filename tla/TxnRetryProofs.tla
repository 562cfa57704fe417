--------------------------- MODULE TxnRetryProofs ---------------------------
(***************************************************************************)
(* Proofs about TxnRetry for any number of clients, keys, calls, faults    *)
(* and retries: the work of a write sees the store its commit replaces,    *)
(* the statements of one unit of work see one store, and the helper        *)
(* implements atomic calls.                                                *)
(***************************************************************************)
EXTENDS TxnRetry, TLAPS

\* The write lock belongs to exactly the open write transaction, if there is one.
LockInv == /\ writer # NULL => open[writer] /\ kind[writer] = "write"
           /\ \A c \in Clients : open[c] /\ kind[c] = "write" => writer = c

\* What an open transaction is, and that nothing is left of a closed one.
TxnInv(c) == /\ pc[c] = "work" => open[c]
             /\ pc[c] \in {"idle", "returned"} => ~ open[c]
             /\ ~ open[c] => snapshot[c] = NULL /\ staged[c] = Nothing
             /\ open[c] /\ kind[c] = "write" => snapshot[c] = store
             /\ open[c] /\ kind[c] = "read" => staged[c] = Nothing

\* What the call has read and computed comes from its snapshot.
WorkInv(c) == /\ pc[c] # "idle" => store \in past[c]
              /\ snapshot[c] # NULL => snapshot[c] \in past[c]
              /\ pc[c] = "work" /\ snapshot[c] = NULL => seen[c] = Nothing
              /\ pc[c] = "work" /\ snapshot[c] # NULL =>
                    \A k \in Keys : seen[c][k] \in {NULL, snapshot[c][k]}
              /\ pc[c] = "work" =>
                    \A k \in Keys : staged[c][k] \in {NULL, store[k] + 1}
              /\ pc[c] = "returned" => \E s \in past[c] : \A k \in Keys : seen[c][k] \in {NULL, s[k]}

IInv == TypeOK /\ store \in recent /\ LockInv /\ \A c \in Clients : TxnInv(c) /\ WorkInv(c)

LEMMA NothingType == Nothing \in Partial /\ \A k \in Keys : Nothing[k] = NULL
BY DEF Nothing, Partial

(* Initially nobody has begun anything.                                    *)
LEMMA InitInv == Init => IInv
BY TxnAssumption, NothingType DEF Init, IInv, TypeOK, LockInv, TxnInv, WorkInv, Stores, PCs, Kinds, Nothing

LEMMA EndTxnType ==
    ASSUME TypeOK, NEW c \in Clients, EndTxn(c)
    PROVE  /\ open' \in [Clients -> BOOLEAN]
           /\ writer' \in Clients \cup {NULL}
           /\ snapshot' \in [Clients -> Stores \cup {NULL}]
           /\ staged' \in [Clients -> Partial]
BY NothingType DEF TypeOK, EndTxn

(* Type correctness is preserved by every action.                          *)
LEMMA TypeStep == IInv /\ [Next]_vars => TypeOK'
<1> SUFFICES ASSUME IInv, TypeOK, [Next]_vars PROVE TypeOK'
  BY DEF IInv
<1> USE TxnAssumption DEF disk
<1>1. ASSUME NEW c \in Clients, NEW how \in Kinds, Invoke(c, how) PROVE TypeOK'
  BY <1>1 DEF Invoke, TypeOK, database, PCs
<1>2. ASSUME NEW c \in Clients, Begin(c) PROVE TypeOK'
  BY <1>2, NothingType DEF Begin, TypeOK, PCs
<1>3. ASSUME NEW c \in Clients, BeginFails(c) PROVE TypeOK'
  BY <1>3 DEF BeginFails, TypeOK, database, PCs, Errors
<1>4. ASSUME NEW c \in Clients, NEW k \in Keys, ReadKey(c, k) PROVE TypeOK'
  <2>1. Visible(c) \in Stores
    BY DEF Visible, TypeOK
  <2>2. seen' \in [Clients -> Partial] /\ snapshot' \in [Clients -> Stores \cup {NULL}]
    BY <1>4, <2>1 DEF ReadKey, TypeOK, Partial, Stores
  <2> QED
    BY <1>4, <2>2 DEF ReadKey, TypeOK
<1>5. ASSUME NEW c \in Clients, NEW k \in Keys, WriteKey(c, k) PROVE TypeOK'
  <2>1. seen[c][k] + 1 \in Nat
    BY <1>5 DEF WriteKey, HasRead, TypeOK, Partial
  <2>2. staged' \in [Clients -> Partial]
    BY <1>5, <2>1 DEF WriteKey, TypeOK, Partial
  <2> QED
    BY <1>5, <2>2 DEF WriteKey, TypeOK
<1>6. ASSUME NEW c \in Clients, Commit(c) PROVE TypeOK'
  <2>1. store' \in Stores
    BY <1>6 DEF Commit, WorkDone, HasWritten, TypeOK, Partial, Stores
  <2>2. past' \in [Clients -> SUBSET Stores]
    BY <1>6, <2>1 DEF Commit, TypeOK
  <2>3. recent' \subseteq Stores
    BY <1>6, <2>1 DEF Commit, TypeOK
  <2> QED
    BY <1>6, <2>1, <2>2, <2>3, EndTxnType DEF Commit, TypeOK, PCs
<1>7. ASSUME NEW c \in Clients, Fault(c) PROVE TypeOK'
  <2>1. /\ open' \in [Clients -> BOOLEAN] /\ writer' \in Clients \cup {NULL}
        /\ snapshot' \in [Clients -> Stores \cup {NULL}] /\ staged' \in [Clients -> Partial]
    BY <1>7, EndTxnType DEF Fault, TypeOK
  <2>2. error' \in [Clients -> Errors \cup {NULL}] /\ pc' \in [Clients -> PCs]
    BY <1>7 DEF Fault, TypeOK, PCs
  <2>3. faults' \in 0 .. MaxFaults /\ UNCHANGED <<disk, kind, seen, attempt, calls, past>>
    BY <1>7 DEF Fault, TypeOK
  <2> QED
    BY <2>1, <2>2, <2>3 DEF TypeOK
<1>8. ASSUME NEW c \in Clients, Rollback(c)
      PROVE  /\ open' \in [Clients -> BOOLEAN] /\ writer' \in Clients \cup {NULL}
             /\ snapshot' \in [Clients -> Stores \cup {NULL}] /\ staged' \in [Clients -> Partial]
             /\ faults' \in 0 .. MaxFaults
  BY <1>8, EndTxnType DEF Rollback, TypeOK
<1>9. ASSUME NEW c \in Clients, Unwind(c) PROVE TypeOK'
  <2>1. pc' \in [Clients -> PCs]
    BY <1>9 DEF Unwind, TypeOK, PCs
  <2> QED
    BY <1>8, <1>9, <2>1 DEF Unwind, TypeOK
<1>10. ASSUME NEW c \in Clients, Handle(c) PROVE TypeOK'
  <2>1. attempt' \in [Clients -> 0 .. MaxRetries - 1]
    BY <1>10 DEF Handle, MayRetry, TypeOK
  <2> QED
    BY <1>8, <1>10, <2>1 DEF Handle, TypeOK, PCs
<1>11. ASSUME NEW c \in Clients, Leave(c) PROVE TypeOK'
  BY <1>11, EndTxnType, NothingType DEF Leave, TypeOK, PCs
<1>12. CASE Checkpoint
  BY <1>12 DEF Checkpoint, TypeOK
<1>13. CASE PowerLoss
  BY <1>13, NothingType DEF PowerLoss, TypeOK, PCs
<1>14. CASE UNCHANGED vars
  BY <1>14 DEF vars, database, TypeOK
<1> QED
  BY <1>1, <1>2, <1>3, <1>4, <1>5, <1>6, <1>7, <1>9, <1>10, <1>11, <1>12, <1>13, <1>14
     DEF Next, Step, Close, Crash

\* c ends its transaction, or keeps it as it is.
TxnEndsOrStays(c) == EndTxn(c) \/ UNCHANGED <<writer, open, snapshot, staged>>

(* Ending or keeping a transaction leaves the lock with its owner.         *)
LEMMA LockKept ==
    ASSUME TypeOK, LockInv, NEW c \in Clients, TxnEndsOrStays(c), kind' = kind
    PROVE  LockInv'
<1> USE TxnAssumption DEF disk
<1>1. CASE EndTxn(c)
  <2>1. /\ open' = [open EXCEPT ![c] = FALSE]
        /\ writer' = IF writer = c THEN NULL ELSE writer
    BY <1>1 DEF EndTxn
  <2> QED
    BY <2>1 DEF LockInv, TypeOK
<1>2. CASE UNCHANGED <<writer, open, snapshot, staged>>
  BY <1>2 DEF LockInv
<1> QED
  BY <1>1, <1>2 DEF TxnEndsOrStays

(* What is in force now is among what a power loss may leave.              *)
LEMMA RecentStep == IInv /\ [Next]_vars => store' \in recent'
BY DEF IInv, Next, Step, Invoke, Begin, BeginFails, ReadKey, WriteKey, Commit, Fault, Unwind,
       Handle, Leave, Close, Crash, Checkpoint, PowerLoss, vars, database, disk

LEMMA LockStep == IInv /\ [Next]_vars => LockInv'
<1> SUFFICES ASSUME IInv, TypeOK, LockInv, [Next]_vars PROVE LockInv'
  BY DEF IInv
<1> USE TxnAssumption DEF disk
<1>1. ASSUME NEW c \in Clients, NEW how \in Kinds, Invoke(c, how) PROVE LockInv'
  <2>1. ~ open[c]
    BY <1>1 DEF Invoke, IInv, TxnInv
  <2> QED
    BY <1>1, <2>1 DEF Invoke, LockInv, TypeOK, database
<1>2. ASSUME NEW c \in Clients, Begin(c) PROVE LockInv'
  BY <1>2 DEF Begin, LockInv, TypeOK, Kinds
<1>3. ASSUME NEW c \in Clients, BeginFails(c) PROVE LockInv'
  BY <1>3 DEF BeginFails, LockInv, database
<1>4. ASSUME NEW c \in Clients, NEW k \in Keys, ReadKey(c, k) \/ WriteKey(c, k) PROVE LockInv'
  BY <1>4 DEF ReadKey, WriteKey, LockInv
<1>5. ASSUME NEW c \in Clients, Commit(c) \/ Fault(c) \/ Unwind(c) \/ Handle(c) \/ Leave(c)
      PROVE  LockInv'
  <2>1. TxnEndsOrStays(c) /\ kind' = kind
    BY <1>5 DEF Commit, Fault, Unwind, Handle, Leave, Rollback, TxnEndsOrStays
  <2> QED
    BY <2>1, LockKept
<1>6. CASE Checkpoint \/ UNCHANGED vars
  BY <1>6 DEF Checkpoint, vars, database, LockInv
<1>7. CASE PowerLoss
  BY <1>7 DEF PowerLoss, LockInv
<1> QED
  BY <1>1, <1>2, <1>3, <1>4, <1>5, <1>6, <1>7 DEF Next, Step, Close, Crash

\* The step leaves the call of d alone.
Same(d) == /\ pc'[d] = pc[d] /\ open'[d] = open[d] /\ kind'[d] = kind[d]
           /\ snapshot'[d] = snapshot[d] /\ staged'[d] = staged[d] /\ seen'[d] = seen[d]

(* A step of another client keeps the invariants of d, unless it changes   *)
(* the store under a write transaction of d.                               *)
LEMMA OthersKept ==
    ASSUME TypeOK, NEW d \in Clients, TxnInv(d), WorkInv(d), Same(d),
           past[d] \subseteq past'[d],
           pc[d] # "idle" => store' \in past'[d],
           store' = store \/ ~ (open[d] /\ kind[d] = "write")
    PROVE  TxnInv(d)' /\ WorkInv(d)'
<1>1. TxnInv(d)'
  BY DEF TxnInv, Same, TypeOK, Kinds
<1>2. pc[d] = "work" => \A k \in Keys : staged'[d][k] \in {NULL, store'[k] + 1}
  <2>1. CASE store' = store
    BY <2>1 DEF WorkInv, Same
  <2>2. CASE ~ (open[d] /\ kind[d] = "write")
    BY <2>2, NothingType DEF TxnInv, Same, TypeOK, Kinds
  <2> QED
    BY <2>1, <2>2
<1>3. WorkInv(d)'
  BY <1>2 DEF WorkInv, Same
<1> QED
  BY <1>1, <1>3

(* The transaction of c, once it ended or stayed while its work stopped.   *)
LEMMA StoppedKept ==
    ASSUME TypeOK, NEW c \in Clients, TxnInv(c), WorkInv(c), TxnEndsOrStays(c),
           pc'[c] \in PCs \ {"work", "idle", "returned"}, pc[c] # "idle",
           UNCHANGED <<store, kind, seen, past>>
    PROVE  TxnInv(c)' /\ WorkInv(c)'
<1>1. CASE EndTxn(c)
  <2>1. open'[c] = FALSE /\ snapshot'[c] = NULL /\ staged'[c] = Nothing
    BY <1>1 DEF EndTxn, TypeOK
  <2> QED
    BY <2>1 DEF TxnInv, WorkInv
<1>2. CASE UNCHANGED <<writer, open, snapshot, staged>>
  BY <1>2 DEF TxnInv, WorkInv
<1> QED
  BY <1>1, <1>2 DEF TxnEndsOrStays

(* Every action keeps what every call has read, computed and left behind.  *)
LEMMA CallsStep == IInv /\ [Next]_vars => \A d \in Clients : TxnInv(d)' /\ WorkInv(d)'
<1> SUFFICES ASSUME IInv, TypeOK, LockInv, [Next]_vars, NEW d \in Clients,
                    TxnInv(d), WorkInv(d)
             PROVE  TxnInv(d)' /\ WorkInv(d)'
  BY DEF IInv
<1> USE TxnAssumption DEF disk
<1>1. ASSUME NEW c \in Clients, NEW how \in Kinds, Invoke(c, how) PROVE TxnInv(d)' /\ WorkInv(d)'
  <2>1. CASE d = c
    <3>1. /\ pc[c] = "idle" /\ pc'[c] = "begin" /\ past'[c] = {store}
          /\ UNCHANGED <<store, open, snapshot, staged>>
      BY <1>1 DEF Invoke, TypeOK, database
    <3> QED
      BY <2>1, <3>1 DEF TxnInv, WorkInv
  <2>2. CASE d # c
    BY <1>1, <2>2, OthersKept DEF Invoke, Same, TypeOK, database, WorkInv
  <2> QED
    BY <2>1, <2>2
<1>2. ASSUME NEW c \in Clients, Begin(c) PROVE TxnInv(d)' /\ WorkInv(d)'
  <2>1. CASE d = c
    <3>1. /\ pc[c] = "begin" /\ ~ open[c] /\ pc'[c] = "work" /\ open'[c]
          /\ snapshot'[c] = IF kind[c] = "write" THEN store ELSE NULL
          /\ seen'[c] = Nothing
          /\ UNCHANGED <<store, staged, kind, past>>
      BY <1>2 DEF Begin, TypeOK
    <3>2. TxnInv(c)'
      BY <2>1, <3>1 DEF TxnInv
    <3>3. WorkInv(c)'
      BY <2>1, <3>1, NothingType DEF WorkInv, TxnInv
    <3> QED
      BY <2>1, <3>2, <3>3
  <2>2. CASE d # c
    <3>1. Same(d) /\ UNCHANGED <<store, past>>
      BY <1>2, <2>2 DEF Begin, Same, TypeOK
    <3> QED
      BY <3>1, OthersKept DEF WorkInv
  <2> QED
    BY <2>1, <2>2
<1>3. ASSUME NEW c \in Clients, BeginFails(c) PROVE TxnInv(d)' /\ WorkInv(d)'
  <2>1. CASE d = c
    BY <1>3, <2>1, StoppedKept DEF BeginFails, TypeOK, database, TxnEndsOrStays, PCs
  <2>2. CASE d # c
    BY <1>3, <2>2, OthersKept DEF BeginFails, Same, TypeOK, database, WorkInv
  <2> QED
    BY <2>1, <2>2
<1>4. ASSUME NEW c \in Clients, NEW k \in Keys, ReadKey(c, k) PROVE TxnInv(d)' /\ WorkInv(d)'
  <2>1. CASE d = c
    <3>1. /\ pc[c] = "work" /\ open[c]
          /\ snapshot'[c] = Visible(c)
          /\ \A j \in Keys : seen'[c][j] = IF j = k THEN Visible(c)[k] ELSE seen[c][j]
          /\ UNCHANGED <<store, open, staged, pc, kind, past>>
      BY <1>4 DEF ReadKey, TypeOK, Partial
    <3>2. Visible(c) \in Stores /\ Visible(c) # NULL /\ Visible(c) \in past[c]
      BY <2>1, <3>1 DEF Visible, WorkInv, TypeOK, Stores
    <3>3. \A j \in Keys : seen'[c][j] \in {NULL, Visible(c)[j]}
      BY <2>1, <3>1, NothingType DEF Visible, WorkInv
    <3>4. TxnInv(c)'
      BY <2>1, <3>1 DEF TxnInv, Visible, TypeOK
    <3>5. WorkInv(c)'
      BY <2>1, <3>1, <3>2, <3>3 DEF WorkInv
    <3> QED
      BY <2>1, <3>4, <3>5
  <2>2. CASE d # c
    BY <1>4, <2>2, OthersKept DEF ReadKey, Same, TypeOK, WorkInv
  <2> QED
    BY <2>1, <2>2
<1>5. ASSUME NEW c \in Clients, NEW k \in Keys, WriteKey(c, k) PROVE TxnInv(d)' /\ WorkInv(d)'
  <2>1. CASE d = c
    <3>1. /\ pc[c] = "work" /\ open[c] /\ kind[c] = "write" /\ seen[c][k] # NULL
          /\ \A j \in Keys : staged'[c][j] = IF j = k THEN seen[c][k] + 1 ELSE staged[c][j]
          /\ UNCHANGED <<store, open, snapshot, seen, pc, kind, past>>
      BY <1>5 DEF WriteKey, HasRead, TypeOK, Partial
    <3>2. seen[c][k] = store[k]
      BY <2>1, <3>1, NothingType DEF TxnInv, WorkInv, TypeOK, Stores
    <3>3. TxnInv(c)'
      BY <2>1, <3>1 DEF TxnInv
    <3>4. WorkInv(c)'
      BY <2>1, <3>1, <3>2 DEF WorkInv
    <3> QED
      BY <2>1, <3>3, <3>4
  <2>2. CASE d # c
    BY <1>5, <2>2, OthersKept DEF WriteKey, Same, TypeOK, WorkInv
  <2> QED
    BY <2>1, <2>2
<1>6. ASSUME NEW c \in Clients, Commit(c) PROVE TxnInv(d)' /\ WorkInv(d)'
  <2>1. /\ pc[c] = "work" /\ open[c] /\ HasRead(c)
        /\ pc' = [pc EXCEPT ![c] = "returned"]
        /\ past' = [e \in Clients |-> IF pc[e] = "idle" THEN past[e] ELSE past[e] \cup {store'}]
        /\ open' = [open EXCEPT ![c] = FALSE]
        /\ snapshot' = [snapshot EXCEPT ![c] = NULL]
        /\ staged' = [staged EXCEPT ![c] = Nothing]
        /\ UNCHANGED <<kind, seen>>
        /\ kind[c] # "write" => store' = store
    BY <1>6 DEF Commit, EndTxn, WorkDone
  <2>2. CASE d = c
    <3>1. /\ pc'[c] = "returned" /\ ~ open'[c] /\ snapshot'[c] = NULL /\ staged'[c] = Nothing
          /\ past'[c] = past[c] \cup {store'}
      BY <2>1 DEF TypeOK
    <3>2. snapshot[c] # NULL
      BY <2>1, <2>2, NothingType DEF WorkInv, HasRead
    <3>3. snapshot[c] \in past'[c] /\ \A k \in Keys : seen'[c][k] \in {NULL, snapshot[c][k]}
      BY <2>1, <2>2, <3>1, <3>2 DEF WorkInv
    <3>4. TxnInv(c)'
      BY <3>1 DEF TxnInv
    <3>5. WorkInv(c)'
      BY <3>1, <3>3 DEF WorkInv
    <3> QED
      BY <2>2, <3>4, <3>5
  <2>3. CASE d # c
    <3>1. store' = store \/ ~ (open[d] /\ kind[d] = "write")
      BY <2>1, <2>3 DEF LockInv
    <3>2. past[d] \subseteq past'[d] /\ (pc[d] # "idle" => store' \in past'[d])
      BY <2>1
    <3>3. Same(d)
      BY <2>1, <2>3 DEF Same, TypeOK
    <3> QED
      BY <3>1, <3>2, <3>3, OthersKept
  <2> QED
    BY <2>2, <2>3
<1>7. ASSUME NEW c \in Clients, Fault(c) \/ Unwind(c) \/ Handle(c)
      PROVE  TxnInv(d)' /\ WorkInv(d)'
  <2>1. /\ TxnEndsOrStays(c) /\ UNCHANGED <<store, kind, seen, past>> /\ pc[c] # "idle"
        /\ \E p \in PCs \ {"work", "idle", "returned"} : pc' = [pc EXCEPT ![c] = p]
    <3>1. CASE Fault(c)
      BY <3>1 DEF Fault, TxnEndsOrStays, PCs
    <3>2. CASE Unwind(c)
      BY <3>2 DEF Unwind, Rollback, TxnEndsOrStays, PCs
    <3>3. CASE Handle(c)
      BY <3>3 DEF Handle, Rollback, TxnEndsOrStays, PCs
    <3> QED
      BY <1>7, <3>1, <3>2, <3>3
  <2>2. CASE d = c
    BY <2>1, <2>2, StoppedKept DEF TypeOK
  <2>3. CASE d # c
    <3>1. Same(d)
      BY <2>1, <2>3 DEF TxnEndsOrStays, EndTxn, Same, TypeOK
    <3> QED
      BY <2>1, <3>1, OthersKept DEF WorkInv
  <2> QED
    BY <2>2, <2>3
<1>8. ASSUME NEW c \in Clients, Leave(c) PROVE TxnInv(d)' /\ WorkInv(d)'
  <2>1. CASE d = c
    <3>1. pc'[c] = "idle" /\ ~ open'[c] /\ snapshot'[c] = NULL /\ staged'[c] = Nothing
      BY <1>8 DEF Leave, EndTxn, TypeOK
    <3> QED
      BY <2>1, <3>1 DEF TxnInv, WorkInv
  <2>2. CASE d # c
    <3>1. Same(d) /\ past'[d] = past[d] /\ store' = store
      BY <1>8, <2>2 DEF Leave, EndTxn, Same, TypeOK
    <3> QED
      BY <3>1, OthersKept DEF WorkInv
  <2> QED
    BY <2>1, <2>2
<1>9. CASE Checkpoint \/ UNCHANGED vars
  BY <1>9, OthersKept DEF Checkpoint, vars, database, Same, WorkInv
<1>10. CASE PowerLoss
  <2>1. pc'[d] = "idle" /\ ~ open'[d] /\ snapshot'[d] = NULL /\ staged'[d] = Nothing
    BY <1>10 DEF PowerLoss
  <2> QED
    BY <2>1 DEF TxnInv, WorkInv
<1> QED
  BY <1>1, <1>2, <1>3, <1>4, <1>5, <1>6, <1>7, <1>8, <1>9, <1>10 DEF Next, Step, Close, Crash

(* The inductive invariant holds in every reachable state.                 *)
THEOREM TxnInductive == Spec => []IInv
<1>1. IInv /\ [Next]_vars => IInv'
  BY TypeStep, RecentStep, LockStep, CallsStep DEF IInv
<1> QED
  BY InitInv, <1>1, PTL DEF Spec

(* Type correctness: every reachable state of the helper is well-typed.    *)
THEOREM TxnTypeCorrect == Spec => []TypeOK
<1>1. IInv => TypeOK
  BY DEF IInv
<1> QED
  BY TxnInductive, <1>1, PTL

(* Read under the lock: for any number of retrying, failing and dying      *)
(* clients, a write computes from the store its commit will replace.       *)
THEOREM NoStaleWrite == Spec => []WritersSeeTheLatest
<1>1. IInv => WritersSeeTheLatest
  <2> SUFFICES ASSUME IInv, NEW c \in Clients, pc[c] = "work", open[c], kind[c] = "write",
                      NEW k \in Keys
               PROVE  seen[c][k] \in {NULL, store[k]} /\ staged[c][k] \in {NULL, store[k] + 1}
    BY DEF WritersSeeTheLatest
  <2>1. snapshot[c] = store /\ snapshot[c] # NULL
    BY TxnAssumption DEF IInv, TxnInv, TypeOK, Stores
  <2> QED
    BY <2>1 DEF IInv, WorkInv
<1> QED
  BY TxnInductive, <1>1, PTL

(* All statements of one unit of work see one committed store.             *)
THEOREM NoTornRead == Spec => []ReadsAreConsistent
<1>1. IInv => ReadsAreConsistent
  <2> SUFFICES ASSUME IInv, NEW c \in Clients, pc[c] \in {"work", "returned"}
               PROVE  \E s \in past[c] : \A k \in Keys : seen[c][k] \in {NULL, s[k]}
    BY DEF ReadsAreConsistent
  <2>1. WorkInv(c)
    BY DEF IInv
  <2>2. CASE pc[c] = "returned"
    BY <2>1, <2>2 DEF WorkInv
  <2>3. CASE pc[c] = "work" /\ snapshot[c] = NULL
    BY <2>1, <2>3, NothingType DEF WorkInv
  <2>4. CASE pc[c] = "work" /\ snapshot[c] # NULL
    BY <2>1, <2>4 DEF WorkInv
  <2> QED
    BY <2>2, <2>3, <2>4
<1> QED
  BY TxnInductive, <1>1, PTL

(* Every step of the helper is a step of the atomic calls, or invisible.   *)
LEMMA AtomicStep == IInv /\ [Next]_vars => [Atomic!Next]_(Atomic!vars)
<1> SUFFICES ASSUME IInv, TypeOK, LockInv, [Next]_vars PROVE [Atomic!Next]_(Atomic!vars)
  BY DEF IInv
<1> USE TxnAssumption DEF disk
<1> DEFINE Stutter == UNCHANGED <<store, recent, StatusMap, kind, past, ViewMap>>
<1>0. Stutter => UNCHANGED Atomic!vars
  BY DEF Atomic!vars
<1>1. ASSUME NEW c \in Clients, NEW p, pc' = [pc EXCEPT ![c] = p],
             UNCHANGED <<store, recent, kind, past>>,
             pc[c] \in {"begin", "work", "unwind", "handle"},
             p \in {"begin", "work", "unwind", "handle"},
             \A d \in Clients \ {c} : seen'[d] = seen[d]
      PROVE  Stutter
  <2>1. \A d \in Clients : StatusOf(d)' = StatusOf(d)
    BY <1>1 DEF StatusOf, TypeOK
  <2>2. \A d \in Clients : StatusOf(d) = "answered" => seen'[d] = seen[d]
    BY <1>1 DEF StatusOf, TypeOK
  <2>3. StatusMap' = StatusMap
    BY <2>1 DEF StatusMap
  <2>4. ViewMap' = ViewMap
    BY <2>1, <2>2 DEF ViewMap, Nothing
  <2> QED
    BY <1>1, <2>3, <2>4
<1>2. ASSUME NEW c \in Clients, NEW how \in Kinds, Invoke(c, how) PROVE Atomic!Call(c, how)
  <2>1. /\ pc[c] = "idle" /\ pc' = [pc EXCEPT ![c] = "begin"]
        /\ kind' = [kind EXCEPT ![c] = how] /\ past' = [past EXCEPT ![c] = {store}]
        /\ UNCHANGED <<store, recent, seen>>
    BY <1>2 DEF Invoke, database
  <2>2. \A d \in Clients : StatusOf(d)' = IF d = c THEN "called" ELSE StatusOf(d)
    BY <2>1 DEF StatusOf, TypeOK
  <2>3. StatusMap[c] = "idle" /\ StatusMap' = [StatusMap EXCEPT ![c] = "called"]
    BY <2>1, <2>2 DEF StatusMap, StatusOf
  <2>4. StatusOf(c) # "answered"
    BY <2>1 DEF StatusOf
  <2>5. ViewMap' = ViewMap
    BY <2>1, <2>2, <2>4 DEF ViewMap, Nothing
  <2> QED
    BY <2>1, <2>3, <2>5 DEF Atomic!Call
<1>3. ASSUME NEW c \in Clients, Begin(c) PROVE Stutter
  BY <1>1, <1>3 DEF Begin, TypeOK
<1>4. ASSUME NEW c \in Clients, BeginFails(c) PROVE Stutter
  BY <1>1, <1>4 DEF BeginFails, database
<1>5. ASSUME NEW c \in Clients, NEW k \in Keys, ReadKey(c, k) PROVE Stutter
  <2>1. pc' = [pc EXCEPT ![c] = "work"] /\ pc[c] = "work"
    BY <1>5 DEF ReadKey, TypeOK
  <2>2. \A d \in Clients \ {c} : seen'[d] = seen[d]
    BY <1>5 DEF ReadKey, TypeOK
  <2> QED
    BY <1>1, <1>5, <2>1, <2>2 DEF ReadKey
<1>6. ASSUME NEW c \in Clients, NEW k \in Keys, WriteKey(c, k) PROVE Stutter
  <2>1. pc' = [pc EXCEPT ![c] = "work"] /\ pc[c] = "work"
    BY <1>6 DEF WriteKey, TypeOK
  <2> QED
    BY <1>1, <1>6, <2>1 DEF WriteKey
<1>7. ASSUME NEW c \in Clients, Commit(c) PROVE Atomic!Next
  <2>1. /\ pc[c] = "work" /\ open[c] /\ WorkDone(c)
        /\ pc' = [pc EXCEPT ![c] = "returned"]
        /\ store' = IF kind[c] = "write" THEN staged[c] ELSE store
        /\ recent' = recent \cup {store'}
        /\ past' = [d \in Clients |-> IF pc[d] = "idle" THEN past[d] ELSE past[d] \cup {store'}]
        /\ UNCHANGED <<kind, seen>>
    BY <1>7 DEF Commit
  <2>2. TxnInv(c) /\ WorkInv(c)
    BY DEF IInv
  <2>3. \A d \in Clients : StatusOf(d)' = IF d # c THEN StatusOf(d)
                                          ELSE IF kind[c] = "write" THEN "written" ELSE "answered"
    BY <2>1 DEF StatusOf, TypeOK
  <2>4. StatusOf(c) = "called"
    BY <2>1 DEF StatusOf
  <2>5. CASE kind[c] = "write"
    <3>1. \A k \in Keys : staged[c][k] = store[k] + 1
      BY <2>1, <2>2, <2>5 DEF WorkDone, HasWritten, WorkInv
    <3>2. store' = [k \in Keys |-> store[k] + 1]
      BY <2>1, <2>5, <3>1 DEF TypeOK, Partial
    <3>3. StatusMap' = [StatusMap EXCEPT ![c] = "written"] /\ StatusMap[c] = "called"
      BY <2>3, <2>4, <2>5 DEF StatusMap
    <3>4. ViewMap' = ViewMap
      BY <2>1, <2>3, <2>4, <2>5 DEF ViewMap, Nothing
    <3>5. past' = [d \in Clients |-> IF StatusMap[d] = "idle" THEN past[d]
                                     ELSE past[d] \cup {store'}]
      BY <2>1 DEF StatusMap, StatusOf, TypeOK, PCs
    <3>6. Atomic!Write(c)
      BY <2>1, <2>5, <3>2, <3>3, <3>4, <3>5 DEF Atomic!Write
    <3> QED
      BY <3>6 DEF Atomic!Next
  <2>6. CASE kind[c] = "read"
    <3>1. snapshot[c] # NULL /\ \A k \in Keys : seen[c][k] = snapshot[c][k]
      BY <2>1, <2>2, NothingType DEF WorkDone, HasRead, WorkInv
    <3>2. seen[c] = snapshot[c]
      BY <3>1 DEF TypeOK, Partial, Stores
    <3>3. seen[c] \in past[c]
      BY <2>2, <3>1, <3>2 DEF WorkInv
    <3>4. StatusMap' = [StatusMap EXCEPT ![c] = "answered"] /\ StatusMap[c] = "called"
      BY <2>3, <2>4, <2>6 DEF StatusMap
    <3>5. ViewMap' = [ViewMap EXCEPT ![c] = seen[c]]
      BY <2>1, <2>3, <2>6 DEF ViewMap, Nothing
    <3>6. store' = store /\ recent' = recent
      BY <2>1, <2>6 DEF IInv
    <3>7. past' = past
      <4>1. ASSUME NEW d \in Clients PROVE past'[d] = past[d]
        <5>1. pc[d] # "idle" => store \in past[d]
          BY DEF IInv, WorkInv
        <5> QED
          BY <2>1, <3>6, <5>1
      <4> QED
        BY <2>1, <4>1 DEF TypeOK
    <3>8. Atomic!Answer(c)
      BY <2>1, <2>6, <3>3, <3>4, <3>5, <3>6, <3>7 DEF Atomic!Answer
    <3> QED
      BY <3>8 DEF Atomic!Next
  <2> QED
    BY <2>5, <2>6 DEF TypeOK, Kinds
<1>8. ASSUME NEW c \in Clients, Fault(c) PROVE Stutter
  <2>1. /\ pc[c] \in {"begin", "work"}
        /\ \E p \in {"unwind", "handle"} : pc' = [pc EXCEPT ![c] = p]
        /\ UNCHANGED <<store, recent, kind, past, seen>>
    BY <1>8 DEF Fault
  <2> QED
    BY <1>1, <2>1
<1>9. ASSUME NEW c \in Clients, pc[c] \in {"unwind", "handle"},
             pc' = [pc EXCEPT ![c] = "raised"], UNCHANGED <<store, recent, kind, seen, past>>
      PROVE  Atomic!Fail(c)
  <2>1. \A d \in Clients : StatusOf(d)' = IF d = c THEN "failed" ELSE StatusOf(d)
    BY <1>9 DEF StatusOf, TypeOK
  <2>2. StatusOf(c) = "called"
    BY <1>9 DEF StatusOf
  <2>3. StatusMap' = [StatusMap EXCEPT ![c] = "failed"] /\ StatusMap[c] = "called"
    BY <2>1, <2>2 DEF StatusMap
  <2>4. ViewMap' = ViewMap
    BY <1>9, <2>1, <2>2 DEF ViewMap, Nothing
  <2> QED
    BY <1>9, <2>3, <2>4 DEF Atomic!Fail
<1>10. ASSUME NEW c \in Clients, Unwind(c) PROVE Stutter \/ Atomic!Fail(c)
  <2>1. /\ pc[c] = "unwind" /\ UNCHANGED <<store, recent, kind, seen, past>>
        /\ \/ pc' = [pc EXCEPT ![c] = "raised"]
           \/ pc' = [pc EXCEPT ![c] = "handle"]
    BY <1>10 DEF Unwind
  <2> QED
    BY <1>1, <1>9, <2>1
<1>11. ASSUME NEW c \in Clients, Handle(c) PROVE Stutter \/ Atomic!Fail(c)
  <2>1. /\ pc[c] = "handle" /\ UNCHANGED <<store, recent, kind, seen, past>>
        /\ \/ pc' = [pc EXCEPT ![c] = "raised"]
           \/ pc' = [pc EXCEPT ![c] = "begin"]
    BY <1>11 DEF Handle
  <2> QED
    BY <1>1, <1>9, <2>1
<1>12. ASSUME NEW c \in Clients, pc[c] # "idle", Leave(c) PROVE Atomic!End(c)
  <2>1. /\ pc' = [pc EXCEPT ![c] = "idle"] /\ seen' = [seen EXCEPT ![c] = Nothing]
        /\ past' = [past EXCEPT ![c] = {}] /\ UNCHANGED <<store, recent, kind>>
    BY <1>12 DEF Leave
  <2>2. \A d \in Clients : StatusOf(d)' = IF d = c THEN "idle" ELSE StatusOf(d)
    BY <2>1 DEF StatusOf, TypeOK
  <2>3. StatusOf(c) # "idle"
    BY <1>12 DEF StatusOf
  <2>4. StatusMap' = [StatusMap EXCEPT ![c] = "idle"] /\ StatusMap[c] # "idle"
    BY <2>2, <2>3 DEF StatusMap
  <2>5. ViewMap' = [ViewMap EXCEPT ![c] = Nothing]
    BY <2>1, <2>2 DEF ViewMap, Nothing, TypeOK
  <2> QED
    BY <2>1, <2>4, <2>5 DEF Atomic!End
<1>13. CASE UNCHANGED vars
  <2>1. Stutter
    BY <1>13 DEF vars, database, StatusMap, ViewMap, StatusOf
  <2> QED
    BY <1>0, <2>1
<1>14. ASSUME NEW c \in Clients, Step(c) PROVE Atomic!Next \/ Stutter
  <2> USE DEF Atomic!Next
  <2>1. CASE Begin(c) \/ BeginFails(c)
    BY <2>1, <1>3, <1>4
  <2>2. CASE Commit(c)
    BY <2>2, <1>7
  <2>3. CASE Unwind(c) \/ Handle(c)
    BY <2>3, <1>10, <1>11
  <2>4. CASE Close(c)
    <3>1. pc[c] # "idle" /\ Leave(c)
      BY <2>4 DEF Close
    <3> QED
      BY <3>1, <1>12
  <2>5. CASE \E k \in Keys : ReadKey(c, k) \/ WriteKey(c, k)
    BY <2>5, <1>5, <1>6
  <2> QED
    BY <1>14, <2>1, <2>2, <2>3, <2>4, <2>5 DEF Step
<1>15. ASSUME NEW c \in Clients, NEW how \in Kinds, Invoke(c, how) PROVE Atomic!Next
  BY <1>2, <1>15 DEF Atomic!Next, Kinds
<1>16. ASSUME NEW c \in Clients, Crash(c) PROVE Atomic!Next
  BY <1>12, <1>16 DEF Atomic!Next, Crash
<1>17. CASE Checkpoint
  <2>1. UNCHANGED <<StatusMap, ViewMap>>
    BY <1>17 DEF Checkpoint, StatusMap, ViewMap, StatusOf
  <2>2. Atomic!Sync
    BY <1>17, <2>1 DEF Checkpoint, Atomic!Sync
  <2> QED
    BY <2>2 DEF Atomic!Next
<1>18. CASE PowerLoss
  <2>1. \A d \in Clients : StatusOf(d)' = "idle"
    BY <1>18 DEF PowerLoss, StatusOf
  <2>2. /\ StatusMap' = [d \in Clients |-> "idle"]
        /\ ViewMap' = [d \in Clients |-> Nothing]
    BY <2>1 DEF StatusMap, ViewMap, Nothing
  <2>3. Atomic!Lose
    BY <1>18, <2>2 DEF PowerLoss, Atomic!Lose
  <2> QED
    BY <2>3 DEF Atomic!Next
<1>19. CASE Next
  BY <1>8, <1>14, <1>15, <1>16, <1>17, <1>18, <1>19, <1>0 DEF Next
<1> QED
  BY <1>0, <1>13, <1>19

(* A tool call takes effect once, at one moment between its invocation and *)
(* its return, or raises and takes none: the helper implements AtomicCalls *)
(* for any number of clients, keys, faults and retries.                    *)
THEOREM TxnImplementation == Spec => ImplementsAtomicCalls
<1>1. Init => Atomic!Init
  BY DEF Init, Atomic!Init, StatusMap, ViewMap, StatusOf, Nothing
<1> QED
  BY <1>1, TxnInductive, AtomicStep, PTL DEF Spec, ImplementsAtomicCalls, Atomic!Spec
=============================================================================
