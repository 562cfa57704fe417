------------------------------ MODULE TxnRetry ------------------------------
(***************************************************************************)
(* The transaction helper every tool call goes through (db.py): a unit of  *)
(* work inside BEGIN IMMEDIATE (writes) or BEGIN DEFERRED (reads), rolled  *)
(* back on an error and retried as a whole on lock contention.  Clients    *)
(* are calls in different server processes on one database file.           *)
(*                                                                         *)
(* SQLite is external: one writer at a time, a write transaction that sees *)
(* the latest commit, a read transaction that sees one WAL snapshot from   *)
(* its first statement on, an open transaction that dies with its          *)
(* connection, and a log that is synced at checkpoints only.  The work     *)
(* is reads of all keys, statement by statement, and for a write one       *)
(* update per key computed from what was read.                             *)
(***************************************************************************)
EXTENDS Integers

CONSTANTS
    Clients,    \* the calls that run at the same time
    Keys,       \* the rows a unit of work touches
    NULL,
    Running,    \* those whose process is not suspended forever
    MaxRetries, \* _TXN_MAX_RETRIES
    MaxCalls,   \* bound: how many calls are made
    MaxFaults   \* bound: how many statements SQLite fails on its own account

ASSUME TxnAssumption ==
    /\ MaxRetries \in Nat \ {0} /\ MaxCalls \in Nat /\ MaxFaults \in Nat
    /\ NULL \notin Clients /\ NULL \notin Nat /\ NULL \notin [Keys -> Nat]
    /\ Keys # {} /\ Running \subseteq Clients

VARIABLES
    store,      \* the committed value of every key
    recent,     \* the stores that were current since the last checkpoint
    writer,     \* the client whose transaction holds the write lock
    open,       \* conn.in_transaction, per client
    snapshot,   \* the store an open transaction reads
    staged,     \* its uncommitted writes
    pc,         \* where each call stands in _run_in_txn
    kind,       \* "write" (run_in_write_txn) or "read" (run_in_read_txn)
    seen,       \* what the unit of work has read so far
    error,      \* the exception being handled
    attempt,    \* the retry loop's counter
    calls, faults,
    past        \* history: the stores that were current since the call began

disk == <<store, recent>>
database == <<disk, writer, open, snapshot, staged>>
vars == <<database, pc, kind, seen, error, attempt,
          calls, faults, past>>

Nothing == [k \in Keys |-> NULL]
Stores == [Keys -> Nat]
Kinds == {"read", "write"}

\* Contention (_is_retryable_lock_error), any other OperationalError, and any
\* other exception of the work: a ValueError, an IntegrityError.
Errors == {"lock", "fatal", "domain"}

Init == /\ store = [k \in Keys |-> 0]
        /\ recent = {store}
        /\ writer = NULL
        /\ open = [c \in Clients |-> FALSE]
        /\ snapshot = [c \in Clients |-> NULL]
        /\ staged = [c \in Clients |-> Nothing]
        /\ pc = [c \in Clients |-> "idle"]
        /\ kind = [c \in Clients |-> "read"]
        /\ seen = [c \in Clients |-> Nothing]
        /\ error = [c \in Clients |-> NULL]
        /\ attempt = [c \in Clients |-> 0]
        /\ calls = 0
        /\ faults = 0
        /\ past = [c \in Clients |-> {}]

\* The transaction of c is over and, unless it committed, without effect.
EndTxn(c) == /\ open' = [open EXCEPT ![c] = FALSE]
             /\ writer' = IF writer = c THEN NULL ELSE writer
             /\ snapshot' = [snapshot EXCEPT ![c] = NULL]
             /\ staged' = [staged EXCEPT ![c] = Nothing]
-----------------------------------------------------------------------------
Invoke(c, how) == /\ pc[c] = "idle"
                  /\ calls < MaxCalls
                  /\ calls' = calls + 1
                  /\ pc' = [pc EXCEPT ![c] = "begin"]
                  /\ kind' = [kind EXCEPT ![c] = how]
                  /\ past' = [past EXCEPT ![c] = {store}]
                  /\ UNCHANGED <<database, seen, error, attempt, faults>>

\* Mutants of Begin: a write that begins without taking the write lock, and a
\* retry that goes on from what the last attempt had read.
BeginDeferred(c) ==
    /\ pc[c] = "begin" /\ ~ open[c]
    /\ open' = [open EXCEPT ![c] = TRUE]
    /\ snapshot' = [snapshot EXCEPT ![c] = IF kind[c] = "write" THEN store ELSE NULL]
    /\ seen' = [seen EXCEPT ![c] = Nothing]
    /\ pc' = [pc EXCEPT ![c] = "work"]
    /\ UNCHANGED <<disk, writer, staged, kind, error, attempt, calls, faults, past>>
BeginKeepingReads(c) ==
    /\ pc[c] = "begin" /\ ~ open[c]
    /\ kind[c] = "write" => writer = NULL
    /\ open' = [open EXCEPT ![c] = TRUE]
    /\ writer' = IF kind[c] = "write" THEN c ELSE writer
    /\ snapshot' = [snapshot EXCEPT ![c] = IF kind[c] = "write" THEN store ELSE NULL]
    /\ pc' = [pc EXCEPT ![c] = "work"]
    /\ UNCHANGED <<disk, staged, kind, seen, error, attempt, calls, faults, past>>

\* BEGIN IMMEDIATE takes the write lock and the latest snapshot, BEGIN DEFERRED
\* nothing yet; the work starts over on what it reads now.
Begin(c) ==
    /\ pc[c] = "begin" /\ ~ open[c]
    /\ kind[c] = "write" => writer = NULL
    /\ open' = [open EXCEPT ![c] = TRUE]
    /\ writer' = IF kind[c] = "write" THEN c ELSE writer
    /\ snapshot' = [snapshot EXCEPT ![c] = IF kind[c] = "write" THEN store ELSE NULL]
    /\ seen' = [seen EXCEPT ![c] = Nothing]
    /\ pc' = [pc EXCEPT ![c] = "work"]
    /\ UNCHANGED <<disk, staged, kind, error, attempt, calls, faults, past>>

\* BEGIN fails: another writer outlasted busy_timeout, or a rollback that failed
\* left the last attempt's transaction open.
BeginFails(c) ==
    /\ pc[c] = "begin"
    /\ \/ open[c] /\ error' = [error EXCEPT ![c] = "fatal"]
       \/ /\ ~ open[c] /\ kind[c] = "write" /\ writer # NULL
          /\ error' = [error EXCEPT ![c] = "lock"]
    /\ pc' = [pc EXCEPT ![c] = "handle"]
    /\ UNCHANGED <<database, kind, seen, attempt, calls, faults, past>>

\* The snapshot a statement of c reads.
Visible(c) == IF snapshot[c] = NULL THEN store ELSE snapshot[c]

ReadKey(c, k) == /\ pc[c] = "work" /\ open[c]
                 /\ seen[c][k] = NULL
                 /\ snapshot' = [snapshot EXCEPT ![c] = Visible(c)]
                 /\ seen' = [seen EXCEPT ![c][k] = Visible(c)[k]]
                 /\ UNCHANGED <<disk, writer, open, staged, pc, kind, error, attempt,
                                calls, faults, past>>

HasRead(c) == \A k \in Keys : seen[c][k] # NULL
HasWritten(c) == \A k \in Keys : staged[c][k] # NULL
WorkDone(c) == HasRead(c) /\ (kind[c] = "write" => HasWritten(c))

WriteKey(c, k) == /\ pc[c] = "work" /\ open[c] /\ kind[c] = "write"
                  /\ HasRead(c)
                  /\ staged[c][k] = NULL
                  /\ staged' = [staged EXCEPT ![c][k] = seen[c][k] + 1]
                  /\ UNCHANGED <<disk, writer, open, snapshot, pc, kind, seen, error,
                                 attempt, calls, faults, past>>

Commit(c) == /\ pc[c] = "work" /\ open[c] /\ WorkDone(c)
             /\ store' = IF kind[c] = "write" THEN staged[c] ELSE store
             /\ recent' = recent \cup {store'}
             /\ past' = [d \in Clients |-> IF pc[d] = "idle" THEN past[d]
                                           ELSE past[d] \cup {store'}]
             /\ EndTxn(c)
             /\ pc' = [pc EXCEPT ![c] = "returned"]
             /\ UNCHANGED <<kind, seen, error, attempt, calls, faults>>

\* A statement of c fails: in the work, or (an OperationalError only) in BEGIN or
\* COMMIT.  SQLite may have rolled the transaction back by itself.
Fault(c) ==
    /\ faults < MaxFaults
    /\ \E e \in Errors :
         /\ error' = [error EXCEPT ![c] = e]
         /\ \/ pc[c] = "work" /\ pc' = [pc EXCEPT ![c] = "unwind"]
            \/ /\ e # "domain" /\ (pc[c] = "begin" \/ (pc[c] = "work" /\ WorkDone(c)))
               /\ pc' = [pc EXCEPT ![c] = "handle"]
    /\ faults' = faults + 1
    /\ EndTxn(c) \/ UNCHANGED <<writer, open, snapshot, staged>>
    /\ UNCHANGED <<disk, kind, seen, attempt, calls, past>>

\* A guarded ROLLBACK; one that fails is suppressed and leaves the transaction open.
Rollback(c) == \/ EndTxn(c) /\ UNCHANGED faults
               \/ /\ open[c] /\ faults < MaxFaults
                  /\ faults' = faults + 1
                  /\ UNCHANGED <<writer, open, snapshot, staged>>

\* The handler around the work: only an OperationalError reaches the retry loop.
Unwind(c) == /\ pc[c] = "unwind"
             /\ Rollback(c)
             /\ pc' = [pc EXCEPT ![c] = IF error[c] = "domain" THEN "raised" ELSE "handle"]
             /\ UNCHANGED <<disk, kind, seen, error, attempt, calls, past>>

\* Mutant of MayRetry: one attempt too many.
MayRetryOnceMore(c) == error[c] = "lock" /\ attempt[c] < MaxRetries

MayRetry(c) == error[c] = "lock" /\ attempt[c] < MaxRetries - 1

\* Mutant of Handle: the retry loop forgets to count.
HandleUncounted(c) ==
    /\ pc[c] = "handle"
    /\ Rollback(c)
    /\ pc' = [pc EXCEPT ![c] = IF MayRetry(c) THEN "begin" ELSE "raised"]
    /\ UNCHANGED <<disk, kind, seen, error, attempt, calls, past>>

\* The handler of the retry loop: back off and start over, or raise.
Handle(c) ==
    /\ pc[c] = "handle"
    /\ Rollback(c)
    /\ IF MayRetry(c)
       THEN /\ pc' = [pc EXCEPT ![c] = "begin"]
            /\ attempt' = [attempt EXCEPT ![c] = @ + 1]
       ELSE /\ pc' = [pc EXCEPT ![c] = "raised"]
            /\ UNCHANGED attempt
    /\ UNCHANGED <<disk, kind, seen, error, calls, past>>

\* The call is over and its connection closed, which drops an open transaction.
Leave(c) == /\ pc' = [pc EXCEPT ![c] = "idle"]
            /\ EndTxn(c)
            /\ seen' = [seen EXCEPT ![c] = Nothing]
            /\ error' = [error EXCEPT ![c] = NULL]
            /\ attempt' = [attempt EXCEPT ![c] = 0]
            /\ past' = [past EXCEPT ![c] = {}]
            /\ UNCHANGED <<disk, kind, calls, faults>>

\* open_connection closes the connection whichever way the call ended.
Close(c) == pc[c] \in {"returned", "raised"} /\ Leave(c)

\* The server process of c dies; the operating system drops its locks.
Crash(c) == pc[c] # "idle" /\ Leave(c)

\* SQLite moves the log into the database file, and syncs both.
Checkpoint == /\ recent # {store}
              /\ recent' = {store}
              /\ UNCHANGED <<store, writer, open, snapshot, staged, pc, kind, seen, error, attempt,
                             calls, faults, past>>

\* The power fails: every call is over, and of what was committed since the last
\* checkpoint (synchronous = NORMAL) some first part is left.
PowerLoss == /\ faults < MaxFaults
             /\ faults' = faults + 1
             /\ store' \in recent /\ recent' = {store'}
             /\ writer' = NULL
             /\ open' = [c \in Clients |-> FALSE]
             /\ snapshot' = [c \in Clients |-> NULL]
             /\ staged' = [c \in Clients |-> Nothing]
             /\ pc' = [c \in Clients |-> "idle"]
             /\ seen' = [c \in Clients |-> Nothing]
             /\ error' = [c \in Clients |-> NULL]
             /\ attempt' = [c \in Clients |-> 0]
             /\ past' = [c \in Clients |-> {}]
             /\ UNCHANGED <<kind, calls>>
-----------------------------------------------------------------------------
\* What the code of a call does by itself.
Step(c) == \/ Begin(c) \/ BeginFails(c) \/ Commit(c) \/ Unwind(c) \/ Handle(c) \/ Close(c)
           \/ \E k \in Keys : ReadKey(c, k) \/ WriteKey(c, k)

Next == \/ \E c \in Clients : \/ \E how \in Kinds : Invoke(c, how)
                              \/ Step(c) \/ Fault(c) \/ Crash(c)
        \/ Checkpoint \/ PowerLoss

Spec == Init /\ [][Next]_vars

FairSpec == Spec /\ \A c \in Running : WF_vars(Step(c))
-----------------------------------------------------------------------------
(* What must hold.                                                         *)

PCs == {"idle", "begin", "work", "unwind", "handle", "returned", "raised"}
Partial == [Keys -> Nat \cup {NULL}]

TypeOK == /\ store \in Stores /\ recent \subseteq Stores
          /\ writer \in Clients \cup {NULL}
          /\ open \in [Clients -> BOOLEAN]
          /\ snapshot \in [Clients -> Stores \cup {NULL}]
          /\ staged \in [Clients -> Partial]
          /\ pc \in [Clients -> PCs]
          /\ kind \in [Clients -> Kinds]
          /\ seen \in [Clients -> Partial]
          /\ error \in [Clients -> Errors \cup {NULL}]
          /\ attempt \in [Clients -> 0 .. MaxRetries - 1]
          /\ calls \in 0 .. MaxCalls
          /\ faults \in 0 .. MaxFaults
          /\ past \in [Clients -> SUBSET Stores]

\* Read under the lock: whatever was rolled back, retried or left open before,
\* the work of a write call computes from the store its commit will replace.
WritersSeeTheLatest ==
    \A c \in Clients : pc[c] = "work" /\ open[c] /\ kind[c] = "write" =>
        \A k \in Keys : /\ seen[c][k] \in {NULL, store[k]}
                        /\ staged[c][k] \in {NULL, store[k] + 1}

\* All statements of one unit of work see one committed store, so that values
\* derived from several queries (the counts of inbox_summary) fit together.
ReadsAreConsistent ==
    \A c \in Clients : pc[c] \in {"work", "returned"} =>
        \E s \in past[c] : \A k \in Keys : seen[c][k] \in {NULL, s[k]}

\* A call returns or raises even if another process is suspended in the middle
\* of a write transaction and never lets go of the write lock.
CallsReturn == \A c \in Running : pc[c] # "idle" ~> pc[c] = "idle"
-----------------------------------------------------------------------------
(* The helper implements atomic calls.                                     *)

StatusOf(c) == CASE pc[c] = "idle" -> "idle"
                 [] pc[c] = "returned" -> IF kind[c] = "write" THEN "written" ELSE "answered"
                 [] pc[c] = "raised" -> "failed"
                 [] OTHER -> "called"

StatusMap == [c \in Clients |-> StatusOf(c)]
ViewMap == [c \in Clients |-> IF StatusOf(c) = "answered" THEN seen[c] ELSE Nothing]

Atomic == INSTANCE AtomicCalls WITH status <- StatusMap, view <- ViewMap

\* A tool call that returns took effect once, at one moment; one that raised
\* took none; one whose process died did one or the other.  No update is lost but
\* the last ones before a power loss, whole and latest first.
ImplementsAtomicCalls == Atomic!Spec
=============================================================================
