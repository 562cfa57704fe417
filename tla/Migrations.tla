----------------------------- MODULE Migrations -----------------------------
(***************************************************************************)
(* The start of the server and the migration runner (__main__.py,          *)
(* startup.py, migrations/__init__.py): processes that start at the same   *)
(* time on one database, each with the migration files of its own release, *)
(* bring the schema up to date, then serve or print one inbox summary.     *)
(*                                                                         *)
(* A migration body is reduced to the number of DDL statements it runs and *)
(* to what the runner checks in it.  SQLite is external: one writer, a     *)
(* connection that closes drops what it has not committed, and the first   *)
(* connections compete for the file to put it in WAL mode.                 *)
(***************************************************************************)
EXTENDS Integers

CONSTANTS
    Procs,          \* the processes: servers and inbox-summary commands
    LastVersion,    \* bound: the highest migration version
    Checksums,      \* the bodies a migration file may have
    NULL,
    BodyOf,         \* what each body holds, one of Bodies
    Releases,       \* the file sets in use: the checksum of each version, or NULL
    Running,        \* the processes that are not suspended forever
    MaxRetries,     \* _MAX_RETRIES
    MaxStarts,      \* bound: how often a process is started
    MaxFaults       \* bound: how many statements SQLite fails on its own account

Versions == 1 .. LastVersion

\* A sound body; one cut short by an unterminated comment; one with a COMMIT in it.
Bodies == {"sound", "truncated", "control"}

Recorded == [Versions -> Checksums \cup {NULL}]

ASSUME MigrationsAssumption ==
    /\ LastVersion \in Nat /\ MaxStarts \in Nat /\ MaxFaults \in Nat
    /\ MaxRetries \in Nat \ {0}
    /\ BodyOf \in [Checksums -> Bodies]
    /\ NULL \notin Checksums \cup Procs
    /\ Releases \subseteq Recorded
    /\ Running \subseteq Procs

VARIABLES
    wal,        \* is the database in WAL mode?
    table,      \* does the migrations table exist?
    rows,       \* the checksum recorded for each version, or NULL
    ran,        \* committed: how many DDL statements of each version have run
    writer,     \* the process whose transaction holds the write lock
    pc,         \* where each process stands in run_migrations
    files,      \* the release it was started with
    applied,    \* what it read of the migrations table before its guards
    todo,       \* the versions its loop has still to look at
    stmts,      \* how many DDL statements its open transaction has run
    attempt,    \* the counter of its current retry loop
    starts, faults

database == <<wal, table, rows, ran, writer>>
vars == <<database, pc, files, applied, todo, stmts, attempt, starts, faults>>

Nothing == [v \in Versions |-> NULL]
Has(record) == {v \in Versions : record[v] # NULL}

\* The statements a body runs: the rest of a truncated one is a comment.
Size(body) == IF body = "truncated" THEN 1 ELSE 2

\* The data directory is created and the database file is empty.
Init == /\ wal = FALSE
        /\ table = FALSE
        /\ rows = Nothing
        /\ ran = [v \in Versions |-> 0]
        /\ writer = NULL
        /\ pc = [p \in Procs |-> "down"]
        /\ files = [p \in Procs |-> Nothing]
        /\ applied = [p \in Procs |-> Nothing]
        /\ todo = [p \in Procs |-> {}]
        /\ stmts = [p \in Procs |-> 0]
        /\ attempt = [p \in Procs |-> 0]
        /\ starts = 0
        /\ faults = 0

Goto(p, where) == pc' = [pc EXCEPT ![p] = where]
ResetAttempts(p) == attempt' = [attempt EXCEPT ![p] = 0]

\* The transaction of p, if it has one, is over.
Unlock(p) == /\ writer' = IF writer = p THEN NULL ELSE writer
             /\ stmts' = [stmts EXCEPT ![p] = 0]
-----------------------------------------------------------------------------
\* init_db in a process that starts with the files of some release.
Start(p) == /\ pc[p] \in {"down", "failed"}
            /\ starts < MaxStarts
            /\ starts' = starts + 1
            /\ \E release \in Releases :
                 /\ files' = [files EXCEPT ![p] = release]
                 /\ Goto(p, IF Has(release) = {} THEN "done" ELSE "bootstrap")
            /\ applied' = [applied EXCEPT ![p] = Nothing]
            /\ todo' = [todo EXCEPT ![p] = {}]
            /\ ResetAttempts(p)
            /\ UNCHANGED <<database, stmts, faults>>

\* configure_connection on a database that is not in WAL mode yet: the first of
\* its pragmas to take a lock is the conversion, which busy_timeout does not cover.
Connect(p) == /\ pc[p] = "bootstrap" /\ ~ wal
              /\ Goto(p, "convert")
              /\ UNCHANGED <<database, files, applied, todo, stmts, attempt, starts, faults>>

Converting == {p \in Procs : pc[p] = "convert"}

\* The mode is WAL, for this and every later connection.
Convert(p) == /\ Converting = {p}
              /\ wal' = TRUE
              /\ Goto(p, "bootstrap")
              /\ UNCHANGED <<table, rows, ran, writer, files, applied, todo, stmts, attempt, starts, faults>>

\* create table if not exists: it needs the write lock only the first time.
Bootstrap(p) == /\ pc[p] = "bootstrap" /\ wal
                /\ table \/ writer = NULL
                /\ table' = TRUE
                /\ Goto(p, "read")
                /\ ResetAttempts(p)
                /\ UNCHANGED <<wal, rows, ran, writer, files, applied, todo, stmts, starts, faults>>

ReadApplied(p) == /\ pc[p] = "read"
                  /\ applied' = [applied EXCEPT ![p] = rows]
                  /\ Goto(p, "guard")
                  /\ ResetAttempts(p)
                  /\ UNCHANGED <<database, files, todo, stmts, starts, faults>>

\* Applied versions without a file, and pending ones below an applied one.
Missing(p) == Has(applied[p]) \ Has(files[p])
OutOfOrder(p) == {v \in Has(files[p]) \ Has(applied[p]) : \E u \in Has(applied[p]) : v < u}

Guard(p) == /\ pc[p] = "guard"
            /\ IF Missing(p) # {} \/ OutOfOrder(p) # {}
               THEN Goto(p, "failed") /\ UNCHANGED todo
               ELSE Goto(p, "loop") /\ todo' = [todo EXCEPT ![p] = Has(files[p])]
            /\ UNCHANGED <<database, files, applied, stmts, attempt, starts, faults>>

\* Mutant of IsNext: files in directory order rather than by version number.
IsNextUnsorted(p, v) == v \in todo[p]

\* The loop is at version v.
IsNext(p, v) == v \in todo[p] /\ \A u \in todo[p] : v <= u

\* _validate_migration_sql
Validated(body) == body # "truncated"

Loop(p) ==
    /\ pc[p] = "loop"
    /\ \/ /\ todo[p] = {}
          /\ Goto(p, "done")
          /\ UNCHANGED todo
       \/ \E v \in todo[p] :
            /\ IsNext(p, v)
            /\ \/ /\ applied[p][v] = files[p][v]                \* already applied
                  /\ todo' = [todo EXCEPT ![p] = @ \ {v}]
                  /\ UNCHANGED pc
               \/ /\ applied[p][v] \notin {NULL, files[p][v]}   \* checksum mismatch
                  /\ Goto(p, "failed")
                  /\ UNCHANGED todo
               \/ /\ applied[p][v] = NULL
                  /\ Goto(p, IF Validated(BodyOf[files[p][v]]) THEN "begin" ELSE "failed")
                  /\ UNCHANGED todo
    /\ ResetAttempts(p)
    /\ UNCHANGED <<database, files, applied, stmts, starts, faults>>
-----------------------------------------------------------------------------
(* _apply_migration                                                        *)

Begin(p) == /\ pc[p] = "begin"
            /\ writer = NULL
            /\ writer' = p
            /\ Goto(p, "check")
            /\ UNCHANGED <<wal, table, rows, ran, files, applied, todo, stmts, attempt, starts, faults>>

\* Mutant of Check: the double-check forgets to compare the checksums.
CheckVersionOnly(p) ==
    /\ pc[p] = "check"
    /\ \E v \in todo[p] :
         /\ IsNext(p, v)
         /\ \/ /\ rows[v] = NULL
               /\ Goto(p, "script")
               /\ UNCHANGED <<writer, stmts, todo>>
            \/ /\ rows[v] # NULL
               /\ Unlock(p)
               /\ Goto(p, "loop")
               /\ todo' = [todo EXCEPT ![p] = @ \ {v}]
    /\ UNCHANGED <<wal, table, rows, ran, files, applied, attempt, starts, faults>>

\* The double-check under the write lock: did another process win the race?
Check(p) ==
    /\ pc[p] = "check"
    /\ \E v \in todo[p] :
         /\ IsNext(p, v)
         /\ \/ /\ rows[v] = NULL
               /\ Goto(p, "script")
               /\ UNCHANGED <<writer, stmts, todo>>
            \/ /\ rows[v] = files[p][v]                         \* race ok
               /\ Unlock(p)
               /\ Goto(p, "loop")
               /\ todo' = [todo EXCEPT ![p] = @ \ {v}]
            \/ /\ rows[v] \notin {NULL, files[p][v]}            \* mismatch after race
               /\ Unlock(p)
               /\ Goto(p, "failed")
               /\ UNCHANGED todo
    /\ UNCHANGED <<wal, table, rows, ran, files, applied, attempt, starts, faults>>

\* executescript runs the next statement of the body.
RunStatement(p) ==
    /\ pc[p] = "script"
    /\ \E v \in todo[p] :
         /\ IsNext(p, v)
         /\ stmts[p] < Size(BodyOf[files[p][v]])
         /\ BodyOf[files[p][v]] = "control" => stmts[p] < 1
    /\ stmts' = [stmts EXCEPT ![p] = @ + 1]
    /\ UNCHANGED <<database, pc, files, applied, todo, attempt, starts, faults>>

\* Mutant of Denied: without the authorizer the COMMIT in the body runs, and the
\* in_transaction check comes too late.
CommittedByBody(p) ==
    /\ pc[p] = "script"
    /\ \E v \in todo[p] : /\ IsNext(p, v)
                          /\ BodyOf[files[p][v]] = "control" /\ stmts[p] = 1
                          /\ ran' = [ran EXCEPT ![v] = @ + stmts[p]]
    /\ Unlock(p)
    /\ Goto(p, "failed")
    /\ UNCHANGED <<wal, table, rows, files, applied, todo, attempt, starts, faults>>

\* The authorizer rejects the COMMIT in the middle of the body.
Denied(p) ==
    /\ pc[p] = "script"
    /\ \E v \in todo[p] : /\ IsNext(p, v)
                          /\ BodyOf[files[p][v]] = "control" /\ stmts[p] = 1
    /\ Unlock(p)
    /\ Goto(p, "failed")
    /\ UNCHANGED <<wal, table, rows, ran, files, applied, todo, attempt, starts, faults>>

\* The body has run: insert its row, in the same transaction.
Record(p) ==
    /\ pc[p] = "script"
    /\ \E v \in todo[p] : IsNext(p, v) /\ stmts[p] = Size(BodyOf[files[p][v]])
    /\ Goto(p, "commit")
    /\ UNCHANGED <<database, files, applied, todo, stmts, attempt, starts, faults>>

Commit(p) ==
    /\ pc[p] = "commit"
    /\ \E v \in todo[p] :
         /\ IsNext(p, v)
         /\ rows' = [rows EXCEPT ![v] = files[p][v]]
         /\ ran' = [ran EXCEPT ![v] = @ + stmts[p]]
         /\ todo' = [todo EXCEPT ![p] = @ \ {v}]
    /\ Unlock(p)
    /\ Goto(p, "loop")
    /\ UNCHANGED <<wal, table, files, applied, attempt, starts, faults>>
-----------------------------------------------------------------------------
(* Contention, errors and crashes.                                         *)

\* Where the retry loop around each step starts over.
LoopOf == [bootstrap |-> "bootstrap", convert |-> "bootstrap", read |-> "read",
           begin |-> "begin", check |-> "begin", script |-> "begin", commit |-> "begin"]

\* Mutants of StartOver: an uncounted retry, and one attempt too many.
StartOverUncounted(p) == Goto(p, LoopOf[pc[p]]) /\ UNCHANGED attempt
StartOverOnceMore(p) ==
    IF attempt[p] < MaxRetries
    THEN /\ Goto(p, LoopOf[pc[p]])
         /\ attempt' = [attempt EXCEPT ![p] = @ + 1]
    ELSE Goto(p, "failed") /\ UNCHANGED attempt

\* A fresh connection after a backoff, up to MaxRetries attempts in all.
StartOver(p) ==
    IF attempt[p] < MaxRetries - 1
    THEN /\ Goto(p, LoopOf[pc[p]])
         /\ attempt' = [attempt EXCEPT ![p] = @ + 1]
    ELSE Goto(p, "failed") /\ UNCHANGED attempt

\* Another process holds the write lock for longer than busy_timeout, or is at
\* the conversion as well (SQLITE_BUSY at once, or the pragma returns 'delete').
Busy(p) == /\ \/ /\ writer \notin {NULL, p}
                 /\ pc[p] = "begin" \/ (pc[p] = "bootstrap" /\ wal /\ ~ table)
              \/ p \in Converting /\ Converting # {p}
           /\ StartOver(p)
           /\ UNCHANGED <<database, files, applied, todo, stmts, starts, faults>>

\* Any statement, or the set-up of the connection, fails: contention is retried,
\* anything else is not.  The connection is rolled back and closed either way.
Fault(p) == /\ pc[p] \in DOMAIN LoopOf
            /\ faults < MaxFaults
            /\ faults' = faults + 1
            /\ StartOver(p) \/ (Goto(p, "failed") /\ UNCHANGED attempt)
            /\ Unlock(p)
            /\ UNCHANGED <<wal, table, rows, ran, files, applied, todo, starts>>

\* The process dies, or a server is stopped; its lock and its open transaction
\* are gone with it.
Crash(p) == /\ pc[p] \notin {"down", "failed"}
            /\ Goto(p, "down")
            /\ Unlock(p)
            /\ UNCHANGED <<wal, table, rows, ran, files, applied, todo, attempt, starts, faults>>
-----------------------------------------------------------------------------
(* main: a server, or the inbox-summary command, once init_db has returned. *)

\* The daily backup is kicked off in a thread of its own and the tools answer.
Serve(p) == /\ pc[p] = "done"
            /\ Goto(p, "serving")
            /\ UNCHANGED <<database, files, applied, todo, stmts, attempt, starts, faults>>

\* One summary over a connection that is not retried, and the end.
Summarise(p) == /\ pc[p] = "done"
                /\ Goto(p, "down")
                /\ UNCHANGED <<database, files, applied, todo, stmts, attempt, starts, faults>>
-----------------------------------------------------------------------------
Step(p) == \/ Connect(p) \/ Convert(p) \/ Bootstrap(p) \/ ReadApplied(p)
           \/ Guard(p) \/ Loop(p)
           \/ Begin(p) \/ Check(p) \/ RunStatement(p) \/ Denied(p) \/ Record(p) \/ Commit(p)
           \/ Busy(p)

Next == \E p \in Procs : Start(p) \/ Step(p) \/ Serve(p) \/ Summarise(p) \/ Fault(p) \/ Crash(p)

Spec == Init /\ [][Next]_vars
FairSpec == Spec /\ \A p \in Running : WF_vars(Step(p))
-----------------------------------------------------------------------------
(* What must hold.                                                         *)

Ready == {"done", "serving"}
Ended == {"down", "failed"} \cup Ready
PCs == Ended \cup {"guard", "loop"} \cup DOMAIN LoopOf

TypeOK == /\ wal \in BOOLEAN
          /\ table \in BOOLEAN
          /\ rows \in Recorded
          /\ ran \in [Versions -> Nat]
          /\ writer \in Procs \cup {NULL}
          /\ pc \in [Procs -> PCs]
          /\ files \in [Procs -> Recorded]
          /\ applied \in [Procs -> Recorded]
          /\ todo \in [Procs -> SUBSET Versions]
          /\ stmts \in [Procs -> 0 .. 2]
          /\ attempt \in [Procs -> 0 .. MaxRetries - 1]
          /\ starts \in 0 .. MaxStarts
          /\ faults \in 0 .. MaxFaults

\* Each migration body has run completely and once if it is recorded, and not at
\* all if it is not, whichever processes raced, failed, retried or crashed.
RecordsMatchSchema ==
    \A v \in Versions : ran[v] = IF rows[v] = NULL THEN 0 ELSE 2

\* A process that finished start-up runs, as long as it serves and whoever starts
\* after it, on a database that has every migration of its release, with the body
\* its own files have, and that is in WAL mode: the connections of the tools are
\* not retried and could not survive a conversion.
ServersHaveTheirSchema ==
    \A p \in Procs : pc[p] \in Ready =>
        \A v \in Has(files[p]) : wal /\ rows[v] = files[p][v]

\* Schema is built in version order: no process, however stale the list of applied
\* versions its guard has looked at, applies a version below a recorded one.
SchemaInOrder ==
    [][\A v \in Has(rows') \ Has(rows), u \in Has(rows) : u < v]_vars

\* A process that keeps running finishes or gives up its start-up, even if another
\* one is suspended forever while it holds the write lock.
StartupEnds == \A p \in Running : pc[p] \notin Ended ~> pc[p] \in Ended
=============================================================================
