------------------------------ MODULE Backups ------------------------------
(***************************************************************************)
(* The daily snapshots (backup.py): servers share the table backup_runs    *)
(* and the directory backups/, and may be killed at any moment; the thread *)
(* that copies is a daemon.  Only what the throttle and the retention can  *)
(* still tell of the past is kept: the age of a run, and how many days ago *)
(* the date in its path was.                                               *)
(***************************************************************************)
EXTENDS Naturals

CONSTANTS Servers,
          LastRun,   \* bound: the rows that may count at a time
          PendingWindow, \* _PENDING_BACKUP_WINDOW, in ticks
          Day,       \* _RECENT_BACKUP_WINDOW and the length of a day, in ticks
          Keep,      \* keep_days
          Slowest,   \* bound: the ticks a backup at work may take
          MaxFaults, \* bound: failed copies and killed servers
          NULL

Runs == 1 .. LastRun
Dates == 0 .. Keep + 1
Row == [age : 0 .. Day + 1, date : Dates, state : {"pending", "success", "failure"}]

ASSUME BackupsAssumption ==
    /\ PendingWindow \in Nat /\ Day \in Nat \ {0} /\ Slowest \in Nat /\ Slowest < Day
    /\ Keep \in Nat \ {0} /\ MaxFaults \in Nat
    /\ LastRun \in Nat /\ NULL \notin Runs \cup Row

VARIABLES runs,    \* backup_runs: the rows that may still count
          server,  \* what the backup of each server is at, and its run
          files,   \* the snapshot dated so many days ago; the last, of any day before
          hour,    \* ticks since midnight
          faults

vars == <<runs, server, files, hour, faults>>

Idle == [at |-> "idle", run |-> NULL]

Init == /\ runs = [r \in Runs |-> NULL]
        /\ server = [s \in Servers |-> Idle]
        /\ files = [d \in Dates |-> "none"]
        /\ hour = 0 /\ faults = 0

In(r, state) == runs[r] # NULL /\ runs[r].state = state
-----------------------------------------------------------------------------
\* _insert_backup_run
Claim(s) == /\ server[s] = Idle
            /\ \E r \in Runs : /\ runs[r] = NULL /\ \A q \in Runs : runs[q] = NULL => r <= q
                               /\ runs' = [runs EXCEPT ![r] = [age |-> 0, date |-> 0,
                                                               state |-> "pending"]]
                               /\ server' = [server EXCEPT ![s] = [at |-> "copying", run |-> r]]
            /\ UNCHANGED <<files, hour, faults>>

\* memory_backup_now
RunBackup(s) == Claim(s)

\* Mutant of Throttled: a pending row counts for ever (review R6).
ThrottledByAnyPending == \E r \in Runs : \/ In(r, "success") /\ runs[r].age <= Day
                                         \/ In(r, "pending")

Throttled == \E r \in Runs : \/ In(r, "success") /\ runs[r].age <= Day
                             \/ In(r, "pending") /\ runs[r].age <= PendingWindow

\* start_lazy_daily_backup, maybe_daily_backup: a server starts.
MaybeDailyBackup(s) == ~ Throttled /\ Claim(s)

\* Mutant of Copy: straight into the snapshot (review R8).
CopyInPlace(s) == /\ server[s].at = "copying"
                  /\ server' = [server EXCEPT ![s].at = "copied"]
                  /\ files' = [files EXCEPT ![runs[server[s].run].date] = "part"]
                  /\ UNCHANGED <<runs, hour, faults>>

\* src.backup(dest), into a temporary file of its own
Copy(s) == /\ server[s].at = "copying"
           /\ server' = [server EXCEPT ![s].at = "copied"]
           /\ UNCHANGED <<runs, files, hour, faults>>

\* os.replace
Replace(s) == /\ server[s].at = "copied"
              /\ server' = [server EXCEPT ![s].at = "replaced"]
              /\ files' = [files EXCEPT ![runs[server[s].run].date] = "whole"]
              /\ UNCHANGED <<runs, hour, faults>>

\* The directory, the copy or os.replace fails: success = 0, and the caller gets
\* the exception (the thread swallows it) before anything is pruned.
Fail(s) == /\ server[s].at \in {"copying", "copied"} /\ faults < MaxFaults
           /\ runs' = [runs EXCEPT ![server[s].run].state = "failure"]
           /\ server' = [server EXCEPT ![s] = Idle]
           /\ faults' = faults + 1
           /\ UNCHANGED <<files, hour>>

\* _finish_backup_run(success=True)
Finish(s) == /\ server[s].at = "replaced"
             /\ runs' = [runs EXCEPT ![server[s].run].state = "success"]
             /\ server' = [server EXCEPT ![s].at = "pruning"]
             /\ UNCHANGED <<files, hour, faults>>

\* backup_date < today - keep_days
Pruned == [d \in Dates |-> IF d > Keep THEN "none" ELSE files[d]]

PruneBackups(s) == /\ server[s].at = "pruning"
                   /\ files' = Pruned
                   /\ server' = [server EXCEPT ![s] = Idle]
                   /\ UNCHANGED <<runs, hour, faults>>

\* The session ends, or is killed; or the database stays locked, and
\* _finish_backup_run raises.  The row stays pending.
Kill(s) == /\ server[s] # Idle /\ faults < MaxFaults
           /\ server' = [server EXCEPT ![s] = Idle]
           /\ faults' = faults + 1
           /\ UNCHANGED <<runs, files, hour>>
-----------------------------------------------------------------------------
(* Time.  A row that is over and no longer counts is forgotten.            *)

Midnight == hour + 1 = Day
Later(n, last) == IF n < last THEN n + 1 ELSE last

Over(row) == \/ row.state = "failure"
             \/ row.state = "success" /\ row.age >= Day

Older(row) == IF row = NULL \/ Over(row) THEN NULL
              ELSE [row EXCEPT !.age = Later(@, Day + 1),
                               !.date = IF Midnight THEN Later(@, Keep + 1) ELSE @]

Shifted == [d \in Dates |-> IF d = 0 THEN "none"
                            ELSE IF d = Keep + 1 /\ files[Keep] = "none" THEN files[d]
                            ELSE files[d - 1]]

\* A backup at work is over in time.
Tick == /\ \A s \in Servers : server[s].run # NULL => runs[server[s].run].age < Slowest
        /\ runs' = [r \in Runs |-> Older(runs[r])]
        /\ files' = IF Midnight THEN Shifted ELSE files
        /\ hour' = IF Midnight THEN 0 ELSE hour + 1
        /\ UNCHANGED <<server, faults>>

Work(s) == Copy(s) \/ Replace(s) \/ Finish(s) \/ PruneBackups(s)

Next == \/ Tick
        \/ \E s \in Servers : MaybeDailyBackup(s) \/ RunBackup(s) \/ Work(s) \/ Fail(s) \/ Kill(s)

\* Servers are started again and again; a copy that is under way goes on.
Fairness == /\ WF_vars(Tick)
            /\ WF_vars(\E s \in Servers : MaybeDailyBackup(s))
            /\ \A s \in Servers : WF_vars(Work(s))

Spec == Init /\ [][Next]_vars /\ Fairness
-----------------------------------------------------------------------------
(* What must hold.                                                         *)

Recent(r) == In(r, "success") /\ runs[r].age <= Day

\* A run that keeps other servers from a backup for the day has left a whole
\* snapshot at its path, whoever else copies to that path, fails on the way, is
\* killed, or prunes, also past midnight.
RecordedIsThere == \A r \in Runs : Recent(r) => files[runs[r].date] = "whole"

\* "rolling daily snapshots (14 days)" (PLAN.md): again and again there is one of
\* the last day, and no dated one older than keep_days is left.  A server that is
\* killed with its row pending, or before it has pruned, delays this and does not
\* end it.
SnapshotsRoll == []<>(/\ \E r \in Runs : Recent(r)
                      /\ files[Keep + 1] = "none")
=============================================================================
