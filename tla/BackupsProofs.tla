--------------------------- MODULE BackupsProofs ---------------------------
(***************************************************************************)
(* Proofs about the daily snapshots, for any servers, any length of a day  *)
(* and of a copy, any retention, and any number of failures: what a row    *)
(* that keeps other servers from a backup may be taken to mean.            *)
(***************************************************************************)
EXTENDS Backups, TLAPS

USE DEF Runs, Dates

-----------------------------------------------------------------------------
(* The invariant.                                                          *)

Points == {"copying", "copied", "replaced", "pruning"}

RunsOK == runs \in [Runs -> Row \cup {NULL}]

TimeOK == hour \in 0 .. Day - 1 /\ files \in [Dates -> {"none", "whole"}]

ServersOK == server \in [Servers -> {Idle} \cup [at : Points, run : Runs]]

Working(s) == server[s] # Idle

\* A server at work has a row, young enough to be still at work on it.
Owns(s) == /\ runs[server[s].run] # NULL
           /\ runs[server[s].run].age <= Slowest
           /\ runs[server[s].run].state = IF server[s].at = "pruning" THEN "success" ELSE "pending"

RowsAreOwned == \A s \in Servers : Working(s) => Owns(s)

\* ... and it is its own.
RowsAreDistinct == \A s, t \in Servers : /\ Working(s) /\ Working(t)
                                         /\ server[s].run = server[t].run
                                         => s = t

\* A row that is a day old at most is of today or of yesterday; of today, if it is
\* younger than today.
Dated(row) == (row.age <= hour => row.date = 0) /\ (row.age <= Day => row.date <= 1)

RowsAreDated == \A r \in Runs : runs[r] # NULL => Dated(runs[r])

\* The snapshot is at its path before its row says so.
Replaced(r) == \E s \in Servers : server[s].at = "replaced" /\ server[s].run = r

ReplacedIsThere == \A r \in Runs : Replaced(r) => files[runs[r].date] = "whole"

IInv == /\ RunsOK /\ TimeOK /\ ServersOK /\ RowsAreOwned /\ RowsAreDistinct
        /\ RowsAreDated /\ ReplacedIsThere /\ RecordedIsThere

-----------------------------------------------------------------------------
(* What the invariant says of a row and of a server.                       *)

LEMMA IdleServers ==
    ASSUME ServersOK, NEW s \in Servers
    PROVE  /\ Working(s) => server[s].at \in Points /\ server[s].run \in Runs
           /\ server[s].at # "idle" => Working(s)
           /\ server[s].run # NULL => Working(s)
           /\ ~ Working(s) => server[s].at = "idle" /\ server[s].run = NULL
  BY BackupsAssumption DEF ServersOK, Working, Idle, Points

LEMMA RowFacts ==
    ASSUME RunsOK, NEW r \in Runs, runs[r] # NULL
    PROVE  /\ runs[r] \in Row /\ runs[r].age \in 0 .. Day + 1 /\ runs[r].date \in Dates
           /\ runs[r].state \in {"pending", "success", "failure"}
  BY DEF RunsOK, Row

LEMMA RowOf ==
    ASSUME RunsOK, ServersOK, RowsAreOwned, NEW s \in Servers, Working(s)
    PROVE  /\ server[s].run \in Runs /\ server[s].at \in Points
           /\ runs[server[s].run] \in Row /\ runs[server[s].run] # NULL
           /\ runs[server[s].run].age <= Slowest
           /\ runs[server[s].run].date \in Dates
<1>1. server[s].run \in Runs /\ server[s].at \in Points /\ Owns(s)
  BY IdleServers DEF RowsAreOwned
<1> QED
  BY <1>1, RowFacts DEF Owns

\* No path a row of the last day stands for is pruned.
LEMMA KeptDates ==
    ASSUME RunsOK, RowsAreDated, NEW r \in Runs, runs[r] # NULL, runs[r].age <= Day
    PROVE  runs[r].date \in 0 .. Keep /\ runs[r].date \in Dates /\ runs[r].date <= 1
  BY RowFacts, BackupsAssumption DEF RowsAreDated, Dated

\* The rows that vouch for a snapshot are of the last day.
Vouches(r) == Replaced(r) \/ Recent(r)

LEMMA VouchedFor ==
    ASSUME IInv, NEW r \in Runs, Vouches(r)
    PROVE  /\ runs[r] # NULL /\ runs[r] \in Row /\ runs[r].age <= Day
           /\ runs[r].date \in 0 .. Keep /\ files[runs[r].date] = "whole"
<1>1. CASE Recent(r)
  BY <1>1, RowFacts, KeptDates DEF IInv, Recent, In, RecordedIsThere
<1>2. CASE Replaced(r)
  <2>1. PICK s \in Servers : server[s].at = "replaced" /\ server[s].run = r
    BY <1>2 DEF Replaced
  <2>2. runs[r] \in Row /\ runs[r] # NULL /\ runs[r].age <= Slowest
    BY <2>1, IdleServers, RowOf DEF IInv
  <2>3. runs[r].age <= Day
    BY <2>2, BackupsAssumption DEF Row
  <2> QED
    BY <1>2, <2>2, <2>3, KeptDates DEF IInv, ReplacedIsThere
<1> QED
  BY <1>1, <1>2 DEF Vouches

\* A step keeps the snapshots promise if no row starts to vouch, and the path of one
\* that does stays whole.
LEMMA PromiseStays ==
    ASSUME IInv, \A r \in Runs : Vouches(r)' => Vouches(r) /\ runs'[r].date = runs[r].date,
           \A d \in 0 .. Keep : files[d] = "whole" => files'[d] = "whole"
    PROVE  ReplacedIsThere' /\ RecordedIsThere'
<1>1. ASSUME NEW r \in Runs, Vouches(r)' PROVE files'[runs'[r].date] = "whole"
  BY <1>1, VouchedFor
<1> QED
  BY <1>1 DEF ReplacedIsThere, RecordedIsThere, Vouches

-----------------------------------------------------------------------------
(* The steps of a backup.                                                  *)

\* A row nobody has: no server is at work on it.
LEMMA ClaimKeeps ==
    ASSUME IInv, NEW s \in Servers, Claim(s)
    PROVE  IInv'
<1> DEFINE row == [age |-> 0, date |-> 0, state |-> "pending"]
<1>1. PICK r \in Runs : /\ runs[r] = NULL /\ runs' = [runs EXCEPT ![r] = row]
                        /\ server' = [server EXCEPT ![s] = [at |-> "copying", run |-> r]]
  BY DEF Claim
<1>2. /\ RunsOK /\ TimeOK /\ ServersOK /\ RowsAreOwned /\ RowsAreDistinct
      /\ RowsAreDated /\ ReplacedIsThere /\ RecordedIsThere
      /\ UNCHANGED <<files, hour>>
  BY DEF IInv, Claim
<1>3. row \in Row /\ row # NULL /\ row.age = 0 /\ row.date = 0 /\ row.state = "pending"
  BY BackupsAssumption DEF Row
<1> HIDE DEF row
<1>4. RunsOK' /\ runs'[r] = row /\ \A q \in Runs \ {r} : runs'[q] = runs[q]
  BY <1>1, <1>2, <1>3 DEF RunsOK
<1>5. ServersOK' /\ \A t \in Servers \ {s} : server'[t] = server[t]
  BY <1>1, <1>2 DEF ServersOK, Points
<1>6. server'[s].at = "copying" /\ server'[s].run = r
  BY <1>1, <1>2 DEF ServersOK
<1>7. \A t \in Servers \ {s} : Working(t) => server[t].run # r
  BY <1>1, <1>2, RowOf
<1>8. TimeOK'
  BY <1>2 DEF TimeOK
<1>9. RowsAreOwned'
  <2>1. Owns(s)'
    BY <1>3, <1>4, <1>6, BackupsAssumption DEF Owns
  <2>2. ASSUME NEW t \in Servers \ {s}, Working(t)' PROVE Owns(t)'
    <3>1. Working(t) /\ Owns(t) /\ server[t].run \in Runs \ {r}
      BY <1>2, <1>5, <1>7, <2>2, RowOf DEF Working, RowsAreOwned
    <3> QED
      BY <1>4, <1>5, <3>1 DEF Owns
  <2> QED
    BY <2>1, <2>2 DEF RowsAreOwned
<1>10. RowsAreDistinct'
  <2>1. \A t \in Servers \ {s} : Working(t)' => Working(t) /\ server'[t].run # r
    BY <1>5, <1>7 DEF Working
  <2> QED
    BY <1>2, <1>5, <1>6, <2>1 DEF RowsAreDistinct, Working
<1>11. RowsAreDated'
  <2>1. Dated(row)'
    BY <1>3 DEF Dated
  <2>2. \A q \in Runs \ {r} : runs'[q] # NULL => Dated(runs[q])'
    BY <1>2, <1>4 DEF RowsAreDated, Dated
  <2> QED
    BY <1>3, <1>4, <2>1, <2>2 DEF RowsAreDated, Dated
<1>12. ReplacedIsThere' /\ RecordedIsThere'
  <2>1. ~ Recent(r)' /\ \A q \in Runs \ {r} : Recent(q)' => Recent(q)
    BY <1>3, <1>4 DEF Recent, In
  <2>2. \A q \in Runs : Replaced(q)' => Replaced(q) /\ q # r
    <3>1. ASSUME NEW t \in Servers, server'[t].at = "replaced"
          PROVE  t # s /\ server[t] = server'[t] /\ server'[t].run # r
      BY <1>2, <1>5, <1>6, <1>7, <3>1, IdleServers
    <3> QED
      BY <3>1 DEF Replaced
  <2>3. \A q \in Runs : Vouches(q)' => Vouches(q) /\ runs'[q].date = runs[q].date
    BY <1>4, <2>1, <2>2 DEF Vouches
  <2> QED
    BY <1>2, <2>3, PromiseStays
<1> QED
  BY <1>4, <1>5, <1>8, <1>9, <1>10, <1>11, <1>12 DEF IInv

\* What a step of one server that leaves the rows as they are, or sets the state of
\* its own, leaves true.
OwnRowOnly(s) == \A r \in Runs : /\ runs'[r] # NULL <=> runs[r] # NULL
                                 /\ runs[r] # NULL => /\ runs'[r].age = runs[r].age
                                                      /\ runs'[r].date = runs[r].date
                                 /\ r # server[s].run => runs'[r] = runs[r]

LEMMA OwnStepKeeps ==
    ASSUME IInv, NEW s \in Servers, Working(s), RunsOK', ServersOK', OwnRowOnly(s), hour' = hour,
           \A t \in Servers \ {s} : server'[t] = server[t],
           Working(s)' => server'[s].run = server[s].run /\ Owns(s)'
    PROVE  RowsAreOwned' /\ RowsAreDistinct' /\ RowsAreDated'
<1>1. RunsOK /\ ServersOK /\ RowsAreOwned /\ RowsAreDistinct /\ RowsAreDated
  BY DEF IInv
<1>2. RowsAreOwned'
  <2>1. ASSUME NEW t \in Servers \ {s}, Working(t)' PROVE Owns(t)'
    <3>1. Working(t) /\ Owns(t) /\ server[t].run \in Runs /\ server[t].run # server[s].run
      BY <1>1, <2>1, RowOf DEF Working, RowsAreOwned, RowsAreDistinct
    <3>2. runs'[server[t].run] = runs[server[t].run]
      BY <3>1 DEF OwnRowOnly
    <3> QED
      BY <3>1, <3>2 DEF Owns
  <2> QED
    BY <2>1 DEF RowsAreOwned
<1>3. RowsAreDistinct'
  <2>1. \A t \in Servers : Working(t)' => Working(t) /\ server'[t].run = server[t].run
    BY DEF Working
  <2> QED
    BY <1>1, <2>1 DEF RowsAreDistinct
<1>4. RowsAreDated'
  BY <1>1 DEF RowsAreDated, Dated, OwnRowOnly
<1> QED
  BY <1>2, <1>3, <1>4

LEMMA CopyKeeps ==
    ASSUME IInv, NEW s \in Servers, Copy(s)
    PROVE  IInv'
<1>1. /\ RunsOK /\ TimeOK /\ ServersOK /\ RowsAreOwned /\ RowsAreDistinct
      /\ UNCHANGED <<runs, files, hour>> /\ server[s].at = "copying"
      /\ server' = [server EXCEPT ![s].at = "copied"]
  BY DEF IInv, Copy
<1>2. Working(s) /\ Owns(s)
  BY <1>1, IdleServers DEF RowsAreOwned
<1>3. /\ ServersOK' /\ \A t \in Servers \ {s} : server'[t] = server[t]
      /\ server'[s].at = "copied" /\ server'[s].run = server[s].run
  <2>1. server[s] \in [at : Points, run : Runs]
    BY <1>1, <1>2 DEF ServersOK, Working
  <2> QED
    BY <1>1, <2>1 DEF ServersOK, Points
<1>4. RunsOK' /\ TimeOK' /\ OwnRowOnly(s)
  BY <1>1 DEF RunsOK, TimeOK, OwnRowOnly
<1>5. Owns(s)'
  BY <1>1, <1>2, <1>3 DEF Owns
<1>6. RowsAreOwned' /\ RowsAreDistinct' /\ RowsAreDated'
  BY <1>1, <1>2, <1>3, <1>4, <1>5, OwnStepKeeps
<1>7. \A r \in Runs : Vouches(r)' => Vouches(r)
  BY <1>1, <1>3 DEF Vouches, Replaced, Recent, In
<1>8. ReplacedIsThere' /\ RecordedIsThere'
  BY <1>1, <1>7, PromiseStays
<1> QED
  BY <1>3, <1>4, <1>6, <1>8 DEF IInv

\* os.replace makes a path whole, whatever was there.
LEMMA ReplaceKeeps ==
    ASSUME IInv, NEW s \in Servers, Replace(s)
    PROVE  IInv'
<1> DEFINE own == server[s].run
<1>1. /\ RunsOK /\ TimeOK /\ ServersOK /\ RowsAreOwned /\ RowsAreDistinct
      /\ ReplacedIsThere /\ RecordedIsThere
      /\ UNCHANGED <<runs, hour>> /\ server[s].at = "copied"
      /\ server' = [server EXCEPT ![s].at = "replaced"]
      /\ files' = [files EXCEPT ![runs[own].date] = "whole"]
  BY DEF IInv, Replace
<1>2. Working(s) /\ Owns(s)
  BY <1>1, IdleServers DEF RowsAreOwned
<1>3. own \in Runs /\ runs[own].date \in Dates
  BY <1>1, <1>2, RowOf
<1>4. /\ ServersOK' /\ \A t \in Servers \ {s} : server'[t] = server[t]
      /\ server'[s].at = "replaced" /\ server'[s].run = own
  <2>1. server[s] \in [at : Points, run : Runs]
    BY <1>1, <1>2 DEF ServersOK, Working
  <2> QED
    BY <1>1, <2>1 DEF ServersOK, Points
<1>5. RunsOK' /\ TimeOK' /\ OwnRowOnly(s)
  BY <1>1 DEF RunsOK, TimeOK, OwnRowOnly
<1>6. Owns(s)'
  BY <1>1, <1>2, <1>4 DEF Owns
<1>7. RowsAreOwned' /\ RowsAreDistinct' /\ RowsAreDated'
  BY <1>1, <1>2, <1>4, <1>5, <1>6, OwnStepKeeps
<1>8. files'[runs[own].date] = "whole" /\ \A d \in Dates : files[d] = "whole" => files'[d] = "whole"
  BY <1>1, <1>3 DEF TimeOK
<1>9. \A r \in Runs : Vouches(r)' => Vouches(r) \/ r = own
  BY <1>1, <1>4 DEF Vouches, Replaced, Recent, In
<1>10. ReplacedIsThere' /\ RecordedIsThere'
  <2>1. ASSUME NEW r \in Runs, Vouches(r)' PROVE files'[runs'[r].date] = "whole"
    <3>1. CASE Vouches(r)
      BY <1>1, <1>8, <3>1, VouchedFor
    <3>2. CASE r = own
      BY <1>1, <1>8, <3>2
    <3> QED
      BY <1>9, <2>1, <3>1, <3>2
  <2> QED
    BY <2>1 DEF ReplacedIsThere, RecordedIsThere, Vouches
<1> QED
  BY <1>4, <1>5, <1>7, <1>10 DEF IInv

\* A backup that fails says so in its own row, and leaves every snapshot alone.
LEMMA FailKeeps ==
    ASSUME IInv, NEW s \in Servers, Fail(s)
    PROVE  IInv'
<1> DEFINE own == server[s].run
<1>1. /\ RunsOK /\ TimeOK /\ ServersOK /\ RowsAreOwned /\ RowsAreDistinct
      /\ UNCHANGED <<files, hour>> /\ server[s].at \in {"copying", "copied"}
      /\ runs' = [runs EXCEPT ![own].state = "failure"]
      /\ server' = [server EXCEPT ![s] = Idle]
  BY DEF IInv, Fail
<1>2. Working(s)
  BY <1>1, IdleServers
<1>3. own \in Runs /\ runs[own] \in Row /\ runs[own] # NULL
  BY <1>1, <1>2, RowOf
<1>4. ServersOK' /\ server'[s] = Idle /\ \A t \in Servers \ {s} : server'[t] = server[t]
  BY <1>1 DEF ServersOK
<1>5. /\ RunsOK' /\ runs'[own] \in Row /\ runs'[own].state = "failure"
      /\ runs'[own].age = runs[own].age /\ runs'[own].date = runs[own].date
      /\ \A r \in Runs \ {own} : runs'[r] = runs[r]
  BY <1>1, <1>3 DEF RunsOK, Row
<1>6. OwnRowOnly(s) /\ TimeOK'
  BY <1>1, <1>3, <1>5, BackupsAssumption DEF OwnRowOnly, TimeOK
<1>7. RowsAreOwned' /\ RowsAreDistinct' /\ RowsAreDated'
  <2>1. ~ Working(s)'
    BY <1>4 DEF Working
  <2> QED
    BY <1>1, <1>2, <1>4, <1>5, <1>6, <2>1, OwnStepKeeps
<1>8. \A r \in Runs : Vouches(r)' => Vouches(r) /\ runs'[r].date = runs[r].date
  <2>1. \A r \in Runs : Replaced(r)' => Replaced(r)
    BY <1>4 DEF Replaced, Idle
  <2>2. \A r \in Runs : Recent(r)' => Recent(r)
    BY <1>5 DEF Recent, In
  <2> QED
    BY <1>3, <1>5, <2>1, <2>2 DEF Vouches
<1>9. ReplacedIsThere' /\ RecordedIsThere'
  BY <1>1, <1>8, PromiseStays
<1> QED
  BY <1>4, <1>5, <1>6, <1>7, <1>9 DEF IInv

\* The row of a backup says success only after its snapshot is there.
LEMMA FinishKeeps ==
    ASSUME IInv, NEW s \in Servers, Finish(s)
    PROVE  IInv'
<1> DEFINE own == server[s].run
<1>1. /\ RunsOK /\ TimeOK /\ ServersOK /\ RowsAreOwned /\ RowsAreDistinct
      /\ UNCHANGED <<files, hour>> /\ server[s].at = "replaced"
      /\ runs' = [runs EXCEPT ![own].state = "success"]
      /\ server' = [server EXCEPT ![s].at = "pruning"]
  BY DEF IInv, Finish
<1>2. Working(s) /\ Owns(s)
  BY <1>1, IdleServers DEF RowsAreOwned
<1>3. own \in Runs /\ runs[own] \in Row /\ runs[own] # NULL
  BY <1>1, <1>2, RowOf
<1>4. /\ ServersOK' /\ \A t \in Servers \ {s} : server'[t] = server[t]
      /\ server'[s].at = "pruning" /\ server'[s].run = own
  <2>1. server[s] \in [at : Points, run : Runs]
    BY <1>1, <1>2 DEF ServersOK, Working
  <2> QED
    BY <1>1, <2>1 DEF ServersOK, Points
<1>5. /\ RunsOK' /\ runs'[own] \in Row /\ runs'[own].state = "success"
      /\ runs'[own].age = runs[own].age /\ runs'[own].date = runs[own].date
      /\ \A r \in Runs \ {own} : runs'[r] = runs[r]
  BY <1>1, <1>3 DEF RunsOK, Row
<1>6. OwnRowOnly(s) /\ TimeOK'
  BY <1>1, <1>3, <1>5, BackupsAssumption DEF OwnRowOnly, TimeOK
<1>7. Owns(s)'
  BY <1>2, <1>4, <1>5, BackupsAssumption DEF Owns
<1>8. RowsAreOwned' /\ RowsAreDistinct' /\ RowsAreDated'
  BY <1>1, <1>2, <1>4, <1>5, <1>6, <1>7, OwnStepKeeps
<1>9. \A r \in Runs : Vouches(r)' => Vouches(r) /\ runs'[r].date = runs[r].date
  <2>1. \A r \in Runs : Replaced(r)' => Replaced(r)
    BY <1>4 DEF Replaced
  <2>2. \A r \in Runs : Recent(r)' => Recent(r) \/ r = own
    BY <1>5 DEF Recent, In
  <2>3. Vouches(own)
    BY <1>1 DEF Vouches, Replaced
  <2> QED
    BY <1>3, <1>5, <2>1, <2>2, <2>3 DEF Vouches
<1>10. ReplacedIsThere' /\ RecordedIsThere'
  BY <1>1, <1>9, PromiseStays
<1> QED
  BY <1>4, <1>5, <1>6, <1>8, <1>10 DEF IInv

\* A server at rest is at work on nothing; its row stays as it is.
LEMMA RestKeeps ==
    ASSUME IInv, NEW s \in Servers, Working(s), UNCHANGED <<runs, hour>>,
           server' = [server EXCEPT ![s] = Idle],
           TimeOK', \A d \in 0 .. Keep : files[d] = "whole" => files'[d] = "whole"
    PROVE  IInv'
<1>1. RunsOK /\ ServersOK
  BY DEF IInv
<1>2. ServersOK' /\ server'[s] = Idle /\ \A t \in Servers \ {s} : server'[t] = server[t]
  BY <1>1 DEF ServersOK
<1>3. RunsOK' /\ OwnRowOnly(s) /\ ~ Working(s)'
  BY <1>1, <1>2 DEF RunsOK, OwnRowOnly, Working
<1>4. RowsAreOwned' /\ RowsAreDistinct' /\ RowsAreDated'
  BY <1>2, <1>3, OwnStepKeeps
<1>5. \A r \in Runs : Vouches(r)' => Vouches(r)
  BY <1>2 DEF Vouches, Replaced, Recent, In, Idle
<1>6. ReplacedIsThere' /\ RecordedIsThere'
  BY <1>5, PromiseStays
<1> QED
  BY <1>2, <1>3, <1>4, <1>6 DEF IInv

LEMMA KillKeeps ==
    ASSUME IInv, NEW s \in Servers, Kill(s)
    PROVE  IInv'
<1>1. TimeOK' /\ Working(s)
  BY DEF Kill, IInv, TimeOK, Working
<1> QED
  BY <1>1, RestKeeps DEF Kill

\* Pruning is of dates no row of the last day stands for.
LEMMA PruneBackupsKeeps ==
    ASSUME IInv, NEW s \in Servers, PruneBackups(s)
    PROVE  IInv'
<1>1. Working(s)
  BY IdleServers DEF PruneBackups, IInv
<1>2. TimeOK' /\ \A d \in 0 .. Keep : files'[d] = files[d]
  BY BackupsAssumption DEF PruneBackups, Pruned, IInv, TimeOK
<1> QED
  BY <1>1, <1>2, RestKeeps DEF PruneBackups

-----------------------------------------------------------------------------
(* Time.                                                                   *)

\* A row that still counts grows older by one tick, and its date by a day at midnight.
LEMMA OlderRow ==
    ASSUME TimeOK, NEW row \in Row, ~ Over(row), Dated(row)
    PROVE  /\ Older(row) \in Row /\ Older(row) # NULL /\ Older(row).state = row.state
           /\ row.age <= Day => Older(row).age = row.age + 1
           /\ Older(row).age >= row.age
           /\ row.age > Day => Older(row).age > Day
           /\ row.date <= Keep => Older(row).date = IF Midnight THEN row.date + 1 ELSE row.date
<1>1. row # NULL /\ row.age \in 0 .. Day + 1 /\ row.date \in 0 .. Keep + 1 /\ Day \in Nat \ {0}
      /\ Keep \in Nat \ {0}
  BY BackupsAssumption DEF Row
<1>2. Older(row) = [row EXCEPT !.age = Later(row.age, Day + 1),
                               !.date = IF Midnight THEN Later(row.date, Keep + 1) ELSE row.date]
  BY <1>1 DEF Older
<1>3. /\ Later(row.age, Day + 1) \in 0 .. Day + 1 /\ Later(row.date, Keep + 1) \in 0 .. Keep + 1
      /\ row.age <= Day => Later(row.age, Day + 1) = row.age + 1
      /\ row.age > Day => Later(row.age, Day + 1) > Day
      /\ Later(row.age, Day + 1) >= row.age
      /\ row.date <= Keep => Later(row.date, Keep + 1) = row.date + 1
  BY <1>1 DEF Later
<1>4. /\ Older(row) \in Row /\ Older(row).state = row.state
      /\ Older(row).age = Later(row.age, Day + 1)
      /\ Older(row).date = IF Midnight THEN Later(row.date, Keep + 1) ELSE row.date
  BY <1>1, <1>2, <1>3 DEF Row
<1>5. Older(row) # NULL
  BY <1>4, BackupsAssumption
<1> QED
  BY <1>3, <1>4, <1>5

\* A row stays dated as the hours and the days go by.
LEMMA OlderIsDated ==
    ASSUME TimeOK, NEW row \in Row, ~ Over(row), Dated(row),
           hour' = IF Midnight THEN 0 ELSE hour + 1
    PROVE  (Older(row).age <= hour' => Older(row).date = 0)
           /\ (Older(row).age <= Day => Older(row).date <= 1)
<1>1. /\ row.age \in 0 .. Day + 1 /\ row.date \in 0 .. Keep + 1 /\ Day \in Nat \ {0}
      /\ Keep \in Nat \ {0} /\ hour \in 0 .. Day - 1 /\ Older(row) \in Row
      /\ Older(row).age \in 0 .. Day + 1
  BY OlderRow, BackupsAssumption DEF Row, TimeOK
<1>2. CASE row.age > Day
  BY <1>1, <1>2, OlderRow DEF Midnight
<1>3. CASE row.age <= Day
  <2>1. /\ Older(row).age = row.age + 1
        /\ row.date <= 1 /\ (row.age <= hour => row.date = 0)
    BY <1>3, OlderRow DEF Dated
  <2>2. Older(row).date = IF Midnight THEN row.date + 1 ELSE row.date
    BY <1>1, <2>1, OlderRow
  <2> QED
    BY <1>1, <1>3, <2>1, <2>2 DEF Midnight
<1> QED
  BY <1>1, <1>2, <1>3

LEMMA TickKeeps == IInv /\ Tick => IInv'
<1> SUFFICES ASSUME IInv, Tick PROVE IInv'
  OBVIOUS
<1>1. /\ RunsOK /\ TimeOK /\ ServersOK /\ RowsAreOwned /\ RowsAreDistinct /\ RowsAreDated
      /\ ReplacedIsThere /\ RecordedIsThere
      /\ server' = server
      /\ runs' = [r \in Runs |-> Older(runs[r])]
      /\ files' = (IF Midnight THEN Shifted ELSE files)
      /\ hour' = (IF Midnight THEN 0 ELSE hour + 1)
      /\ \A s \in Servers : server[s].run # NULL => runs[server[s].run].age < Slowest
  BY DEF IInv, Tick
<1>2. /\ Day \in Nat \ {0} /\ Slowest \in Nat /\ Slowest < Day /\ Keep \in Nat \ {0}
  BY BackupsAssumption
<1>3. ASSUME NEW r \in Runs, runs'[r] # NULL
      PROVE  /\ runs[r] # NULL /\ runs[r] \in Row /\ ~ Over(runs[r]) /\ Dated(runs[r])
             /\ runs'[r] = Older(runs[r]) /\ runs'[r] \in Row
  <2>1. runs'[r] = Older(runs[r])
    BY <1>1
  <2>2. runs[r] # NULL /\ ~ Over(runs[r])
    BY <1>3, <2>1 DEF Older
  <2>3. runs[r] \in Row /\ Dated(runs[r])
    BY <1>1, <2>2, RowFacts DEF RowsAreDated
  <2> QED
    BY <1>1, <2>1, <2>2, <2>3, OlderRow
<1>4. RunsOK'
  BY <1>1, <1>3 DEF RunsOK
<1>5. TimeOK'
  BY <1>1, <1>2 DEF TimeOK, Midnight, Shifted
<1>6. ServersOK' /\ RowsAreDistinct'
  BY <1>1 DEF ServersOK, RowsAreDistinct, Working
<1>7. RowsAreOwned'
  <2>1. ASSUME NEW s \in Servers, Working(s)' PROVE Owns(s)'
    <3> DEFINE own == server[s].run
    <3>1. Working(s) /\ Owns(s) /\ server' = server
      BY <1>1, <2>1 DEF Working, RowsAreOwned
    <3>2. own \in Runs /\ runs[own] \in Row /\ runs[own] # NULL
      BY <1>1, <3>1, RowOf
    <3>3. runs[own].age < Slowest /\ runs[own].age \in 0 .. Day + 1
      BY <1>1, <3>2, BackupsAssumption DEF Row
    <3>4. ~ Over(runs[own]) /\ Dated(runs[own])
      BY <1>1, <1>2, <3>1, <3>2, <3>3 DEF Over, Owns, RowsAreDated
    <3>5. /\ runs'[own] = Older(runs[own]) /\ runs'[own] # NULL
          /\ runs'[own].age <= Slowest /\ runs'[own].state = runs[own].state
      BY <1>1, <1>2, <3>2, <3>3, <3>4, OlderRow
    <3> QED
      BY <3>1, <3>5 DEF Owns
  <2> QED
    BY <2>1 DEF RowsAreOwned
<1>8. RowsAreDated'
  <2>1. ASSUME NEW r \in Runs, runs'[r] # NULL
        PROVE  (runs'[r].age <= hour' => runs'[r].date = 0) /\ (runs'[r].age <= Day => runs'[r].date <= 1)
    BY <1>1, <1>3, <2>1, OlderIsDated
  <2> QED
    BY <2>1 DEF RowsAreDated, Dated
<1>9. ASSUME NEW r \in Runs, Vouches(r)' PROVE files'[runs'[r].date] = "whole"
  <2>1. runs'[r] # NULL
    <3>1. CASE Recent(r)'
      BY <3>1 DEF Recent, In
    <3>2. CASE Replaced(r)'
      <4>1. PICK s \in Servers : server[s].at = "replaced" /\ server[s].run = r
        BY <1>1, <3>2 DEF Replaced
      <4>2. Working(s)'
        BY <1>1, <4>1, IdleServers DEF Working
      <4> QED
        BY <1>1, <1>7, <4>1, <4>2 DEF RowsAreOwned, Owns
    <3> QED
      BY <1>9, <3>1, <3>2 DEF Vouches
  <2>2. /\ runs[r] # NULL /\ runs[r] \in Row /\ ~ Over(runs[r]) /\ Dated(runs[r])
        /\ runs'[r] = Older(runs[r])
    BY <1>3, <2>1
  <2>3. runs[r].age \in 0 .. Day + 1 /\ Older(runs[r]) \in Row /\ Older(runs[r]).age \in 0 .. Day + 1
    BY <1>1, <2>2, OlderRow DEF Row
  <2>4. Vouches(r)
    <3>1. CASE Recent(r)'
      BY <1>1, <1>2, <2>2, <2>3, <3>1, OlderRow DEF Recent, In, Vouches
    <3>2. CASE Replaced(r)'
      BY <1>1, <3>2 DEF Replaced, Vouches
    <3> QED
      BY <1>9, <3>1, <3>2 DEF Vouches
  <2>5. runs[r].date \in 0 .. Keep /\ files[runs[r].date] = "whole"
    BY <2>4, VouchedFor
  <2>6. runs'[r].date = IF Midnight THEN runs[r].date + 1 ELSE runs[r].date
    BY <1>1, <1>2, <2>2, <2>5, OlderRow
  <2> QED
    BY <1>1, <1>2, <2>5, <2>6 DEF Shifted
<1>10. ReplacedIsThere' /\ RecordedIsThere'
  BY <1>9 DEF ReplacedIsThere, RecordedIsThere, Vouches
<1> QED
  BY <1>4, <1>5, <1>6, <1>7, <1>8, <1>10 DEF IInv

-----------------------------------------------------------------------------
(* The theorems.                                                           *)

LEMMA NoBackupsYet == Init => IInv
<1> SUFFICES ASSUME Init PROVE IInv
  OBVIOUS
<1>1. RunsOK /\ ServersOK
  BY DEF Init, RunsOK, ServersOK
<1>2. TimeOK
  BY BackupsAssumption DEF Init, TimeOK
<1>3. RowsAreOwned /\ RowsAreDistinct /\ RowsAreDated
  BY DEF Init, RowsAreOwned, RowsAreDistinct, RowsAreDated, Working
<1>4. ReplacedIsThere /\ RecordedIsThere
  BY DEF Init, ReplacedIsThere, RecordedIsThere, Replaced, Recent, In, Idle
<1> QED
  BY <1>1, <1>2, <1>3, <1>4 DEF IInv

LEMMA StutterKeeps == IInv /\ UNCHANGED vars => IInv'
<1> SUFFICES ASSUME IInv, UNCHANGED vars PROVE IInv'
  OBVIOUS
<1>1. /\ runs' = runs /\ server' = server /\ files' = files /\ hour' = hour
  BY DEF vars
<1>2. RunsOK' /\ TimeOK' /\ ServersOK'
  BY <1>1 DEF IInv, RunsOK, TimeOK, ServersOK
<1>3. RowsAreOwned' /\ RowsAreDistinct' /\ RowsAreDated'
  BY <1>1 DEF IInv, RowsAreOwned, Owns, RowsAreDistinct, Working, RowsAreDated, Dated
<1>4. ReplacedIsThere' /\ RecordedIsThere'
  BY <1>1 DEF IInv, ReplacedIsThere, RecordedIsThere, Replaced, Recent, In
<1> QED
  BY <1>2, <1>3, <1>4 DEF IInv

LEMMA BackupsStep == IInv /\ [Next]_vars => IInv'
<1> SUFFICES ASSUME IInv, [Next]_vars PROVE IInv'
  OBVIOUS
<1>1. CASE Tick
  BY <1>1, TickKeeps
<1>2. ASSUME NEW s \in Servers, MaybeDailyBackup(s) \/ RunBackup(s) PROVE IInv'
  BY <1>2, ClaimKeeps DEF MaybeDailyBackup, RunBackup
<1>3. ASSUME NEW s \in Servers, Work(s) PROVE IInv'
  BY <1>3, CopyKeeps, ReplaceKeeps, FinishKeeps, PruneBackupsKeeps DEF Work
<1>4. ASSUME NEW s \in Servers, Fail(s) \/ Kill(s) PROVE IInv'
  BY <1>4, FailKeeps, KillKeeps
<1>5. CASE UNCHANGED vars
  BY <1>5, StutterKeeps
<1> QED
  BY <1>1, <1>2, <1>3, <1>4, <1>5 DEF Next

\* Whatever servers start, fail, are killed and prune, and however late in the day,
\* every step keeps the invariant.
THEOREM BackupsInductive == Spec => []IInv
<1> QED
  BY NoBackupsYet, BackupsStep, PTL DEF Spec

\* A row that keeps other servers from a backup stands for a whole snapshot at its
\* path: for any retention of a day or more, and any copy that takes less than a day.
THEOREM RecordedThere == Spec => []RecordedIsThere
<1>1. IInv => RecordedIsThere
  BY DEF IInv
<1> QED
  BY <1>1, BackupsInductive, PTL
=============================================================================
