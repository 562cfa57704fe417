-------------------------- MODULE MigrationsProofs --------------------------
(***************************************************************************)
(* Proofs about Migrations for any number of processes, releases, retries  *)
(* and faults: a body has run once and completely exactly if it is         *)
(* recorded, and a server that started has the schema of its release.      *)
(***************************************************************************)
EXTENDS Migrations, TLAPS

\* What a process may do.
Moves(p) == Start(p) \/ Step(p) \/ Serve(p) \/ Summarise(p) \/ Fault(p) \/ Crash(p)

InTxn == {"check", "script", "commit"}
Applying == {"begin"} \cup InTxn

\* The write lock belongs to the process inside its transaction, and only its
\* transaction has statements that are not committed.
LockInv(p) == /\ writer = p <=> pc[p] \in InTxn
              /\ pc[p] \notin {"script", "commit"} => stmts[p] = 0

\* The version a process applies: one of its own files, sound so far, and from
\* the double-check on certainly not recorded yet.
TargetInv(p) ==
    /\ todo[p] \subseteq Has(files[p])
    /\ pc[p] \in Applying => /\ \E v \in todo[p] : IsNext(p, v)
                             /\ \A v \in todo[p] : IsNext(p, v) =>
                                    /\ BodyOf[files[p][v]] # "truncated"
                                    /\ pc[p] \in {"script", "commit"} => rows[v] = NULL
    /\ pc[p] = "commit" => stmts[p] = 2

\* What a process has read or put behind it is still what the table records.
HistoryInv(p) ==
    /\ \A v \in Versions : applied[p][v] # NULL => rows[v] = applied[p][v]
    /\ pc[p] \in {"loop"} \cup Applying \cup Ready =>
          \A v \in Has(files[p]) \ todo[p] : rows[v] = files[p][v]
    /\ pc[p] \in Ready => todo[p] = {}

\* The conversion to WAL mode is behind whoever has passed the bootstrap.
WalInv(p) == pc[p] \in {"read", "guard", "loop"} \cup Applying \cup Ready =>
                wal \/ Has(files[p]) = {}

ProcInv(p) == LockInv(p) /\ TargetInv(p) /\ HistoryInv(p) /\ WalInv(p)

IInv == TypeOK /\ RecordsMatchSchema /\ \A p \in Procs : ProcInv(p)

(* Initially no process runs and no version is recorded.                   *)
LEMMA InitInv == Init => IInv
<1> SUFFICES ASSUME Init PROVE IInv
  OBVIOUS
<1> USE MigrationsAssumption
<1>1. TypeOK
  <2>1. Nothing \in Recorded
    BY DEF Nothing, Recorded
  <2>2. /\ pc \in [Procs -> PCs]
        /\ rows \in Recorded /\ files \in [Procs -> Recorded] /\ applied \in [Procs -> Recorded]
    BY <2>1 DEF Init, PCs, Ended
  <2>3. /\ ran \in [Versions -> Nat] /\ todo \in [Procs -> SUBSET Versions]
        /\ stmts \in [Procs -> 0 .. 2] /\ attempt \in [Procs -> 0 .. MaxRetries - 1]
        /\ starts \in 0 .. MaxStarts /\ faults \in 0 .. MaxFaults
    BY DEF Init
  <2>4. wal \in BOOLEAN /\ table \in BOOLEAN /\ writer \in Procs \cup {NULL}
    BY DEF Init
  <2> QED
    BY <2>2, <2>3, <2>4 DEF TypeOK
<1>2. RecordsMatchSchema
  BY DEF Init, RecordsMatchSchema, Nothing
<1>3. ASSUME NEW p \in Procs PROVE ProcInv(p)
  <2>1. LockInv(p)
    BY DEF Init, LockInv, InTxn
  <2>2. TargetInv(p)
    BY DEF Init, TargetInv, Applying, InTxn
  <2>3. HistoryInv(p)
    BY DEF Init, HistoryInv, Applying, InTxn, Ready, Nothing
  <2>4. WalInv(p)
    BY DEF Init, WalInv, Applying, InTxn, Ready
  <2> QED
    BY <2>1, <2>2, <2>3, <2>4 DEF ProcInv
<1> QED
  BY <1>1, <1>2, <1>3 DEF IInv

(* The points a retry loop starts over at.                                 *)
LEMMA LoopPoints ==
    /\ DOMAIN LoopOf = {"bootstrap", "convert", "read", "begin", "check", "script", "commit"}
    /\ \A where \in DOMAIN LoopOf : LoopOf[where] \in {"bootstrap", "read", "begin"}
    /\ \A where \in DOMAIN LoopOf : LoopOf[where] = "begin" => where \in Applying
BY DEF LoopOf, Applying, InTxn

(* At most one version is next.                                            *)
LEMMA NextUnique ==
    ASSUME TypeOK, NEW p \in Procs, NEW u \in todo[p], NEW v \in todo[p], IsNext(p, u), IsNext(p, v)
    PROVE  u = v
BY MigrationsAssumption DEF IsNext, TypeOK, Versions

(* Type correctness is preserved by every action.                          *)
LEMMA TypeStep == IInv /\ [Next]_vars => TypeOK'
<1> SUFFICES ASSUME IInv, TypeOK, [Next]_vars PROVE TypeOK'
  BY DEF IInv
<1> USE MigrationsAssumption
<1>0. ASSUME NEW p \in Procs, Unlock(p)
      PROVE  writer' \in Procs \cup {NULL} /\ stmts' \in [Procs -> 0 .. 2]
  BY <1>0 DEF Unlock, TypeOK
<1>00. ASSUME NEW p \in Procs, pc[p] \in DOMAIN LoopOf, StartOver(p)
       PROVE  pc' \in [Procs -> PCs] /\ attempt' \in [Procs -> 0 .. MaxRetries - 1]
  <2>1. LoopOf[pc[p]] \in PCs /\ "failed" \in PCs
    BY <1>00, LoopPoints DEF PCs, Ended
  <2>2. CASE attempt[p] < MaxRetries - 1
    BY <1>00, <2>1, <2>2 DEF StartOver, Goto, TypeOK
  <2>3. CASE ~ (attempt[p] < MaxRetries - 1)
    BY <1>00, <2>1, <2>3 DEF StartOver, Goto, TypeOK
  <2> QED
    BY <2>2, <2>3
<1>1. ASSUME NEW p \in Procs, Start(p) PROVE TypeOK'
  <2>1. files' \in [Procs -> Recorded] /\ pc' \in [Procs -> PCs]
    <3>1. {"done", "bootstrap", "failed"} \subseteq PCs
      BY LoopPoints DEF PCs, Ended, Ready
    <3> QED
      BY <1>1, <3>1 DEF Start, Goto, TypeOK
  <2>2. applied' \in [Procs -> Recorded]
    <3>1. Nothing \in Recorded
      BY DEF Nothing, Recorded
    <3> QED
      BY <1>1, <3>1 DEF Start, TypeOK
  <2> QED
    BY <1>1, <2>1, <2>2 DEF Start, ResetAttempts, TypeOK, database
<1>2. ASSUME NEW p \in Procs, Bootstrap(p) \/ ReadApplied(p) PROVE TypeOK'
  <2>1. pc' \in [Procs -> PCs] /\ attempt' \in [Procs -> 0 .. MaxRetries - 1]
    BY <1>2, LoopPoints DEF Bootstrap, ReadApplied, Goto, ResetAttempts, TypeOK, PCs
  <2>2. CASE Bootstrap(p)
    BY <2>1, <2>2 DEF Bootstrap, TypeOK
  <2>3. CASE ReadApplied(p)
    BY <2>1, <2>3 DEF ReadApplied, TypeOK, database
  <2> QED
    BY <1>2, <2>2, <2>3
<1>3. ASSUME NEW p \in Procs, Guard(p) PROVE TypeOK'
  BY <1>3 DEF Guard, Goto, TypeOK, PCs, Ended, Has, database
<1>4. ASSUME NEW p \in Procs, Loop(p) PROVE TypeOK'
  <2>1. pc' \in [Procs -> PCs] /\ todo' \in [Procs -> SUBSET Versions]
    BY <1>4, LoopPoints DEF Loop, Goto, TypeOK, PCs, Ended, Ready
  <2>2. attempt' \in [Procs -> 0 .. MaxRetries - 1]
    BY <1>4 DEF Loop, ResetAttempts, TypeOK
  <2> QED
    BY <1>4, <2>1, <2>2 DEF Loop, TypeOK, database
<1>5. ASSUME NEW p \in Procs, Begin(p) PROVE TypeOK'
  BY <1>5, LoopPoints DEF Begin, Goto, TypeOK, PCs
<1>6. ASSUME NEW p \in Procs, Check(p) PROVE TypeOK'
  <2>1. pc' \in [Procs -> PCs] /\ todo' \in [Procs -> SUBSET Versions]
    BY <1>6, LoopPoints DEF Check, Goto, TypeOK, PCs, Ended
  <2>2. writer' \in Procs \cup {NULL} /\ stmts' \in [Procs -> 0 .. 2]
    BY <1>0, <1>6 DEF Check, TypeOK
  <2> QED
    BY <1>6, <2>1, <2>2 DEF Check, TypeOK
<1>7. ASSUME NEW p \in Procs, RunStatement(p) PROVE TypeOK'
  <2>1. stmts[p] + 1 \in 0 .. 2
    BY <1>7 DEF RunStatement, Size, TypeOK
  <2> QED
    BY <1>7, <2>1 DEF RunStatement, TypeOK, database
<1>8. ASSUME NEW p \in Procs, Denied(p) PROVE TypeOK'
  BY <1>0, <1>8 DEF Denied, Goto, TypeOK, PCs, Ended
<1>9. ASSUME NEW p \in Procs, Record(p) PROVE TypeOK'
  BY <1>9, LoopPoints DEF Record, Goto, TypeOK, PCs, database
<1>10. ASSUME NEW p \in Procs, Commit(p) PROVE TypeOK'
  <2>1. PICK v \in todo[p] : /\ rows' = [rows EXCEPT ![v] = files[p][v]]
                             /\ ran' = [ran EXCEPT ![v] = @ + stmts[p]]
                             /\ todo' = [todo EXCEPT ![p] = @ \ {v}]
    BY <1>10 DEF Commit
  <2>2. v \in Versions
    BY DEF TypeOK
  <2>3. rows' \in Recorded
    BY <2>1, <2>2 DEF TypeOK, Recorded
  <2>4. ran' \in [Versions -> Nat]
    <3>1. ran[v] + stmts[p] \in Nat
      BY <2>2 DEF TypeOK
    <3> QED
      BY <2>1, <2>2, <3>1 DEF TypeOK
  <2>5. pc' \in [Procs -> PCs] /\ todo' \in [Procs -> SUBSET Versions]
    BY <1>10, <2>1 DEF Commit, Goto, TypeOK, PCs
  <2> QED
    BY <1>0, <1>10, <2>3, <2>4, <2>5 DEF Commit, TypeOK
<1>11. ASSUME NEW p \in Procs, Busy(p) PROVE TypeOK'
  <2>1. pc' \in [Procs -> PCs] /\ attempt' \in [Procs -> 0 .. MaxRetries - 1]
    BY <1>00, <1>11, LoopPoints DEF Busy, Converting
  <2> QED
    BY <1>11, <2>1 DEF Busy, TypeOK, database
<1>12. ASSUME NEW p \in Procs, Fault(p) PROVE TypeOK'
  <2>1. pc' \in [Procs -> PCs] /\ attempt' \in [Procs -> 0 .. MaxRetries - 1]
    BY <1>00, <1>12 DEF Fault, Goto, TypeOK, PCs, Ended
  <2>2. faults' \in 0 .. MaxFaults
    BY <1>12 DEF Fault, TypeOK
  <2> QED
    BY <1>0, <1>12, <2>1, <2>2 DEF Fault, TypeOK
<1>13. ASSUME NEW p \in Procs, Crash(p) PROVE TypeOK'
  BY <1>0, <1>13 DEF Crash, Goto, TypeOK, PCs, Ended
<1>14. ASSUME NEW p \in Procs, Connect(p) \/ Convert(p) PROVE TypeOK'
  <2>1. pc' \in [Procs -> PCs] /\ wal' \in BOOLEAN
    BY <1>14, LoopPoints DEF Connect, Convert, Goto, TypeOK, PCs, database
  <2> QED
    BY <1>14, <2>1 DEF Connect, Convert, TypeOK, database
<1>15. ASSUME NEW p \in Procs, Serve(p) \/ Summarise(p) PROVE TypeOK'
  BY <1>15 DEF Serve, Summarise, Goto, TypeOK, PCs, Ended, Ready, database
<1>16. CASE UNCHANGED vars
  BY <1>16 DEF vars, TypeOK, database
<1> QED
  BY <1>1, <1>2, <1>3, <1>4, <1>5, <1>6, <1>7, <1>8, <1>9, <1>10, <1>11, <1>12, <1>13, <1>14,
     <1>15, <1>16 DEF Next, Step

(* An uncommitted body stays out of the schema; a commit adds the body and *)
(* its row together.                                                       *)
LEMMA SchemaStep == IInv /\ [Next]_vars => RecordsMatchSchema'
<1> SUFFICES ASSUME IInv, TypeOK, RecordsMatchSchema, [Next]_vars PROVE RecordsMatchSchema'
  BY DEF IInv
<1>1. ASSUME NEW p \in Procs, Commit(p) PROVE RecordsMatchSchema'
  <2>1. PICK v \in todo[p] : /\ IsNext(p, v)
                             /\ rows' = [rows EXCEPT ![v] = files[p][v]]
                             /\ ran' = [ran EXCEPT ![v] = @ + stmts[p]]
    BY <1>1 DEF Commit
  <2>2. pc[p] = "commit" /\ v \in Has(files[p]) /\ rows[v] = NULL /\ stmts[p] = 2
    BY <1>1, <2>1 DEF Commit, IInv, ProcInv, TargetInv, Applying, InTxn
  <2>3. v \in Versions /\ files[p][v] # NULL /\ ran[v] = 0
    BY <2>2 DEF Has, RecordsMatchSchema
  <2> QED
    BY <2>1, <2>2, <2>3 DEF RecordsMatchSchema, TypeOK, Recorded
<1>2. CASE UNCHANGED <<rows, ran>>
  BY <1>2 DEF RecordsMatchSchema
<1>3. ASSUME NEW p \in Procs, ~ Commit(p), Moves(p)
      PROVE  UNCHANGED <<rows, ran>>
  BY <1>3 DEF Moves, Step, Start, Connect, Convert, Bootstrap, ReadApplied, Guard, Loop, Begin,
              Check, RunStatement, Denied, Record, Busy, Serve, Summarise, Fault, Crash, database
<1>4. UNCHANGED vars => UNCHANGED <<rows, ran>>
  BY DEF vars, database
<1> QED
  BY <1>1, <1>2, <1>3, <1>4 DEF Next, Moves

\* The step leaves the start-up of q alone.
Same(q) == /\ pc'[q] = pc[q] /\ files'[q] = files[q] /\ applied'[q] = applied[q]
           /\ todo'[q] = todo[q] /\ stmts'[q] = stmts[q]

\* The database stays in WAL mode.
WalStays == wal => wal'

\* What the table records stays, and a version is only recorded under the lock.
RowsGrow == \A v \in Versions : rows[v] # NULL => rows'[v] = rows[v]

(* A step of another process keeps the invariants of q: it touches neither *)
(* the lock of q nor, while q holds it, the migrations table.              *)
LEMMA OthersKept ==
    ASSUME TypeOK, NEW q \in Procs, ProcInv(q), Same(q), RowsGrow, WalStays,
           writer' = q <=> writer = q,
           writer = q => rows' = rows
    PROVE  ProcInv(q)'
<1> USE MigrationsAssumption
<1>1. LockInv(q)'
  BY DEF ProcInv, LockInv, Same
<1>2. TargetInv(q)'
  BY DEF ProcInv, LockInv, TargetInv, IsNext, Has, Same, InTxn, Applying
<1>3. HistoryInv(q)'
  <2>1. \A v \in Versions : applied'[q][v] # NULL => rows'[v] = applied'[q][v]
    BY DEF ProcInv, HistoryInv, Same, RowsGrow
  <2>2. \A v \in Has(files[q]) : rows[v] = files[q][v] => rows'[v] = files[q][v]
    BY DEF Has, RowsGrow
  <2> QED
    BY <2>1, <2>2 DEF ProcInv, HistoryInv, Has, Same
<1>4. WalInv(q)'
  BY DEF ProcInv, WalInv, WalStays, Has, Same
<1> QED
  BY <1>1, <1>2, <1>3, <1>4 DEF ProcInv

(* What ends the transaction of p leaves every other process alone.        *)
LEMMA UnlockEffect ==
    ASSUME TypeOK, NEW p \in Procs, Unlock(p)
    PROVE  /\ writer' # p /\ stmts'[p] = 0
           /\ \A q \in Procs \ {p} : stmts'[q] = stmts[q] /\ (writer' = q <=> writer = q)
BY MigrationsAssumption DEF TypeOK, Unlock

(* Every action of a process leaves the other processes alone.             *)
LEMMA Frame ==
    ASSUME IInv, NEW p \in Procs, NEW q \in Procs, p # q,
           Moves(p)
    PROVE  ProcInv(q)'
<1> USE MigrationsAssumption
<1>1. TypeOK /\ ProcInv(q) /\ ProcInv(p)
  BY DEF IInv
<1>2. ASSUME ~ Commit(p) PROVE rows' = rows
  BY <1>2 DEF Moves, Step, Start, Connect, Convert, Bootstrap, ReadApplied, Guard, Loop, Begin,
              Check, RunStatement, Denied, Record, Busy, Serve, Summarise, Fault, Crash, database
<1>3. ASSUME Commit(p) PROVE RowsGrow /\ writer # q
  <2>1. PICK v \in todo[p] : IsNext(p, v) /\ rows' = [rows EXCEPT ![v] = files[p][v]]
    BY <1>3 DEF Commit
  <2>2. rows[v] = NULL /\ writer = p
    BY <1>1, <1>3, <2>1 DEF Commit, ProcInv, LockInv, TargetInv, Applying, InTxn
  <2> QED
    BY <1>1, <2>1, <2>2 DEF RowsGrow, TypeOK, Recorded
<1>4. Same(q) /\ (writer' = q <=> writer = q)
  <2> USE <1>1 DEF Same, TypeOK
  <2>1. CASE Start(p)
    BY <2>1 DEF Start, Goto, database
  <2>2. CASE Bootstrap(p) \/ ReadApplied(p) \/ Guard(p) \/ Loop(p)
    BY <2>2 DEF Bootstrap, ReadApplied, Guard, Loop, Goto, database
  <2>8. CASE Connect(p) \/ Convert(p) \/ Serve(p) \/ Summarise(p)
    BY <2>8 DEF Connect, Convert, Serve, Summarise, Goto, database
  <2>3. CASE Begin(p) \/ RunStatement(p) \/ Record(p)
    BY <2>3 DEF Begin, RunStatement, Record, Goto, database
  <2>4. CASE Check(p)
    BY <2>4, UnlockEffect DEF Check, Goto
  <2>5. CASE Denied(p) \/ Commit(p)
    BY <2>5, UnlockEffect DEF Denied, Commit, Goto
  <2>6. CASE Busy(p)
    BY <2>6 DEF Busy, StartOver, Goto, database
  <2>7. CASE Fault(p) \/ Crash(p)
    <3>1. Unlock(p) /\ (\E where : Goto(p, where)) /\ UNCHANGED <<files, applied, todo>>
      BY <2>7 DEF Fault, Crash, StartOver
    <3> QED
      BY <3>1, UnlockEffect DEF Goto
  <2> QED
    BY <2>1, <2>2, <2>3, <2>4, <2>5, <2>6, <2>7, <2>8 DEF Moves, Step
<1>5. WalStays
  BY DEF WalStays, Moves, Step, Start, Connect, Convert, Bootstrap, ReadApplied, Guard, Loop, Begin,
         Check, RunStatement, Denied, Record, Commit, Busy, Serve, Summarise, Fault, Crash, database
<1> QED
  BY <1>1, <1>2, <1>3, <1>4, <1>5, OthersKept DEF RowsGrow

(* Every action keeps the invariants of the process that takes it.         *)
LEMMA OwnStep ==
    ASSUME IInv, NEW p \in Procs, Moves(p)
    PROVE  LockInv(p)' /\ TargetInv(p)' /\ HistoryInv(p)'
<1> USE MigrationsAssumption
<1>1. TypeOK /\ LockInv(p) /\ TargetInv(p) /\ HistoryInv(p)
  BY DEF IInv, ProcInv
<1>2. CASE Start(p)
  <2>1. /\ pc[p] \notin InTxn /\ pc'[p] \in {"done", "bootstrap"}
        /\ pc'[p] = "done" => Has(files'[p]) = {}
        /\ applied'[p] = Nothing /\ todo'[p] = {} /\ UNCHANGED <<writer, stmts>>
    BY <1>1, <1>2 DEF Start, Goto, TypeOK, InTxn, database
  <2>2. LockInv(p)'
    BY <1>1, <2>1 DEF LockInv, InTxn
  <2>3. TargetInv(p)' /\ HistoryInv(p)'
    BY <2>1 DEF TargetInv, HistoryInv, Ready, Applying, InTxn, Nothing
  <2> QED
    BY <2>2, <2>3
<1>3. CASE Bootstrap(p) \/ ReadApplied(p)
  <2>1. /\ pc[p] \in {"bootstrap", "read"} /\ pc'[p] \in {"read", "guard"}
        /\ applied'[p] \in {applied[p], rows}
        /\ UNCHANGED <<rows, writer, files, todo, stmts>>
    BY <1>1, <1>3 DEF Bootstrap, ReadApplied, Goto, TypeOK, database
  <2>2. LockInv(p)' /\ TargetInv(p)' /\ HistoryInv(p)'
    BY <1>1, <2>1 DEF LockInv, TargetInv, HistoryInv, Ready, Has, Applying, InTxn
  <2> QED
    BY <2>2
<1>15. CASE Connect(p) \/ Convert(p) \/ Serve(p) \/ Summarise(p)
  <2>1. /\ pc[p] \notin InTxn \cup {"script", "commit"}
        /\ pc'[p] \in {"convert", "bootstrap", "down", "serving"}
        /\ pc'[p] = "serving" => pc[p] = "done"
        /\ UNCHANGED <<rows, writer, files, applied, todo, stmts>>
    BY <1>1, <1>15 DEF Connect, Convert, Converting, Serve, Summarise, Goto, TypeOK, InTxn, database
  <2>2. LockInv(p)'
    BY <1>1, <2>1 DEF LockInv, InTxn
  <2>3. TargetInv(p)' /\ HistoryInv(p)'
    BY <1>1, <2>1 DEF TargetInv, HistoryInv, Ready, Has, Applying, InTxn
  <2> QED
    BY <2>2, <2>3
<1>4. CASE Guard(p)
  <2>1. /\ pc[p] = "guard" /\ UNCHANGED <<rows, writer, files, applied, stmts>>
        /\ \/ pc'[p] = "failed" /\ todo'[p] = todo[p]
           \/ pc'[p] = "loop" /\ todo'[p] = Has(files[p])
    BY <1>1, <1>4 DEF Guard, Goto, TypeOK, database
  <2>2. LockInv(p)'
    BY <1>1, <2>1 DEF LockInv, InTxn
  <2>3. TargetInv(p)' /\ HistoryInv(p)'
    BY <1>1, <2>1 DEF TargetInv, HistoryInv, Ready, Has, Applying, InTxn
  <2> QED
    BY <2>2, <2>3
<1>5. CASE Loop(p)
  <2>1. /\ pc[p] = "loop" /\ UNCHANGED <<rows, writer, files, applied, stmts>>
    BY <1>5 DEF Loop, database
  <2>2. LockInv(p)'
    BY <1>1, <1>5, <2>1 DEF Loop, Goto, LockInv, TypeOK, InTxn
  <2>3. CASE todo[p] = {} /\ pc' = [pc EXCEPT ![p] = "done"] /\ todo' = todo
    BY <1>1, <2>1, <2>3 DEF TargetInv, HistoryInv, Ready, Has, Applying, InTxn, TypeOK, LockInv
  <2>4. ASSUME NEW v \in todo[p], IsNext(p, v), applied[p][v] = files[p][v],
               todo' = [todo EXCEPT ![p] = @ \ {v}], pc' = pc
        PROVE  TargetInv(p)' /\ HistoryInv(p)'
    <3>1. rows[v] = files[p][v]
      BY <1>1, <2>4 DEF TargetInv, HistoryInv, Ready, Has
    <3>2. todo'[p] = todo[p] \ {v}
      BY <1>1, <2>4 DEF TypeOK
    <3> QED
      BY <1>1, <2>1, <2>4, <3>1, <3>2 DEF TargetInv, HistoryInv, Ready, Has, Applying, InTxn
  <2>5. ASSUME NEW v \in todo[p], IsNext(p, v), todo' = todo,
               pc' = [pc EXCEPT ![p] = "failed"]
        PROVE  TargetInv(p)' /\ HistoryInv(p)'
    BY <1>1, <2>1, <2>5 DEF TypeOK, TargetInv, HistoryInv, Ready, Has, Applying, InTxn
  <2>6. ASSUME NEW v \in todo[p], IsNext(p, v), todo' = todo, Validated(BodyOf[files[p][v]]),
               pc' = [pc EXCEPT ![p] = "begin"]
        PROVE  TargetInv(p)' /\ HistoryInv(p)'
    <3>1. \A u \in todo[p] : IsNext(p, u)' => u = v
      BY <1>1, <2>6, NextUnique DEF IsNext
    <3>2. IsNext(p, v)' /\ pc'[p] = "begin"
      BY <1>1, <2>6 DEF IsNext, TypeOK
    <3>3. TargetInv(p)'
      BY <1>1, <2>1, <2>6, <3>1, <3>2 DEF TargetInv, Validated, Has, Applying, InTxn
    <3>4. HistoryInv(p)'
      BY <1>1, <2>1, <2>6, <3>2 DEF HistoryInv, Ready, Has, Applying, InTxn
    <3> QED
      BY <3>3, <3>4
  <2>7. \/ todo[p] = {} /\ pc' = [pc EXCEPT ![p] = "done"] /\ todo' = todo
        \/ \E v \in todo[p] : IsNext(p, v) /\
              \/ applied[p][v] = files[p][v] /\ todo' = [todo EXCEPT ![p] = @ \ {v}] /\ pc' = pc
              \/ todo' = todo /\ pc' = [pc EXCEPT ![p] = "failed"]
              \/ /\ todo' = todo /\ Validated(BodyOf[files[p][v]])
                 /\ pc' = [pc EXCEPT ![p] = "begin"]
    BY <1>5 DEF Loop, Goto
  <2> QED
    BY <2>2, <2>3, <2>4, <2>5, <2>6, <2>7
<1>6. CASE Begin(p)
  <2>1. /\ pc[p] = "begin" /\ pc'[p] = "check" /\ writer' = p
        /\ UNCHANGED <<rows, files, applied, todo, stmts>>
    BY <1>1, <1>6 DEF Begin, Goto, TypeOK
  <2>2. \A v \in todo[p] : IsNext(p, v)' <=> IsNext(p, v)
    BY <2>1 DEF IsNext
  <2>3. LockInv(p)' /\ TargetInv(p)' /\ HistoryInv(p)'
    BY <1>1, <2>1, <2>2 DEF LockInv, TargetInv, HistoryInv, Ready, Has, Applying, InTxn
  <2> QED
    BY <2>3
<1>7. CASE Check(p)
  <2>1. PICK v \in todo[p] :
           /\ IsNext(p, v)
           /\ \/ rows[v] = NULL /\ Goto(p, "script") /\ UNCHANGED <<writer, stmts, todo>>
              \/ /\ rows[v] = files[p][v] /\ Unlock(p) /\ Goto(p, "loop")
                 /\ todo' = [todo EXCEPT ![p] = @ \ {v}]
              \/ Unlock(p) /\ Goto(p, "failed") /\ UNCHANGED todo
    BY <1>7 DEF Check
  <2>2. pc[p] = "check" /\ UNCHANGED <<rows, files, applied>>
    BY <1>7 DEF Check
  <2>3. CASE rows[v] = NULL /\ Goto(p, "script") /\ UNCHANGED <<writer, stmts, todo>>
    <3>1. pc'[p] = "script"
      BY <1>1, <2>3 DEF Goto, TypeOK
    <3>2. \A u \in todo[p] : /\ IsNext(p, u)' <=> IsNext(p, u)
                             /\ IsNext(p, u) => u = v
      BY <1>1, <2>1, <2>3, NextUnique DEF IsNext
    <3>3. LockInv(p)' /\ TargetInv(p)' /\ HistoryInv(p)'
      BY <1>1, <2>1, <2>2, <2>3, <3>1, <3>2 DEF LockInv, TargetInv, HistoryInv, Ready, Has, Applying, InTxn
    <3> QED
      BY <3>3
  <2>4. CASE /\ rows[v] = files[p][v] /\ Unlock(p) /\ Goto(p, "loop")
             /\ todo' = [todo EXCEPT ![p] = @ \ {v}]
    <3>1. /\ pc'[p] = "loop" /\ todo'[p] = todo[p] \ {v}
          /\ writer' # p /\ stmts'[p] = 0
      BY <1>1, <2>4, UnlockEffect DEF Goto, TypeOK
    <3>2. LockInv(p)' /\ TargetInv(p)' /\ HistoryInv(p)'
      BY <1>1, <2>1, <2>2, <2>4, <3>1 DEF LockInv, TargetInv, HistoryInv, Ready, Has, Applying, InTxn
    <3> QED
      BY <3>2
  <2>5. CASE Unlock(p) /\ Goto(p, "failed") /\ UNCHANGED todo
    <3>1. pc'[p] = "failed" /\ writer' # p /\ stmts'[p] = 0
      BY <1>1, <2>5, UnlockEffect DEF Goto, TypeOK
    <3>2. LockInv(p)' /\ TargetInv(p)' /\ HistoryInv(p)'
      BY <1>1, <2>2, <2>5, <3>1 DEF LockInv, TargetInv, HistoryInv, Ready, Has, Applying, InTxn
    <3> QED
      BY <3>2
  <2> QED
    BY <2>1, <2>3, <2>4, <2>5
<1>8. CASE RunStatement(p) \/ Record(p)
  <2>1. /\ pc[p] = "script" /\ pc'[p] \in {"script", "commit"}
        /\ UNCHANGED <<rows, writer, files, applied, todo>>
    BY <1>1, <1>8 DEF RunStatement, Record, Goto, TypeOK, database
  <2>2. pc'[p] = "commit" => stmts'[p] = 2
    <3>1. CASE RunStatement(p)
      BY <1>1, <3>1 DEF RunStatement
    <3>2. CASE Record(p)
      BY <1>1, <3>2 DEF Record, TargetInv, Applying, InTxn, Size
    <3> QED
      BY <1>8, <3>1, <3>2
  <2>3. \A v \in todo[p] : IsNext(p, v)' <=> IsNext(p, v)
    BY <2>1 DEF IsNext
  <2>4. LockInv(p)' /\ TargetInv(p)' /\ HistoryInv(p)'
    BY <1>1, <2>1, <2>2, <2>3 DEF LockInv, TargetInv, HistoryInv, Ready, Has, Applying, InTxn
  <2> QED
    BY <2>4
<1>9. ASSUME Unlock(p), pc'[p] \in {"failed", "down", "bootstrap", "read", "begin"},
             pc'[p] = "begin" => pc[p] \in Applying,
             UNCHANGED <<rows, files, applied, todo>>
      PROVE  LockInv(p)' /\ TargetInv(p)' /\ HistoryInv(p)'
  <2>1. writer' # p /\ stmts'[p] = 0
    BY <1>1, <1>9, UnlockEffect
  <2>2. LockInv(p)'
    BY <1>9, <2>1 DEF LockInv, InTxn
  <2>3. \A v \in todo[p] : IsNext(p, v)' <=> IsNext(p, v)
    BY <1>9 DEF IsNext
  <2>4. TargetInv(p)'
    BY <1>1, <1>9, <2>3 DEF TargetInv, Has, Applying, InTxn
  <2>5. HistoryInv(p)'
    BY <1>1, <1>9 DEF HistoryInv, Ready, Has, Applying, InTxn
  <2> QED
    BY <2>2, <2>4, <2>5
<1>10. CASE Denied(p)
  <2>1. /\ Unlock(p) /\ pc'[p] = "failed" /\ UNCHANGED <<rows, files, applied, todo>>
    BY <1>1, <1>10 DEF Denied, Goto, TypeOK
  <2> QED
    BY <1>9, <2>1
<1>11. CASE Commit(p)
  <2>1. PICK v \in todo[p] : /\ IsNext(p, v)
                             /\ rows' = [rows EXCEPT ![v] = files[p][v]]
                             /\ todo' = [todo EXCEPT ![p] = @ \ {v}]
    BY <1>11 DEF Commit
  <2>2. /\ pc[p] = "commit" /\ pc'[p] = "loop" /\ writer' # p /\ stmts'[p] = 0
        /\ UNCHANGED <<files, applied>>
    BY <1>1, <1>11, UnlockEffect DEF Commit, Goto, TypeOK
  <2>3. todo'[p] = todo[p] \ {v} /\ v \in Versions /\ rows[v] = NULL
    BY <1>1, <2>1, <2>2 DEF TypeOK, TargetInv, Applying, InTxn
  <2>4. \A u \in Versions : rows'[u] = IF u = v THEN files[p][v] ELSE rows[u]
    BY <1>1, <2>1 DEF TypeOK, Recorded
  <2>5. LockInv(p)' /\ TargetInv(p)'
    BY <1>1, <2>2, <2>3 DEF LockInv, TargetInv, Has, Applying, InTxn
  <2>6. HistoryInv(p)'
    BY <1>1, <2>2, <2>3, <2>4 DEF HistoryInv, Ready, Has, Applying, InTxn
  <2> QED
    BY <2>5, <2>6
<1>12. CASE Busy(p)
  <2>1. /\ pc[p] \in {"bootstrap", "convert", "begin"}
        /\ pc'[p] \in {"bootstrap", "failed"} \cup {pc[p]}
        /\ UNCHANGED <<rows, writer, files, applied, todo, stmts>>
    BY <1>1, <1>12 DEF Busy, Converting, StartOver, LoopOf, Goto, TypeOK, database
  <2>2. \A v \in todo[p] : IsNext(p, v)' <=> IsNext(p, v)
    BY <2>1 DEF IsNext
  <2>3. LockInv(p)' /\ TargetInv(p)' /\ HistoryInv(p)'
    BY <1>1, <2>1, <2>2 DEF LockInv, TargetInv, HistoryInv, Ready, Has, Applying, InTxn
  <2> QED
    BY <2>3
<1>13. CASE Fault(p)
  <2>1. /\ pc[p] \in DOMAIN LoopOf /\ pc'[p] \in {LoopOf[pc[p]], "failed"}
        /\ Unlock(p) /\ UNCHANGED <<rows, files, applied, todo>>
    BY <1>1, <1>13 DEF Fault, StartOver, Goto, TypeOK
  <2> QED
    BY <1>9, <2>1, LoopPoints
<1>14. CASE Crash(p)
  <2>1. Unlock(p) /\ pc'[p] = "down" /\ UNCHANGED <<rows, files, applied, todo>>
    BY <1>1, <1>14 DEF Crash, Goto, TypeOK
  <2> QED
    BY <1>9, <2>1
<1> QED
  BY <1>2, <1>3, <1>4, <1>5, <1>6, <1>7, <1>8, <1>10, <1>11, <1>12, <1>13, <1>14,
     <1>15 DEF Moves, Step

(* No process gets past the bootstrap of a database that is not in WAL mode. *)
LEMMA WalStep ==
    ASSUME IInv, NEW p \in Procs, Moves(p)
    PROVE  WalInv(p)'
<1> USE MigrationsAssumption
<1>1. TypeOK /\ WalInv(p) /\ LockInv(p) /\ TargetInv(p)
  BY DEF IInv, ProcInv
<1>2. CASE Start(p)
  BY <1>1, <1>2 DEF Start, Goto, TypeOK, WalInv, Applying, InTxn, Ready
<1>3. CASE Connect(p) \/ Convert(p)
  BY <1>1, <1>3 DEF Connect, Convert, Goto, TypeOK, WalInv, Applying, InTxn, Ready
<1>4. CASE Bootstrap(p)
  BY <1>1, <1>4 DEF Bootstrap, Goto, TypeOK, WalInv
<1>5. CASE ReadApplied(p) \/ Guard(p) \/ Loop(p) \/ Begin(p) \/ RunStatement(p) \/ Record(p)
  <2>1. /\ pc[p] \in {"read", "guard", "loop"} \cup Applying /\ wal' = wal /\ files' = files
    BY <1>5 DEF ReadApplied, Guard, Loop, Begin, RunStatement, Record, Applying, InTxn, database
  <2> QED
    BY <1>1, <2>1 DEF WalInv, Has
<1>6. CASE Check(p) \/ Denied(p) \/ Commit(p)
  <2>1. /\ pc[p] \in Applying /\ wal' = wal /\ files' = files
    BY <1>6 DEF Check, Denied, Commit, Applying, InTxn
  <2> QED
    BY <1>1, <2>1 DEF WalInv, Has
<1>7. CASE Serve(p) \/ Summarise(p)
  <2>1. /\ pc[p] \in Ready /\ wal' = wal /\ files' = files
    BY <1>7 DEF Serve, Summarise, Ready, database
  <2> QED
    BY <1>1, <2>1 DEF WalInv, Has
<1>8. CASE Busy(p) \/ Fault(p)
  <2>1. /\ pc[p] \in DOMAIN LoopOf /\ wal' = wal /\ files' = files
        /\ pc'[p] \in {LoopOf[pc[p]], "failed"}
    BY <1>1, <1>8, LoopPoints DEF Busy, Converting, Fault, StartOver, Goto, TypeOK, database
  <2>2. LoopOf[pc[p]] \in {"read", "begin"} => pc[p] \in {"read"} \cup Applying
    BY <2>1 DEF LoopOf, Applying, InTxn
  <2> QED
    BY <1>1, <2>1, <2>2, LoopPoints DEF WalInv, Has, Ready, Applying, InTxn
<1>9. CASE Crash(p)
  BY <1>1, <1>9 DEF Crash, Goto, TypeOK, WalInv, Applying, InTxn, Ready
<1> QED
  BY <1>2, <1>3, <1>4, <1>5, <1>6, <1>7, <1>8, <1>9 DEF Moves, Step

(* The inductive invariant holds in every reachable state.                 *)
THEOREM MigrationsInductive == Spec => []IInv
<1>1. IInv /\ [Next]_vars => IInv'
  <2> SUFFICES ASSUME IInv, [Next]_vars, NEW q \in Procs PROVE ProcInv(q)'
    BY TypeStep, SchemaStep DEF IInv
  <2>1. CASE UNCHANGED vars
    <3>1. TypeOK /\ ProcInv(q)
      BY DEF IInv
    <3>2. Same(q) /\ RowsGrow /\ WalStays /\ writer' = writer /\ rows' = rows
      BY <2>1 DEF vars, database, Same, RowsGrow, WalStays
    <3> QED
      BY <3>1, <3>2, OthersKept
  <2>2. CASE Next
    <3>1. PICK p \in Procs : Moves(p)
      BY <2>2 DEF Next, Moves
    <3>2. ProcInv(p)'
      BY <3>1, OwnStep, WalStep DEF ProcInv
    <3> QED
      BY <3>1, <3>2, Frame
  <2> QED
    BY <2>1, <2>2
<1> QED
  BY InitInv, <1>1, PTL DEF Spec

(* Type correctness: every reachable state of the runner is well-typed.    *)
THEOREM MigrationsTypeCorrect == Spec => []TypeOK
<1>1. IInv => TypeOK
  BY DEF IInv
<1> QED
  BY MigrationsInductive, <1>1, PTL

(* A migration has run once and completely if it is recorded and not at    *)
(* all if it is not, for any number of racing, failing, dying processes.   *)
THEOREM AppliedOnceAndWhole == Spec => []RecordsMatchSchema
<1>1. IInv => RecordsMatchSchema
  BY DEF IInv
<1> QED
  BY MigrationsInductive, <1>1, PTL

(* A process that finished start-up runs on the schema of its own release. *)
THEOREM StartedServersFit == Spec => []ServersHaveTheirSchema
<1>1. IInv => ServersHaveTheirSchema
  BY DEF IInv, ProcInv, HistoryInv, WalInv, ServersHaveTheirSchema
<1> QED
  BY MigrationsInductive, <1>1, PTL

\* Every release has all migrations up to its last one, as one line of development
\* produces them; two branches need not (MCMigrations_Branches).
Contiguous == \A release \in Releases : \A v \in Has(release), u \in Versions :
                 u < v => u \in Has(release)

\* There is no gap in the files of a process nor in the table.
NoGaps == /\ \A p \in Procs : files[p] \in Releases \cup {Nothing}
          /\ \A v \in Has(rows), u \in Versions : u < v => u \in Has(rows)

(* What is recorded next closes no gap and leaves none.                    *)
LEMMA GapStep ==
    ASSUME Contiguous, IInv, NoGaps, [Next]_vars
    PROVE  /\ NoGaps'
           /\ \A v \in Has(rows') \ Has(rows), u \in Has(rows) : u < v
<1> USE MigrationsAssumption
<1>1. TypeOK
  BY DEF IInv
<1>2. ASSUME NEW p \in Procs, Commit(p)
      PROVE  NoGaps' /\ \A v \in Has(rows') \ Has(rows), u \in Has(rows) : u < v
  <2>1. PICK v \in todo[p] : IsNext(p, v) /\ rows' = [rows EXCEPT ![v] = files[p][v]]
    BY <1>2 DEF Commit
  <2>2. pc[p] = "commit" /\ v \in Has(files[p]) /\ rows[v] = NULL /\ files' = files
    BY <1>2, <2>1 DEF Commit, IInv, ProcInv, TargetInv, Applying, InTxn
  <2>3. v \in Versions /\ files[p][v] # NULL
    BY <2>2 DEF Has
  <2>4. Has(rows') = Has(rows) \cup {v}
    BY <1>1, <2>1, <2>3 DEF Has, TypeOK, Recorded
  <2>5. \A u \in Versions : u < v => u \in Has(rows)
    <3> SUFFICES ASSUME NEW u \in Versions, u < v PROVE u \in Has(rows)
      OBVIOUS
    <3>1. files[p] \in Releases
      BY <2>3 DEF NoGaps, Nothing
    <3>2. u \in Has(files[p])
      BY <2>2, <3>1 DEF Contiguous
    <3>3. u \notin todo[p]
      BY <2>1, <2>3 DEF IsNext, Versions
    <3>4. rows[u] = files[p][u]
      BY <2>2, <3>2, <3>3 DEF IInv, ProcInv, HistoryInv, Applying, InTxn
    <3> QED
      BY <3>2, <3>4 DEF Has
  <2>6. NoGaps'
    BY <2>2, <2>4, <2>5 DEF NoGaps
  <2>7. \A u \in Has(rows) : u < v
    BY <2>2, <2>3 DEF NoGaps, Has, Versions
  <2> QED
    BY <2>4, <2>6, <2>7
<1>3. ASSUME NEW p \in Procs, Start(p)
      PROVE  rows' = rows /\ \A q \in Procs : files'[q] \in Releases \cup {files[q]}
  BY <1>1, <1>3 DEF Start, TypeOK, database
<1>4. ASSUME NEW p \in Procs, ~ Start(p), ~ Commit(p), Moves(p)
      PROVE  UNCHANGED <<rows, files>>
  BY <1>4 DEF Moves, Step, Connect, Convert, Bootstrap, ReadApplied, Guard, Loop, Begin, Check,
              RunStatement, Denied, Record, Busy, Serve, Summarise, Fault, Crash, database
<1>5. UNCHANGED vars => UNCHANGED <<rows, files>>
  BY DEF vars, database
<1>6. UNCHANGED rows => Has(rows') = Has(rows)
  BY DEF Has
<1> QED
  BY <1>2, <1>3, <1>4, <1>5, <1>6 DEF Next, Moves, NoGaps

(* Between releases of one line of development no process applies a        *)
(* version below a recorded one, whatever the guard has read.              *)
THEOREM UpgradesInOrder == ASSUME Contiguous PROVE Spec => SchemaInOrder
<1>1. Init => NoGaps
  BY DEF Init, NoGaps, Has, Nothing
<1>2. IInv /\ NoGaps /\ [Next]_vars => NoGaps'
  BY GapStep
<1>3. IInv /\ NoGaps /\ [Next]_vars =>
        [\A v \in Has(rows') \ Has(rows), u \in Has(rows) : u < v]_vars
  BY GapStep
<1> QED
  BY MigrationsInductive, <1>1, <1>2, <1>3, PTL DEF Spec, SchemaInOrder
=============================================================================
