-------------------------- MODULE HandoversProofs --------------------------
(***************************************************************************)
(* Proofs about the handover queue, for any agents, runs, consumer ids,      *)
(* poison handovers, staleness values, caps and bounds.                      *)
(***************************************************************************)
EXTENDS Handovers, TLAPS

(* What each kind of row update yields.                                    *)

LEMMA NewRowType == \A a \in Agents : NewRow(a) \in Row
  BY LabelsAssumption, NumbersAssumption DEF NewRow, Row, Ages

LEMMA ClaimedRowType ==
    ASSUME NEW row \in Row, NEW l \in Labels
    PROVE  /\ ClaimedRow(row, l) \in Row
           /\ ClaimedRow(row, l).owner = row.owner
           /\ ClaimedRow(row, l).consumed = row.consumed
           /\ ClaimedRow(row, l).quarantined = row.quarantined
           /\ ClaimedRow(row, l).claimed_by = l
           /\ ClaimedRow(row, l).claim_age = 0
           /\ ClaimedRow(row, l).attempt_count = OneMore(row.attempt_count)
<1>1. OneMore(row.attempt_count) \in 0 .. AttemptBound
  BY NumbersAssumption DEF OneMore, Row
<1>2. 0 \in Ages
  BY NumbersAssumption DEF Ages
<1> QED
  BY <1>1, <1>2 DEF ClaimedRow, Row

LEMMA ReleasedRowType ==
    ASSUME NEW row \in Row
    PROVE  /\ ReleasedRow(row) \in Row
           /\ ReleasedRow(row).owner = row.owner
           /\ ReleasedRow(row).consumed = row.consumed
           /\ ReleasedRow(row).attempt_count = row.attempt_count
  BY NumbersAssumption DEF ReleasedRow, Row, Ages

LEMMA ConsumedRowType ==
    ASSUME NEW row \in Row
    PROVE  /\ [row EXCEPT !.consumed = TRUE] \in Row
           /\ [row EXCEPT !.consumed = TRUE].consumed = TRUE
           /\ [row EXCEPT !.consumed = TRUE].quarantined = row.quarantined
           /\ [row EXCEPT !.consumed = TRUE].owner = row.owner
           /\ [row EXCEPT !.consumed = TRUE].claimed_by = row.claimed_by
           /\ [row EXCEPT !.consumed = TRUE].claim_age = row.claim_age
           /\ [row EXCEPT !.consumed = TRUE].attempt_count = row.attempt_count
  BY DEF Row

LEMMA AgedRowType ==
    ASSUME NEW row \in Row, row.claim_age # NULL, row.claim_age <= MaxStaleMinutes
    PROVE  /\ [row EXCEPT !.claim_age = @ + 1] \in Row
           /\ [row EXCEPT !.claim_age = @ + 1].owner = row.owner
           /\ [row EXCEPT !.claim_age = @ + 1].consumed = row.consumed
           /\ [row EXCEPT !.claim_age = @ + 1].quarantined = row.quarantined
           /\ [row EXCEPT !.claim_age = @ + 1].claimed_by = row.claimed_by
           /\ [row EXCEPT !.claim_age = @ + 1].attempt_count = row.attempt_count
           /\ [row EXCEPT !.claim_age = @ + 1].claim_age = row.claim_age + 1
  BY NumbersAssumption DEF Row, Ages

(* A statement that replaces existing rows by rows leaves a table of rows.   *)
LEMMA UpdateType ==
    ASSUME handovers \in [DOMAIN handovers -> Row],
           NEW new, DOMAIN new \subseteq DOMAIN handovers,
           \A h \in DOMAIN new : new[h] \in Row,
           Update(new)
    PROVE  /\ DOMAIN handovers' = DOMAIN handovers
           /\ handovers' \in [DOMAIN handovers' -> Row]
           /\ \A h \in DOMAIN new : handovers'[h] = new[h]
           /\ \A h \in DOMAIN handovers \ DOMAIN new : handovers'[h] = handovers[h]
  BY DEF Update

-----------------------------------------------------------------------------
(* What each consumer action and the clock do to the rows.                  *)

LEMMA ClaimStep ==
    ASSUME TypeOK, NEW r \in Runs, Claim(r)
    PROVE  \E taken \in SUBSET DOMAIN handovers :
              /\ DOMAIN handovers' = DOMAIN handovers
              /\ handovers' \in [DOMAIN handovers' -> Row]
              /\ \A h \in taken : /\ handovers'[h] = ClaimedRow(handovers[h], LabelOf[r])
                                  /\ OwnerActive(h)
                                  /\ ~ handovers[h].consumed
                                  /\ ~ handovers[h].quarantined
              /\ \A h \in DOMAIN handovers \ taken : handovers'[h] = handovers[h]
              /\ \E s \in StaleChoices : \A h \in taken :
                    handovers[h].claim_age = NULL \/ handovers[h].claim_age > Capped(s)
              /\ batch' = [batch EXCEPT ![r] = taken]
<1>1. PICK stale \in StaleChoices, taken \in SUBSET DOMAIN handovers :
         /\ taken \subseteq Claimable(Capped(stale))
         /\ Update([h \in taken |-> ClaimedRow(handovers[h], LabelOf[r])])
         /\ batch' = [batch EXCEPT ![r] = taken]
  BY DEF Claim, Claimable, OldestOf
<1> DEFINE new == [h \in taken |-> ClaimedRow(handovers[h], LabelOf[r])]
<1>2. \A h \in DOMAIN new : new[h] \in Row
  <2> SUFFICES ASSUME NEW h \in taken PROVE ClaimedRow(handovers[h], LabelOf[r]) \in Row
    OBVIOUS
  <2>1. handovers[h] \in Row /\ LabelOf[r] \in Labels
    BY LabelsAssumption DEF TypeOK
  <2> QED
    BY <2>1, ClaimedRowType
<1>3. /\ DOMAIN handovers' = DOMAIN handovers
      /\ handovers' \in [DOMAIN handovers' -> Row]
      /\ \A h \in DOMAIN new : handovers'[h] = new[h]
      /\ \A h \in DOMAIN handovers \ DOMAIN new : handovers'[h] = handovers[h]
  <2>1. DOMAIN new \subseteq DOMAIN handovers /\ Update(new)
    BY <1>1
  <2> QED
    BY <2>1, <1>2, UpdateType DEF TypeOK
<1>4. \A h \in taken : h \in Claimable(Capped(stale))
  BY <1>1
<1> QED
  BY <1>1, <1>3, <1>4 DEF Claimable

LEMMA AckStep ==
    ASSUME TypeOK, NEW r \in Runs, NEW ids, Ack(r, ids)
    PROVE  /\ DOMAIN handovers' = DOMAIN handovers
           /\ handovers' \in [DOMAIN handovers' -> Row]
           /\ \A h \in Ackable(ids, LabelOf[r]) :
                 handovers'[h] = [handovers[h] EXCEPT !.consumed = TRUE]
           /\ \A h \in DOMAIN handovers \ Ackable(ids, LabelOf[r]) :
                 handovers'[h] = handovers[h]
           /\ \A h \in Ackable(ids, LabelOf[r]) : h \in DOMAIN handovers \cap progress
<1> DEFINE S == Ackable(ids, LabelOf[r])
           new == [h \in S |-> [handovers[h] EXCEPT !.consumed = TRUE]]
<1>1. S \subseteq DOMAIN handovers /\ S \subseteq progress
  BY DEF Ackable, Ack
<1>2. Update(new)
  BY DEF Ack
<1>3. \A h \in DOMAIN new : new[h] \in Row
  BY <1>1, ConsumedRowType DEF TypeOK
<1> HIDE DEF S
<1>4. /\ DOMAIN handovers' = DOMAIN handovers
      /\ handovers' \in [DOMAIN handovers' -> Row]
      /\ \A h \in DOMAIN new : handovers'[h] = new[h]
      /\ \A h \in DOMAIN handovers \ DOMAIN new : handovers'[h] = handovers[h]
  BY <1>1, <1>2, <1>3, UpdateType DEF TypeOK
<1> QED
  BY <1>1, <1>4 DEF S

LEMMA ReleaseStep ==
    ASSUME TypeOK, NEW r \in Runs, NEW ids, Release(r, ids)
    PROVE  /\ DOMAIN handovers' = DOMAIN handovers
           /\ handovers' \in [DOMAIN handovers' -> Row]
           /\ \A h \in Releasable(ids, LabelOf[r]) :
                 handovers'[h] = ReleasedRow(handovers[h])
           /\ \A h \in DOMAIN handovers \ Releasable(ids, LabelOf[r]) :
                 handovers'[h] = handovers[h]
           /\ Releasable(ids, LabelOf[r]) \subseteq DOMAIN handovers
<1> DEFINE S == Releasable(ids, LabelOf[r])
           new == [h \in S |-> ReleasedRow(handovers[h])]
<1>1. S \subseteq DOMAIN handovers
  BY DEF Releasable
<1>2. Update(new)
  BY DEF Release
<1>3. \A h \in DOMAIN new : new[h] \in Row
  BY <1>1, ReleasedRowType DEF TypeOK
<1> HIDE DEF S
<1>4. /\ DOMAIN handovers' = DOMAIN handovers
      /\ handovers' \in [DOMAIN handovers' -> Row]
      /\ \A h \in DOMAIN new : handovers'[h] = new[h]
      /\ \A h \in DOMAIN handovers \ DOMAIN new : handovers'[h] = handovers[h]
  BY <1>1, <1>2, <1>3, UpdateType DEF TypeOK
<1> QED
  BY <1>1, <1>4 DEF S

LEMMA TickStep ==
    ASSUME TypeOK, Tick
    PROVE  /\ DOMAIN handovers' = DOMAIN handovers
           /\ handovers' \in [DOMAIN handovers' -> Row]
           /\ \A h \in Ageing : handovers'[h] = [handovers[h] EXCEPT !.claim_age = @ + 1]
           /\ \A h \in DOMAIN handovers \ Ageing : handovers'[h] = handovers[h]
           /\ Ageing \subseteq DOMAIN handovers
<1> DEFINE new == [h \in Ageing |-> [handovers[h] EXCEPT !.claim_age = @ + 1]]
<1>1. Ageing \subseteq DOMAIN handovers
  BY DEF Ageing
<1>2. Update(new)
  BY DEF Tick
<1>3. \A h \in DOMAIN new : new[h] \in Row
  <2> SUFFICES ASSUME NEW h \in Ageing
               PROVE  [handovers[h] EXCEPT !.claim_age = @ + 1] \in Row
    OBVIOUS
  <2>1. /\ handovers[h] \in Row
        /\ handovers[h].claim_age # NULL
        /\ handovers[h].claim_age <= MaxStaleMinutes
    BY DEF Ageing, TypeOK
  <2> QED
    BY <2>1, AgedRowType
<1>4. /\ DOMAIN handovers' = DOMAIN handovers
      /\ handovers' \in [DOMAIN handovers' -> Row]
      /\ \A h \in DOMAIN new : handovers'[h] = new[h]
      /\ \A h \in DOMAIN handovers \ DOMAIN new : handovers'[h] = handovers[h]
  BY <1>1, <1>2, <1>3, UpdateType DEF TypeOK
<1> QED
  BY <1>1, <1>4
-----------------------------------------------------------------------------
(* The inductive invariant: what is true of every row, as far as the safety *)
(* properties need it.  NothingLost, QuarantineEvidence and NoOrphans are     *)
(* not inductive alone: a release may only be known to keep the evidence of   *)
(* a claim when claimed_by and claimed_at are NULL together.                 *)

RowOK(h) == /\ (handovers[h].claimed_by = NULL) <=> (handovers[h].claim_age = NULL)
            /\ handovers[h].consumed => h \in progress
            /\ handovers[h].quarantined =>
                  /\ handovers[h].claimed_by \in Labels
                  /\ handovers[h].attempt_count >= MaxClaimAttempts
            /\ agents[handovers[h].owner] # "purged"

RowsOK == \A h \in DOMAIN handovers : RowOK(h)

IInv == TypeOK /\ RowsOK

LEMMA InitIInv == Init => IInv
  BY NumbersAssumption DEF Init, IInv, TypeOK, RowsOK, AgentStates

(* The step of the type invariant, one action at a time.                    *)
LEMMA TypeStep == TypeOK /\ [Next]_vars => TypeOK'
<1> SUFFICES ASSUME TypeOK, [Next]_vars PROVE TypeOK'
  OBVIOUS
<1> USE NumbersAssumption
<1>1. ASSUME NEW a \in Agents, Save(a) PROVE TypeOK'
  <2>1. DOMAIN handovers' = DOMAIN handovers \cup {lastId + 1}
    BY <1>1 DEF Save
  <2>2. handovers' \in [DOMAIN handovers' -> Row]
    BY <1>1, <2>1, NewRowType DEF Save, TypeOK
  <2> QED
    BY <1>1, <2>1, <2>2 DEF Save, TypeOK
<1>2. ASSUME NEW a \in Agents, SoftPurge(a) PROVE TypeOK'
  BY <1>2 DEF SoftPurge, TypeOK, AgentStates
<1>3. ASSUME NEW a \in Agents, Unpurge(a) PROVE TypeOK'
  BY <1>3 DEF Unpurge, TypeOK, AgentStates
<1>4. ASSUME NEW a \in Agents, HardPurge(a) PROVE TypeOK'
  <2>1. handovers' \in [DOMAIN handovers' -> Row] /\ DOMAIN handovers' \subseteq DOMAIN handovers
    BY <1>4 DEF HardPurge, Keep, TypeOK
  <2> QED
    BY <1>4, <2>1 DEF HardPurge, TypeOK, AgentStates
<1>5. ASSUME NEW r \in Runs, Claim(r) PROVE TypeOK'
  <2>1. PICK taken \in SUBSET DOMAIN handovers :
           /\ DOMAIN handovers' = DOMAIN handovers
           /\ handovers' \in [DOMAIN handovers' -> Row]
           /\ batch' = [batch EXCEPT ![r] = taken]
    BY <1>5, ClaimStep
  <2> QED
    BY <1>5, <2>1 DEF Claim, TypeOK
<1>6. ASSUME NEW r \in Runs, NEW h \in Ids, Ingest(r, h) PROVE TypeOK'
  BY <1>6 DEF Ingest, TypeOK
<1>7. ASSUME NEW r \in Runs, NEW ids \in SUBSET batch[r], Ack(r, ids) PROVE TypeOK'
  <2>1. PICK replied \in BOOLEAN : batch' = [batch EXCEPT ![r] = IF replied THEN @ \ ids ELSE @]
    BY <1>7 DEF Ack, Drop, Replied
  <2>2. batch' \in [Runs -> SUBSET (1 .. lastId)]
    BY <2>1 DEF TypeOK
  <2> QED
    BY <1>7, <2>2, AckStep DEF Ack, TypeOK
<1>8. ASSUME NEW r \in Runs, NEW ids \in SUBSET batch[r], Release(r, ids) PROVE TypeOK'
  <2>1. PICK replied \in BOOLEAN : batch' = [batch EXCEPT ![r] = IF replied THEN @ \ ids ELSE @]
    BY <1>8 DEF Release, Drop, Replied
  <2>2. batch' \in [Runs -> SUBSET (1 .. lastId)]
    BY <2>1 DEF TypeOK
  <2> QED
    BY <1>8, <2>2, ReleaseStep DEF Release, TypeOK
<1>9. ASSUME NEW r \in Runs, Crash(r) PROVE TypeOK'
  BY <1>9 DEF Crash, TypeOK
<1>10. CASE Tick
  BY <1>10, TickStep DEF Tick, TypeOK
<1>11. CASE UNCHANGED vars
  BY <1>11 DEF vars, TypeOK
<1> QED
  BY <1>1, <1>2, <1>3, <1>4, <1>5, <1>6, <1>7, <1>8, <1>9, <1>10, <1>11 DEF Next

(* The step of the row invariant.                                          *)
LEMMA RowsStep == IInv /\ [Next]_vars => RowsOK'
<1> SUFFICES ASSUME TypeOK, RowsOK, [Next]_vars, NEW h \in DOMAIN handovers' PROVE RowOK(h)'
  BY DEF IInv, RowsOK
<1> USE NumbersAssumption, LabelsAssumption
<1>1. ASSUME NEW a \in Agents, Save(a) PROVE RowOK(h)'
  <2>1. CASE h = lastId + 1
    BY <1>1, <2>1 DEF Save, NewRow, RowOK
  <2>2. CASE h # lastId + 1
    BY <1>1, <2>2 DEF Save, RowOK, RowsOK
  <2> QED
    BY <2>1, <2>2
<1>2. ASSUME NEW a \in Agents, SoftPurge(a) PROVE RowOK(h)'
  <2>1. h \in DOMAIN handovers /\ handovers[h] \in Row
    BY <1>2 DEF SoftPurge, TypeOK
  <2> QED
    BY <1>2, <2>1 DEF SoftPurge, RowOK, RowsOK, TypeOK, Row
<1>3. ASSUME NEW a \in Agents, Unpurge(a) PROVE RowOK(h)'
  <2>1. h \in DOMAIN handovers /\ handovers[h] \in Row
    BY <1>3 DEF Unpurge, TypeOK
  <2> QED
    BY <1>3, <2>1 DEF Unpurge, RowOK, RowsOK, TypeOK, Row
<1>4. ASSUME NEW a \in Agents, HardPurge(a) PROVE RowOK(h)'
  <2>1. /\ h \in DOMAIN handovers /\ handovers[h] \in Row
        /\ handovers'[h] = handovers[h] /\ handovers[h].owner # a
    BY <1>4 DEF HardPurge, Keep, TypeOK
  <2> QED
    BY <1>4, <2>1 DEF HardPurge, RowOK, RowsOK, TypeOK, Row
<1>5. ASSUME NEW r \in Runs, Claim(r) PROVE RowOK(h)'
  <2>1. PICK taken \in SUBSET DOMAIN handovers :
           /\ DOMAIN handovers' = DOMAIN handovers
           /\ \A g \in taken : /\ handovers'[g] = ClaimedRow(handovers[g], LabelOf[r])
                               /\ ~ handovers[g].consumed
                               /\ ~ handovers[g].quarantined
           /\ \A g \in DOMAIN handovers \ taken : handovers'[g] = handovers[g]
    BY <1>5, ClaimStep, ZenonT(30)
  <2>2. handovers[h] \in Row /\ LabelOf[r] \in Labels
    BY <2>1 DEF TypeOK
  <2>3. UNCHANGED <<agents, progress>>
    BY <1>5 DEF Claim
  <2>4. CASE h \in taken
    BY <2>1, <2>2, <2>3, <2>4, ClaimedRowType DEF RowOK, RowsOK
  <2>5. CASE h \notin taken
    BY <2>1, <2>3, <2>5 DEF RowOK, RowsOK
  <2> QED
    BY <2>4, <2>5
<1>6. ASSUME NEW r \in Runs, NEW g \in Ids, Ingest(r, g) PROVE RowOK(h)'
  BY <1>6 DEF Ingest, RowOK, RowsOK
<1>7. ASSUME NEW r \in Runs, NEW ids \in SUBSET batch[r], Ack(r, ids) PROVE RowOK(h)'
  <2>1. h \in DOMAIN handovers /\ handovers[h] \in Row
    BY <1>7, AckStep DEF TypeOK
  <2>2. UNCHANGED <<agents, progress>>
    BY <1>7 DEF Ack
  <2>3. CASE h \in Ackable(ids, LabelOf[r])
    <3>1. handovers'[h] = [handovers[h] EXCEPT !.consumed = TRUE] /\ h \in progress
      BY <1>7, <2>3, AckStep
    <3> QED
      BY <2>1, <2>2, <3>1, ConsumedRowType DEF RowOK, RowsOK
  <2>4. CASE h \notin Ackable(ids, LabelOf[r])
    <3>1. handovers'[h] = handovers[h]
      BY <1>7, <2>1, <2>4, AckStep
    <3> QED
      BY <2>1, <2>2, <3>1 DEF RowOK, RowsOK
  <2> QED
    BY <2>3, <2>4
<1>8. ASSUME NEW r \in Runs, NEW ids \in SUBSET batch[r], Release(r, ids) PROVE RowOK(h)'
  <2>1. h \in DOMAIN handovers /\ handovers[h] \in Row
    BY <1>8, ReleaseStep DEF TypeOK
  <2>2. UNCHANGED <<agents, progress>>
    BY <1>8 DEF Release
  <2>3. CASE h \in Releasable(ids, LabelOf[r])
    <3>1. handovers'[h] = ReleasedRow(handovers[h])
      BY <1>8, <2>3, ReleaseStep
    <3>2. /\ handovers[h].claimed_by = LabelOf[r] /\ LabelOf[r] \in Labels
          /\ ~ handovers[h].consumed /\ ~ handovers[h].quarantined
      BY <2>3 DEF Releasable
    <3> QED
      BY <2>1, <2>2, <3>1, <3>2 DEF ReleasedRow, RowOK, RowsOK, Row
  <2>4. CASE h \notin Releasable(ids, LabelOf[r])
    <3>1. handovers'[h] = handovers[h]
      BY <1>8, <2>1, <2>4, ReleaseStep
    <3> QED
      BY <2>1, <2>2, <3>1 DEF RowOK, RowsOK
  <2> QED
    BY <2>3, <2>4
<1>9. ASSUME NEW r \in Runs, Crash(r) PROVE RowOK(h)'
  BY <1>9 DEF Crash, RowOK, RowsOK
<1>10. CASE Tick
  <2>1. h \in DOMAIN handovers /\ handovers[h] \in Row
    BY <1>10, TickStep DEF TypeOK
  <2>2. UNCHANGED <<agents, progress>>
    BY <1>10 DEF Tick
  <2>3. CASE h \in Ageing
    <3>1. /\ handovers'[h] = [handovers[h] EXCEPT !.claim_age = @ + 1]
          /\ handovers[h].claim_age # NULL
          /\ handovers[h].claim_age <= MaxStaleMinutes
          /\ handovers[h].claim_age + 1 \in Nat
      BY <1>10, <2>1, <2>3, TickStep DEF Ageing, Row, Ages
    <3> QED
      BY <2>1, <2>2, <3>1, AgedRowType DEF RowOK, RowsOK
  <2>4. CASE h \notin Ageing
    <3>1. handovers'[h] = handovers[h]
      BY <1>10, <2>1, <2>4, TickStep
    <3> QED
      BY <2>1, <2>2, <3>1 DEF RowOK, RowsOK
  <2> QED
    BY <2>3, <2>4
<1>11. CASE UNCHANGED vars
  BY <1>11 DEF vars, RowOK, RowsOK
<1> QED
  BY <1>1, <1>2, <1>3, <1>4, <1>5, <1>6, <1>7, <1>8, <1>9, <1>10, <1>11 DEF Next
-----------------------------------------------------------------------------
(* The invariants.                                                         *)

\* Every reachable state of the queue is well-typed.
THEOREM TypeCorrect == Spec => []TypeOK
<1>1. Init => TypeOK
  BY InitIInv DEF IInv
<1> QED
  BY <1>1, TypeStep, PTL DEF Spec

\* The inductive invariant holds in every reachable state.
THEOREM Inductive == Spec => []IInv
<1>1. IInv /\ [Next]_vars => IInv'
  BY TypeStep, RowsStep DEF IInv
<1> QED
  BY <1>1, InitIInv, PTL DEF Spec

\* No handover is consumed before the consumer stored it, however many runs
\* there are and however they crash, are overtaken or lose replies.
THEOREM SafeDelivery == Spec => []NothingLost
<1>1. IInv => NothingLost
  BY DEF IInv, RowsOK, RowOK, NothingLost
<1> QED
  BY <1>1, Inductive, PTL

\* A dead letter always carries its claim and an attempt count at the cap.
THEOREM DeadLettersCarryEvidence == Spec => []QuarantineEvidence
<1>1. IInv => QuarantineEvidence
  BY LabelsAssumption DEF IInv, RowsOK, RowOK, QuarantineEvidence
<1> QED
  BY <1>1, Inductive, PTL

\* No handover outlives the agent that saved it.
THEOREM RowsHaveOwners == Spec => []NoOrphans
<1>1. IInv => NoOrphans
  BY DEF IInv, RowsOK, RowOK, NoOrphans
<1> QED
  BY <1>1, Inductive, PTL
-----------------------------------------------------------------------------
(* What a step may do to one row: the five ways a surviving row changes.    *)

RowUnchanged(h) == handovers'[h] = handovers[h]

RowClaimed(h) == /\ \E l \in Labels : handovers'[h] = ClaimedRow(handovers[h], l)
                 /\ OwnerActive(h)
                 /\ ~ handovers[h].consumed
                 /\ ~ handovers[h].quarantined
                 /\ \/ handovers[h].claim_age = NULL
                    \/ \E s \in StaleChoices : handovers[h].claim_age > Capped(s)

RowConsumed(h) == /\ handovers'[h] = [handovers[h] EXCEPT !.consumed = TRUE]
                  /\ h \in progress
                  /\ OwnerActive(h)
                  /\ ~ handovers[h].consumed

RowReleased(h) == /\ handovers'[h] = ReleasedRow(handovers[h])
                  /\ OwnerActive(h)
                  /\ ~ handovers[h].consumed
                  /\ ~ handovers[h].quarantined

RowAged(h) == /\ handovers'[h] = [handovers[h] EXCEPT !.claim_age = @ + 1]
              /\ h \in Ageing

LEMMA RowStep ==
    ASSUME TypeOK, [Next]_vars, NEW h \in DOMAIN handovers, Survives(h)
    PROVE  RowUnchanged(h) \/ RowClaimed(h) \/ RowConsumed(h) \/ RowReleased(h) \/ RowAged(h)
<1> USE DEF RowUnchanged
<1>1. ASSUME NEW a \in Agents, Save(a) PROVE RowUnchanged(h)
  <2>1. h # lastId + 1
    BY NumbersAssumption DEF TypeOK
  <2> QED
    BY <1>1, <2>1 DEF Save
<1>2. ASSUME NEW a \in Agents, SoftPurge(a) \/ Unpurge(a) PROVE RowUnchanged(h)
  BY <1>2 DEF SoftPurge, Unpurge
<1>3. ASSUME NEW a \in Agents, HardPurge(a) PROVE RowUnchanged(h)
  BY <1>3 DEF HardPurge, Keep, Survives
<1>4. ASSUME NEW r \in Runs, Claim(r) PROVE RowUnchanged(h) \/ RowClaimed(h)
  <2>1. LabelOf[r] \in Labels
    BY LabelsAssumption
  <2> QED
    BY <1>4, <2>1, ClaimStep DEF RowClaimed
<1>5. ASSUME NEW r \in Runs, NEW ids \in SUBSET batch[r], Ack(r, ids)
      PROVE  RowUnchanged(h) \/ RowConsumed(h)
  BY <1>5, AckStep DEF RowConsumed, Ackable
<1>6. ASSUME NEW r \in Runs, NEW ids \in SUBSET batch[r], Release(r, ids)
      PROVE  RowUnchanged(h) \/ RowReleased(h)
  BY <1>6, ReleaseStep DEF RowReleased, Releasable
<1>7. ASSUME NEW r \in Runs, (\E g \in Ids : Ingest(r, g)) \/ Crash(r) PROVE RowUnchanged(h)
  BY <1>7 DEF Ingest, Crash
<1>8. CASE Tick
  BY <1>8, TickStep DEF RowAged
<1>9. CASE UNCHANGED vars
  BY <1>9 DEF vars
<1> QED
  BY <1>1, <1>2, <1>3, <1>4, <1>5, <1>6, <1>7, <1>8, <1>9 DEF Next

\* A consumed handover never changes again.
THEOREM ConsumedStaysConsumed == Spec => ConsumedIsFinal
<1>1. TypeOK /\ [Next]_vars => [\A h \in DOMAIN handovers : handovers[h].consumed /\ Survives(h)
                                    => handovers'[h] = handovers[h]]_vars
  <2> SUFFICES ASSUME TypeOK, [Next]_vars, NEW h \in DOMAIN handovers,
                      handovers[h].consumed, Survives(h)
               PROVE  RowUnchanged(h)
    BY DEF RowUnchanged
  <2>1. RowUnchanged(h) \/ RowAged(h)
    BY RowStep DEF RowClaimed, RowConsumed, RowReleased
  <2> QED
    BY <2>1 DEF RowAged, Ageing, Settled
<1> QED
  BY <1>1, TypeCorrect, PTL DEF Spec, ConsumedIsFinal

\* A dead letter is never claimed or freed again.
THEOREM DeadLettersStayDead == Spec => DeadLettersAreNotRetried
<1>1. TypeOK /\ [Next]_vars =>
         [\A h \in DOMAIN handovers : handovers[h].quarantined /\ Survives(h)
              => handovers'[h].quarantined /\ SameClaim(h)]_vars
  <2> SUFFICES ASSUME TypeOK, [Next]_vars, NEW h \in DOMAIN handovers,
                      handovers[h].quarantined, Survives(h)
               PROVE  handovers'[h].quarantined /\ SameClaim(h)
    OBVIOUS
  <2>1. RowUnchanged(h) \/ RowConsumed(h) \/ RowAged(h)
    BY RowStep DEF RowClaimed, RowReleased
  <2>2. ~ RowAged(h)
    BY DEF RowAged, Ageing, Settled
  <2>3. handovers[h] \in Row
    BY DEF TypeOK
  <2> QED
    BY <2>1, <2>2, <2>3, ConsumedRowType DEF RowUnchanged, RowConsumed, SameClaim
<1> QED
  BY <1>1, TypeCorrect, PTL DEF Spec, DeadLettersAreNotRetried

\* While its owner is soft-purged, a handover's claim and fate do not change.
THEOREM PurgedRowsStayFrozen == Spec => PurgedOwnersRowsAreFrozen
<1>1. TypeOK /\ [Next]_vars =>
         [\A h \in DOMAIN handovers : ~ OwnerActive(h) /\ Survives(h)
            => /\ handovers'[h].claimed_by = handovers[h].claimed_by
               /\ handovers'[h].attempt_count = handovers[h].attempt_count
               /\ handovers'[h].consumed = handovers[h].consumed
               /\ handovers'[h].quarantined = handovers[h].quarantined]_vars
  <2> SUFFICES ASSUME TypeOK, [Next]_vars, NEW h \in DOMAIN handovers,
                      ~ OwnerActive(h), Survives(h)
               PROVE  /\ handovers'[h].claimed_by = handovers[h].claimed_by
                      /\ handovers'[h].attempt_count = handovers[h].attempt_count
                      /\ handovers'[h].consumed = handovers[h].consumed
                      /\ handovers'[h].quarantined = handovers[h].quarantined
    OBVIOUS
  <2>1. RowUnchanged(h) \/ RowAged(h)
    BY RowStep DEF RowClaimed, RowConsumed, RowReleased
  <2>2. handovers[h] \in Row
    BY DEF TypeOK
  <2> QED
    BY <2>1, <2>2, AgedRowType DEF RowUnchanged, RowAged, Ageing
<1> QED
  BY <1>1, TypeCorrect, PTL DEF Spec, PurgedOwnersRowsAreFrozen

\* A claim that no stale_minutes in use exceeds is not taken over.
THEOREM FreshClaimsStay == Spec => FreshClaimsAreKept
<1>1. TypeOK /\ [Next]_vars =>
         [\A h \in DOMAIN handovers :
            /\ handovers[h].claim_age # NULL
            /\ \A s \in StaleChoices : handovers[h].claim_age <= Capped(s)
            /\ Survives(h)
            => /\ handovers'[h].attempt_count = handovers[h].attempt_count
               /\ handovers'[h].claimed_by \in {handovers[h].claimed_by, NULL}]_vars
  <2> SUFFICES ASSUME TypeOK, [Next]_vars, NEW h \in DOMAIN handovers, Survives(h),
                      handovers[h].claim_age # NULL,
                      \A s \in StaleChoices : handovers[h].claim_age <= Capped(s)
               PROVE  /\ handovers'[h].attempt_count = handovers[h].attempt_count
                      /\ handovers'[h].claimed_by \in {handovers[h].claimed_by, NULL}
    OBVIOUS
  <2>1. handovers[h] \in Row /\ handovers[h].claim_age \in Nat
    BY NumbersAssumption DEF TypeOK, Row, Ages
  <2>2. ~ RowClaimed(h)
    BY <2>1, NumbersAssumption DEF RowClaimed, Capped
  <2>3. RowUnchanged(h) \/ RowConsumed(h) \/ RowReleased(h) \/ RowAged(h)
    BY <2>2, RowStep
  <2>4. CASE RowReleased(h)
    BY <2>1, <2>4 DEF RowReleased, ReleasedRow, Row
  <2>5. CASE RowUnchanged(h) \/ RowConsumed(h)
    BY <2>1, <2>5, ConsumedRowType DEF RowUnchanged, RowConsumed
  <2>6. CASE RowAged(h)
    BY <2>1, <2>6, AgedRowType DEF RowAged, Ageing
  <2> QED
    BY <2>3, <2>4, <2>5, <2>6
<1> QED
  BY <1>1, TypeCorrect, PTL DEF Spec, FreshClaimsAreKept
-----------------------------------------------------------------------------
(* Mutual exclusion of the runs.                                            *)

\* A run's unsettled handover has a claim too young for anyone else to take.
Fresh(h) == /\ handovers[h].claim_age # NULL
            /\ \A s \in StaleChoices : handovers[h].claim_age <= Capped(s)

HeldInv == \A r \in Runs : \A h \in batch[r] \cap DOMAIN handovers :
              \/ Settled(h)
              \/ Fresh(h) /\ \A q \in Runs \ {r} : h \notin batch[q]

LEMMA HeldStep ==
    ASSUME PromptRuns, ~ LostReplies, TypeOK, HeldInv, [Next]_vars
    PROVE  HeldInv'
<1> USE NumbersAssumption
<1>1. ASSUME NEW a \in Agents, Save(a) PROVE HeldInv'
  <2>1. lastId \in Nat /\ DOMAIN handovers \subseteq 1 .. lastId /\ batch' = batch
        /\ \A r \in Runs : batch[r] \subseteq 1 .. lastId
    BY <1>1 DEF Save, TypeOK
  <2>2. \A r \in Runs : \A h \in batch[r] \cap DOMAIN handovers' :
           h \in DOMAIN handovers /\ handovers'[h] = handovers[h]
    BY <1>1, <2>1 DEF Save
  <2> QED
    BY <2>1, <2>2 DEF HeldInv, Settled, Fresh
<1>2. ASSUME NEW a \in Agents, SoftPurge(a) \/ Unpurge(a) PROVE HeldInv'
  BY <1>2 DEF SoftPurge, Unpurge, HeldInv, Settled, Fresh
<1>3. ASSUME NEW a \in Agents, HardPurge(a) PROVE HeldInv'
  <2>1. /\ batch' = batch
        /\ \A h \in DOMAIN handovers' : h \in DOMAIN handovers /\ handovers'[h] = handovers[h]
    BY <1>3 DEF HardPurge, Keep
  <2> QED
    BY <2>1 DEF HeldInv, Settled, Fresh
<1>4. ASSUME NEW r \in Runs, Claim(r) PROVE HeldInv'
  <2>1. PICK taken \in SUBSET DOMAIN handovers :
           /\ DOMAIN handovers' = DOMAIN handovers
           /\ \A h \in taken : handovers'[h] = ClaimedRow(handovers[h], LabelOf[r])
           /\ \A h \in taken : ~ Settled(h)
           /\ \A h \in DOMAIN handovers \ taken : handovers'[h] = handovers[h]
           /\ \E s \in StaleChoices : \A h \in taken :
                 handovers[h].claim_age = NULL \/ handovers[h].claim_age > Capped(s)
           /\ batch' = [batch EXCEPT ![r] = taken]
    BY <1>4, ClaimStep DEF Settled
  <2>2. ASSUME NEW h \in taken PROVE ~ Fresh(h)
    <3>1. handovers[h].claim_age = NULL \/ handovers[h].claim_age \in Nat
      BY <2>1 DEF TypeOK, Row, Ages
    <3>2. PICK s \in StaleChoices :
             handovers[h].claim_age = NULL \/ handovers[h].claim_age > Capped(s)
      BY <2>1
    <3>3. Capped(s) \in Nat
      BY <3>2 DEF Capped
    <3>4. handovers[h].claim_age = NULL \/ ~ (handovers[h].claim_age <= Capped(s))
      BY <3>1, <3>2, <3>3
    <3> QED
      BY <3>2, <3>4, Zenon DEF Fresh
  <2>3. \A h \in taken : \A q \in Runs : h \notin batch[q]
    BY <2>1, <2>2 DEF HeldInv
  <2>4. ASSUME NEW h \in taken PROVE Fresh(h)'
    <3>1. handovers'[h].claim_age = 0
      <4>1. handovers[h] \in Row /\ LabelOf[r] \in Labels
        BY <2>1, LabelsAssumption DEF TypeOK
      <4>2. handovers'[h] = ClaimedRow(handovers[h], LabelOf[r])
        BY <2>1
      <4> QED
        BY <4>1, <4>2, ClaimedRowType
    <3> QED
      BY <3>1 DEF Fresh, Capped
  <2>5. batch \in [Runs -> SUBSET (1 .. lastId)] /\ batch[r] = {}
    BY <1>4 DEF TypeOK, Claim
  <2> SUFFICES ASSUME NEW q \in Runs, NEW h \in batch'[q] \cap DOMAIN handovers'
               PROVE  \/ Settled(h)'
                      \/ Fresh(h)' /\ \A p \in Runs \ {q} : h \notin batch'[p]
    BY DEF HeldInv
  <2>6. CASE q = r
    BY <2>1, <2>3, <2>4, <2>5, <2>6
  <2>7. CASE q # r
    <3>1. h \in batch[q] /\ h \notin taken /\ h \in DOMAIN handovers
      BY <2>1, <2>3, <2>5, <2>7
    <3>2. Settled(h) \/ (Fresh(h) /\ \A p \in Runs \ {q} : h \notin batch[p])
      BY <3>1 DEF HeldInv
    <3>3. handovers'[h] = handovers[h]
      BY <2>1, <3>1
    <3>4. \A p \in Runs \ {q} : h \notin batch[p] => h \notin batch'[p]
      BY <2>1, <2>5, <3>1
    <3> QED
      BY <3>2, <3>3, <3>4 DEF Settled, Fresh
  <2> QED
    BY <2>6, <2>7
<1>5. ASSUME NEW r \in Runs, NEW h \in Ids, Ingest(r, h) PROVE HeldInv'
  BY <1>5 DEF Ingest, HeldInv, Settled, Fresh
<1>6. ASSUME NEW r \in Runs, NEW ids \in SUBSET batch[r], Ack(r, ids) PROVE HeldInv'
  <2>1. batch' = [batch EXCEPT ![r] = @ \ ids] /\ batch \in [Runs -> SUBSET (1 .. lastId)]
    BY <1>6 DEF Ack, Drop, Replied, TypeOK
  <2>2. \A q \in Runs : batch'[q] \subseteq batch[q]
    BY <2>1
  <2>3. DOMAIN handovers' = DOMAIN handovers
    BY <1>6, AckStep
  <2>4. ASSUME NEW h \in DOMAIN handovers
        PROVE  /\ Settled(h) => Settled(h)'
               /\ handovers'[h].claim_age = handovers[h].claim_age
    <3>1. handovers[h] \in Row
      BY DEF TypeOK
    <3>2. \/ handovers'[h] = handovers[h]
          \/ handovers'[h] = [handovers[h] EXCEPT !.consumed = TRUE]
      BY <1>6, AckStep
    <3> QED
      BY <3>1, <3>2, ConsumedRowType DEF Settled
  <2> QED
    BY <2>2, <2>3, <2>4 DEF HeldInv, Fresh
<1>7. ASSUME NEW r \in Runs, NEW ids \in SUBSET batch[r], Release(r, ids) PROVE HeldInv'
  <2>1. batch' = [batch EXCEPT ![r] = @ \ ids] /\ batch \in [Runs -> SUBSET (1 .. lastId)]
    BY <1>7 DEF Release, Drop, Replied, TypeOK
  <2>2. \A q \in Runs : batch'[q] \subseteq batch[q]
    BY <2>1
  <2>3. DOMAIN handovers' = DOMAIN handovers
    BY <1>7, ReleaseStep
  <2>4. Releasable(ids, LabelOf[r]) \subseteq ids
    BY DEF Releasable
  <2> SUFFICES ASSUME NEW q \in Runs, NEW h \in batch'[q] \cap DOMAIN handovers'
               PROVE  \/ Settled(h)'
                      \/ Fresh(h)' /\ \A p \in Runs \ {q} : h \notin batch'[p]
    BY DEF HeldInv
  <2>5. h \in batch[q] /\ h \in DOMAIN handovers
    BY <2>2, <2>3
  <2>6. Settled(h) \/ (Fresh(h) /\ \A p \in Runs \ {q} : h \notin batch[p])
    BY <2>5 DEF HeldInv
  <2>7. CASE h \notin Releasable(ids, LabelOf[r])
    <3>1. handovers'[h] = handovers[h]
      BY <1>7, <2>5, <2>7, ReleaseStep
    <3> QED
      BY <2>2, <2>6, <3>1 DEF Settled, Fresh
  <2>8. CASE h \in Releasable(ids, LabelOf[r])
    <3>1. h \in batch[r] /\ q # r /\ ~ Settled(h)
      BY <2>1, <2>4, <2>8 DEF Releasable, Settled
    <3> QED
      BY <2>6, <3>1
  <2> QED
    BY <2>7, <2>8
<1>8. ASSUME NEW r \in Runs, Crash(r) PROVE HeldInv'
  <2>1. \A q \in Runs : batch'[q] \subseteq batch[q]
    BY <1>8 DEF Crash, TypeOK
  <2> QED
    BY <1>8, <2>1 DEF Crash, HeldInv, Settled, Fresh
<1>9. CASE Tick
  <2>1. /\ DOMAIN handovers' = DOMAIN handovers
        /\ \A g \in Ageing : handovers'[g] = [handovers[g] EXCEPT !.claim_age = @ + 1]
        /\ \A g \in DOMAIN handovers \ Ageing : handovers'[g] = handovers[g]
        /\ batch' = batch
    BY <1>9, TickStep DEF Tick
  <2> SUFFICES ASSUME NEW q \in Runs, NEW h \in batch[q] \cap DOMAIN handovers
               PROVE  \/ Settled(h)'
                      \/ Fresh(h)' /\ \A p \in Runs \ {q} : h \notin batch[p]
    BY <2>1 DEF HeldInv
  <2>2. Settled(h) \/ (Fresh(h) /\ \A p \in Runs \ {q} : h \notin batch[p])
    BY DEF HeldInv
  <2>3. CASE h \notin Ageing
    BY <2>1, <2>2, <2>3 DEF Settled, Fresh
  <2>4. CASE h \in Ageing
    <3>1. ~ Settled(h) /\ handovers[h].claim_age # NULL /\ handovers[h] \in Row
          /\ handovers[h].claim_age <= MaxStaleMinutes
      BY <2>4 DEF Ageing, TypeOK
    <3>2. \A s \in StaleChoices : handovers[h].claim_age < Capped(s)
      BY <1>9, <2>4 DEF Tick
    <3>3. handovers'[h].claim_age = handovers[h].claim_age + 1
      <4>1. handovers'[h] = [handovers[h] EXCEPT !.claim_age = @ + 1]
        BY <2>1, <2>4
      <4> QED
        BY <3>1, <4>1, AgedRowType
    <3>4. handovers[h].claim_age \in Nat /\ \A s \in StaleChoices : Capped(s) \in Nat
      <4>1. handovers[h].claim_age \in Ages
        BY <3>1 DEF Row
      <4>2. \A s \in StaleChoices : Capped(s) \in Nat
        BY DEF Capped
      <4> QED
        BY <4>1, <4>2 DEF Ages
    <3>5. Fresh(h)'
      <4>1. /\ handovers[h].claim_age + 1 # NULL
            /\ \A s \in StaleChoices : handovers[h].claim_age + 1 <= Capped(s)
        BY <3>2, <3>4
      <4> QED
        BY <3>3, <4>1 DEF Fresh
    <3> QED
      BY <2>2, <3>1, <3>5
  <2> QED
    BY <2>3, <2>4
<1>10. CASE UNCHANGED vars
  BY <1>10 DEF vars, HeldInv, Settled, Fresh
<1> QED
  BY <1>1, <1>2, <1>3, <1>4, <1>5, <1>6, <1>7, <1>8, <1>9, <1>10 DEF Next

\* When every run finishes before its claims are stale and no reply is lost, no
\* two runs ever work on the same unsettled handover, even under one consumer_id.
THEOREM MutualExclusion ==
    ASSUME PromptRuns, ~ LostReplies
    PROVE  Spec => []ExclusiveHolding
<1>1. Init => HeldInv
  BY DEF Init, HeldInv
<1>2. TypeOK /\ HeldInv /\ [Next]_vars => HeldInv'
  BY HeldStep
<1>3. HeldInv => ExclusiveHolding
  BY DEF HeldInv, ExclusiveHolding
<1> QED
  BY <1>1, <1>2, <1>3, TypeCorrect, PTL DEF Spec
-----------------------------------------------------------------------------
(* How often a handover is claimed.                                         *)

\* What a claim may have been lost to.
Budget == MaxClaimAttempts + crashes + purges

InHand(h) == \E r \in Runs : h \in batch[r]

\* What a run holds unsettled carries the run's own claim.
TaggedInv == \A r \in Runs : \A h \in batch[r] \cap DOMAIN handovers :
                Settled(h) \/ handovers[h].claimed_by = LabelOf[r]

\* A handover nobody claimed has a claim left; a claim nobody works on any more, or
\* whose owner is soft-purged, was lost to a crash or a purge that is counted.
RetryOK(h) == /\ handovers[h].attempt_count <= Budget
              /\ ~ Settled(h) =>
                    /\ handovers[h].claim_age = NULL => handovers[h].attempt_count < MaxClaimAttempts
                    /\ ~ (OwnerActive(h) /\ InHand(h)) => handovers[h].attempt_count < Budget

RetryInv == \A h \in DOMAIN handovers : RetryOK(h)

LEMMA BudgetType ==
    ASSUME TypeOK
    PROVE  Budget \in Nat /\ Budget >= MaxClaimAttempts
  BY NumbersAssumption DEF Budget, TypeOK

LEMMA CountType ==
    ASSUME TypeOK, NEW h \in DOMAIN handovers
    PROVE  handovers[h] \in Row /\ handovers[h].attempt_count \in Nat
  BY NumbersAssumption DEF TypeOK, Row

\* A row a step leaves alone, while its owner and its run go on.
LEMMA SameRowKeeps ==
    ASSUME TypeOK, NEW h \in DOMAIN handovers, RetryOK(h), handovers'[h] = handovers[h],
           UNCHANGED <<crashes, purges>>,
           OwnerActive(h) /\ InHand(h) => OwnerActive(h)' /\ InHand(h)'
    PROVE  RetryOK(h)'
<1>1. Budget' = Budget /\ (Settled(h)' <=> Settled(h))
  BY DEF Budget, Settled
<1> QED
  BY <1>1 DEF RetryOK

\* A crash, or a soft purge, may cost any handover the run that works on it.
LEMMA LostClaimKeeps ==
    ASSUME TypeOK, NEW h \in DOMAIN handovers, RetryOK(h), handovers'[h] = handovers[h],
           Budget' = Budget + 1
    PROVE  RetryOK(h)'
<1>1. Settled(h)' <=> Settled(h)
  BY DEF Settled
<1>2. handovers[h].attempt_count < Budget' /\ handovers[h].attempt_count <= Budget'
  BY BudgetType, CountType DEF RetryOK
<1> QED
  BY <1>1, <1>2 DEF RetryOK

\* A settled handover only has to have been claimed within the budget.
LEMMA SettledRowKeeps ==
    ASSUME TypeOK, NEW h \in DOMAIN handovers, RetryOK(h), Settled(h)',
           handovers'[h].attempt_count = handovers[h].attempt_count,
           UNCHANGED <<crashes, purges>>
    PROVE  RetryOK(h)'
  BY DEF RetryOK, Budget

\* A claim takes what nobody works on.
Takes(r, taken) ==
    /\ taken \subseteq DOMAIN handovers /\ DOMAIN handovers' = DOMAIN handovers
    /\ \A h \in taken : /\ handovers'[h] = ClaimedRow(handovers[h], LabelOf[r])
                        /\ ~ Settled(h) /\ OwnerActive(h) /\ ~ InHand(h)
    /\ \A h \in DOMAIN handovers \ taken : handovers'[h] = handovers[h]
    /\ batch' = [batch EXCEPT ![r] = taken] /\ batch[r] = {}
    /\ UNCHANGED <<agents, crashes, purges>>

LEMMA ClaimTakes ==
    ASSUME TypeOK, HeldInv, NEW r \in Runs, Claim(r)
    PROVE  \E taken : Takes(r, taken)
<1>1. PICK taken \in SUBSET DOMAIN handovers :
         /\ DOMAIN handovers' = DOMAIN handovers
         /\ \A h \in taken : handovers'[h] = ClaimedRow(handovers[h], LabelOf[r])
         /\ \A h \in taken : ~ Settled(h) /\ OwnerActive(h)
         /\ \A h \in DOMAIN handovers \ taken : handovers'[h] = handovers[h]
         /\ \E s \in StaleChoices : \A h \in taken :
               handovers[h].claim_age = NULL \/ handovers[h].claim_age > Capped(s)
         /\ batch' = [batch EXCEPT ![r] = taken]
  BY ClaimStep DEF Settled
<1>2. ASSUME NEW h \in taken PROVE ~ Fresh(h)
  <2>1. handovers[h].claim_age = NULL \/ handovers[h].claim_age \in Nat
    BY <1>1, NumbersAssumption DEF TypeOK, Row, Ages
  <2>2. PICK s \in StaleChoices :
           handovers[h].claim_age = NULL \/ handovers[h].claim_age > Capped(s)
    BY <1>1
  <2>3. Capped(s) \in Nat
    BY <2>2, NumbersAssumption DEF Capped
  <2>4. handovers[h].claim_age = NULL \/ ~ (handovers[h].claim_age <= Capped(s))
    BY <2>1, <2>2, <2>3
  <2> QED
    BY <2>2, <2>4, Zenon DEF Fresh
<1>3. \A h \in taken : ~ InHand(h)
  BY <1>1, <1>2 DEF HeldInv, InHand
<1>4. batch[r] = {} /\ UNCHANGED <<agents, crashes, purges>>
  BY DEF Claim
<1>5. Takes(r, taken)
  BY <1>1, <1>3, <1>4 DEF Takes
<1> QED
  BY <1>5

LEMMA ClaimKeeps ==
    ASSUME IInv, HeldInv, TaggedInv, RetryInv, NEW r \in Runs, Claim(r)
    PROVE  TaggedInv' /\ RetryInv'
<1>1. PICK taken : Takes(r, taken)
  BY ClaimTakes DEF IInv
<1>2. TypeOK /\ batch \in [Runs -> SUBSET (1 .. lastId)] /\ LabelOf[r] \in Labels
  BY LabelsAssumption DEF IInv, TypeOK
<1>3. /\ batch'[r] = taken /\ \A q \in Runs \ {r} : batch'[q] = batch[q]
      /\ \A h \in taken : handovers'[h] = ClaimedRow(handovers[h], LabelOf[r])
      /\ \A h \in DOMAIN handovers \ taken : handovers'[h] = handovers[h]
      /\ taken \subseteq DOMAIN handovers /\ DOMAIN handovers' = DOMAIN handovers
      /\ batch[r] = {} /\ UNCHANGED <<agents, crashes, purges>>
  BY <1>1, <1>2 DEF Takes
<1>4. ASSUME NEW h \in taken
      PROVE  /\ handovers'[h].claimed_by = LabelOf[r] /\ handovers'[h].claim_age # NULL
             /\ handovers'[h].attempt_count = OneMore(handovers[h].attempt_count)
             /\ handovers'[h].owner = handovers[h].owner
             /\ ~ InHand(h) /\ OwnerActive(h) /\ ~ Settled(h)
  <2>1. handovers[h] \in Row
    BY <1>2, <1>3, CountType
  <2> QED
    BY <1>1, <1>2, <1>3, <2>1, ClaimedRowType, NumbersAssumption DEF Takes
<1>5. TaggedInv'
  <2>1. ASSUME NEW q \in Runs, NEW h \in batch'[q] \cap DOMAIN handovers'
        PROVE  Settled(h)' \/ handovers'[h].claimed_by = LabelOf[q]
    <3>1. CASE q = r
      BY <1>3, <1>4, <3>1
    <3>2. CASE q # r
      <4>1. h \in batch[q] \cap DOMAIN handovers /\ handovers'[h] = handovers[h]
        BY <1>3, <1>4, <3>2 DEF InHand
      <4> QED
        BY <4>1 DEF TaggedInv, Settled
    <3> QED
      BY <3>1, <3>2
  <2> QED
    BY <2>1 DEF TaggedInv
<1>6. RetryInv'
  <2>1. ASSUME NEW h \in taken PROVE RetryOK(h)'
    <3>1. handovers[h].attempt_count < Budget /\ handovers[h].attempt_count \in Nat
      BY <1>2, <1>3, <1>4, CountType DEF RetryInv, RetryOK
    <3>2. handovers'[h].attempt_count <= Budget /\ Budget' = Budget
      BY <1>2, <1>3, <1>4, <3>1, BudgetType DEF OneMore, Budget
    <3>3. InHand(h)' /\ OwnerActive(h)'
      BY <1>3, <1>4 DEF InHand, OwnerActive
    <3> QED
      BY <1>4, <3>2, <3>3 DEF RetryOK
  <2>2. ASSUME NEW h \in DOMAIN handovers \ taken PROVE RetryOK(h)'
    <3>1. InHand(h) => InHand(h)'
      BY <1>3 DEF InHand
    <3>2. OwnerActive(h)' <=> OwnerActive(h)
      BY <1>3 DEF OwnerActive
    <3> QED
      BY <1>2, <1>3, <3>1, <3>2, SameRowKeeps DEF RetryInv
  <2> QED
    BY <1>3, <2>1, <2>2 DEF RetryInv
<1> QED
  BY <1>5, <1>6

\* A run drops what it acknowledged, or what the ack would not touch: its own claim, of
\* an owner that is soft-purged.
LEMMA AckKeeps ==
    ASSUME ~ LostReplies, IInv, TaggedInv, RetryInv, NEW r \in Runs, NEW ids \in SUBSET batch[r],
           Ack(r, ids)
    PROVE  TaggedInv' /\ RetryInv'
<1> DEFINE S == Ackable(ids, LabelOf[r])
<1>1. /\ TypeOK /\ batch \in [Runs -> SUBSET (1 .. lastId)]
      /\ batch' = [batch EXCEPT ![r] = @ \ ids] /\ UNCHANGED <<agents, crashes, purges>>
  BY DEF IInv, TypeOK, Ack, Drop, Replied
<1>2. /\ batch'[r] = batch[r] \ ids /\ \A q \in Runs \ {r} : batch'[q] = batch[q]
  BY <1>1
<1>3. /\ DOMAIN handovers' = DOMAIN handovers
      /\ \A h \in S : handovers'[h] = [handovers[h] EXCEPT !.consumed = TRUE]
      /\ \A h \in DOMAIN handovers \ S : handovers'[h] = handovers[h]
      /\ S \subseteq DOMAIN handovers
  BY <1>1, AckStep
<1>4. ASSUME NEW h \in S
      PROVE  /\ Settled(h)' /\ handovers'[h].attempt_count = handovers[h].attempt_count
             /\ handovers'[h].claimed_by = handovers[h].claimed_by
  <2>1. handovers[h] \in Row
    BY <1>1, <1>3, CountType
  <2> QED
    BY <1>3, <2>1, ConsumedRowType DEF Settled
<1>5. ASSUME NEW h \in (ids \cap DOMAIN handovers) \ S, ~ Settled(h)
      PROVE  ~ OwnerActive(h)
  <2>1. handovers[h].claimed_by = LabelOf[r]
    BY <1>5 DEF TaggedInv
  <2> QED
    BY <1>5, <2>1 DEF Ackable, Settled
<1> HIDE DEF S
<1>6. TaggedInv'
  BY <1>2, <1>3, <1>4 DEF TaggedInv, Settled
<1>7. ASSUME NEW h \in DOMAIN handovers PROVE RetryOK(h)'
  <2>1. RetryOK(h)
    BY DEF RetryInv
  <2>2. CASE h \in S
    BY <1>1, <1>4, <2>1, <2>2, SettledRowKeeps
  <2>3. CASE h \notin S /\ Settled(h)
    BY <1>1, <1>3, <2>1, <2>3, SettledRowKeeps DEF Settled
  <2>4. CASE h \notin S /\ ~ Settled(h)
    <3>1. OwnerActive(h) /\ InHand(h) => OwnerActive(h)' /\ InHand(h)'
      BY <1>1, <1>2, <1>3, <1>5, <2>4 DEF OwnerActive, InHand
    <3> QED
      BY <1>1, <1>3, <2>1, <2>4, <3>1, SameRowKeeps
  <2> QED
    BY <2>2, <2>3, <2>4
<1> QED
  BY <1>3, <1>6, <1>7 DEF RetryInv

\* A release below the cap leaves a claim for the next run; at the cap it settles.
LEMMA ReleaseKeeps ==
    ASSUME ~ LostReplies, IInv, HeldInv, TaggedInv, RetryInv,
           NEW r \in Runs, NEW ids \in SUBSET batch[r], Release(r, ids)
    PROVE  TaggedInv' /\ RetryInv'
<1> DEFINE S == Releasable(ids, LabelOf[r])
<1>1. /\ TypeOK /\ batch \in [Runs -> SUBSET (1 .. lastId)]
      /\ batch' = [batch EXCEPT ![r] = @ \ ids] /\ UNCHANGED <<agents, crashes, purges>>
  BY DEF IInv, TypeOK, Release, Drop, Replied
<1>2. /\ batch'[r] = batch[r] \ ids /\ \A q \in Runs \ {r} : batch'[q] = batch[q]
  BY <1>1
<1>3. /\ DOMAIN handovers' = DOMAIN handovers
      /\ \A h \in S : handovers'[h] = ReleasedRow(handovers[h])
      /\ \A h \in DOMAIN handovers \ S : handovers'[h] = handovers[h]
      /\ S \subseteq DOMAIN handovers /\ S \subseteq ids
  BY <1>1, ReleaseStep DEF Releasable
<1>4. ASSUME NEW h \in S, ~ Settled(h)'
      PROVE  handovers'[h].attempt_count < MaxClaimAttempts
  <2>1. handovers[h] \in Row /\ handovers[h].attempt_count \in Nat /\ MaxClaimAttempts \in Nat
    BY <1>1, <1>3, CountType, NumbersAssumption
  <2>2. handovers'[h] = ReleasedRow(handovers[h]) /\ ~ handovers'[h].quarantined
    BY <1>3, <1>4 DEF Settled
  <2>3. ~ (handovers[h].attempt_count >= MaxClaimAttempts)
    BY <2>1, <2>2 DEF ReleasedRow, Row
  <2>4. handovers'[h].attempt_count = handovers[h].attempt_count
    BY <2>1, <2>2, ReleasedRowType
  <2> QED
    BY <2>1, <2>3, <2>4
<1>5. ASSUME NEW h \in S
      PROVE handovers'[h].attempt_count = handovers[h].attempt_count
  <2>1. handovers[h] \in Row
    BY <1>1, <1>3, CountType
  <2> QED
    BY <1>3, <2>1, ReleasedRowType
<1>6. ASSUME NEW h \in (ids \cap DOMAIN handovers) \ S, ~ Settled(h)
      PROVE  ~ OwnerActive(h)
  <2>1. handovers[h].claimed_by = LabelOf[r]
    BY <1>6 DEF TaggedInv
  <2> QED
    BY <1>6, <2>1 DEF Releasable, Settled
<1>7. \A h \in S : ~ Settled(h)
  BY DEF Releasable, Settled
<1> HIDE DEF S
<1>8. TaggedInv'
  <2>1. ASSUME NEW q \in Runs, NEW h \in batch'[q] \cap DOMAIN handovers'
        PROVE  Settled(h)' \/ handovers'[h].claimed_by = LabelOf[q]
    <3>1. h \in batch[q] \cap DOMAIN handovers /\ (q = r => h \notin ids)
      BY <1>2, <1>3
    <3>2. CASE h \in S
      <4>1. q # r /\ h \in batch[r] /\ ~ Settled(h)
        BY <1>3, <1>7, <3>1, <3>2
      <4> QED
        BY <3>1, <4>1 DEF HeldInv
    <3>3. CASE h \notin S
      BY <1>3, <3>1, <3>3 DEF TaggedInv, Settled
    <3> QED
      BY <3>2, <3>3
  <2> QED
    BY <2>1 DEF TaggedInv
<1>9. ASSUME NEW h \in DOMAIN handovers PROVE RetryOK(h)'
  <2>1. RetryOK(h)
    BY DEF RetryInv
  <2>2. CASE h \in S /\ Settled(h)'
    BY <1>1, <1>5, <2>1, <2>2, SettledRowKeeps
  <2>3. CASE h \in S /\ ~ Settled(h)'
    <3>1. /\ handovers'[h].attempt_count \in Nat /\ Budget \in Nat /\ Budget >= MaxClaimAttempts
          /\ Budget' = Budget /\ handovers'[h].attempt_count < MaxClaimAttempts
      BY <1>1, <1>4, <1>5, <2>3, BudgetType, CountType DEF Budget
    <3>2. handovers'[h].attempt_count < Budget' /\ handovers'[h].attempt_count <= Budget'
      BY <3>1, NumbersAssumption
    <3> QED
      BY <3>1, <3>2 DEF RetryOK
  <2>4. CASE h \notin S /\ Settled(h)
    BY <1>1, <1>3, <2>1, <2>4, SettledRowKeeps DEF Settled
  <2>5. CASE h \notin S /\ ~ Settled(h)
    <3>1. OwnerActive(h) /\ InHand(h) => OwnerActive(h)' /\ InHand(h)'
      BY <1>1, <1>2, <1>3, <1>6, <2>5 DEF OwnerActive, InHand
    <3> QED
      BY <1>1, <1>3, <2>1, <2>5, <3>1, SameRowKeeps
  <2> QED
    BY <2>2, <2>3, <2>4, <2>5
<1> QED
  BY <1>3, <1>8, <1>9 DEF RetryInv

LEMMA TickRetries ==
    ASSUME IInv, TaggedInv, RetryInv, Tick
    PROVE  TaggedInv' /\ RetryInv'
<1>1. /\ DOMAIN handovers' = DOMAIN handovers
      /\ \A h \in Ageing : handovers'[h] = [handovers[h] EXCEPT !.claim_age = @ + 1]
      /\ \A h \in DOMAIN handovers \ Ageing : handovers'[h] = handovers[h]
      /\ UNCHANGED <<agents, batch, crashes, purges>> /\ TypeOK
  BY TickStep DEF IInv, Tick
<1>2. ASSUME NEW h \in DOMAIN handovers
      PROVE  /\ handovers'[h].attempt_count = handovers[h].attempt_count
             /\ handovers'[h].claimed_by = handovers[h].claimed_by
             /\ handovers'[h].owner = handovers[h].owner
             /\ Settled(h)' <=> Settled(h)
             /\ handovers'[h].claim_age = NULL => handovers[h].claim_age = NULL
  <2>1. handovers[h] \in Row
    BY <1>1, CountType
  <2>2. CASE h \in Ageing
    <3>1. handovers[h].claim_age # NULL /\ handovers[h].claim_age <= MaxStaleMinutes
      BY <2>2 DEF Ageing
    <3>2. handovers[h].claim_age \in Nat
      BY <2>1, <3>1, NumbersAssumption DEF Row, Ages
    <3>3. handovers'[h] = [handovers[h] EXCEPT !.claim_age = @ + 1]
      BY <1>1, <2>2
    <3>4. /\ handovers'[h].attempt_count = handovers[h].attempt_count
          /\ handovers'[h].claimed_by = handovers[h].claimed_by
          /\ handovers'[h].owner = handovers[h].owner
          /\ handovers'[h].consumed = handovers[h].consumed
          /\ handovers'[h].quarantined = handovers[h].quarantined
          /\ handovers'[h].claim_age = handovers[h].claim_age + 1
      BY <2>1, <3>1, <3>3, AgedRowType
    <3> QED
      BY <3>1, <3>2, <3>4, NumbersAssumption DEF Settled
  <2>3. CASE h \notin Ageing
    BY <1>1, <2>3 DEF Settled
  <2> QED
    BY <2>2, <2>3
<1>3. TaggedInv'
  BY <1>1, <1>2 DEF TaggedInv
<1>4. ASSUME NEW h \in DOMAIN handovers PROVE RetryOK(h)'
  <2>1. /\ RetryOK(h) /\ Budget' = Budget /\ (InHand(h)' <=> InHand(h))
        /\ (OwnerActive(h)' <=> OwnerActive(h))
    BY <1>1, <1>2 DEF RetryInv, Budget, InHand, OwnerActive
  <2> QED
    BY <1>2, <2>1 DEF RetryOK
<1> QED
  BY <1>1, <1>3, <1>4 DEF RetryInv

LEMMA RetryStep ==
    ASSUME ~ LostReplies, IInv, HeldInv, TaggedInv, RetryInv, [Next]_vars
    PROVE  TaggedInv' /\ RetryInv'
<1>1. TypeOK
  BY DEF IInv
<1>2. ASSUME NEW a \in Agents, Save(a) PROVE TaggedInv' /\ RetryInv'
  <2>1. /\ lastId \in Nat /\ DOMAIN handovers \subseteq 1 .. lastId
        /\ \A r \in Runs : batch[r] \subseteq 1 .. lastId
        /\ UNCHANGED <<agents, batch, crashes, purges>>
        /\ DOMAIN handovers' = DOMAIN handovers \cup {lastId + 1}
        /\ handovers'[lastId + 1] = NewRow(a)
        /\ \A h \in DOMAIN handovers : handovers'[h] = handovers[h] /\ h # lastId + 1
    BY <1>1, <1>2, NumbersAssumption DEF Save, TypeOK
  <2>2. TaggedInv'
    BY <2>1 DEF TaggedInv, Settled
  <2>3. ASSUME NEW h \in DOMAIN handovers PROVE RetryOK(h)'
    <3>1. OwnerActive(h) /\ InHand(h) => OwnerActive(h)' /\ InHand(h)'
      BY <2>1 DEF OwnerActive, InHand
    <3> QED
      BY <1>1, <2>1, <3>1, SameRowKeeps DEF RetryInv
  <2>4. ASSUME NEW h, h = lastId + 1 PROVE RetryOK(h)'
    <3>1. handovers'[h].attempt_count = 0
      BY <2>1, <2>4 DEF NewRow
    <3>2. Budget' = Budget /\ Budget \in Nat /\ 0 < MaxClaimAttempts /\ 0 < Budget
      BY <1>1, <2>1, BudgetType, NumbersAssumption DEF Budget
    <3> QED
      BY <3>1, <3>2 DEF RetryOK
  <2> QED
    BY <2>1, <2>2, <2>3, <2>4 DEF RetryInv
<1>3. ASSUME NEW a \in Agents, SoftPurge(a) PROVE TaggedInv' /\ RetryInv'
  <2>1. UNCHANGED <<handovers, batch>> /\ Budget' = Budget + 1
    BY <1>1, <1>3, NumbersAssumption DEF SoftPurge, Budget, TypeOK
  <2> QED
    BY <1>1, <2>1, LostClaimKeeps DEF RetryInv, TaggedInv, Settled
<1>4. ASSUME NEW a \in Agents, Unpurge(a) PROVE TaggedInv' /\ RetryInv'
  <2>1. UNCHANGED <<handovers, batch, crashes, purges>>
    BY <1>4 DEF Unpurge
  <2>2. \A h \in DOMAIN handovers : OwnerActive(h) /\ InHand(h) => OwnerActive(h)' /\ InHand(h)'
    BY <1>1, <1>4, <2>1 DEF Unpurge, OwnerActive, InHand, TypeOK, Row
  <2> QED
    BY <1>1, <2>1, <2>2, SameRowKeeps DEF RetryInv, TaggedInv, Settled
<1>5. ASSUME NEW a \in Agents, HardPurge(a) PROVE TaggedInv' /\ RetryInv'
  <2>1. /\ UNCHANGED <<batch, crashes, purges>>
        /\ \A h \in DOMAIN handovers' : /\ h \in DOMAIN handovers /\ handovers'[h] = handovers[h]
                                        /\ handovers[h].owner # a
    BY <1>5 DEF HardPurge, Keep
  <2>2. \A h \in DOMAIN handovers' : OwnerActive(h) /\ InHand(h) => OwnerActive(h)' /\ InHand(h)'
    BY <1>1, <1>5, <2>1 DEF HardPurge, OwnerActive, InHand, TypeOK, Row
  <2> QED
    BY <1>1, <2>1, <2>2, SameRowKeeps DEF RetryInv, TaggedInv, Settled
<1>6. ASSUME NEW r \in Runs, Crash(r) PROVE TaggedInv' /\ RetryInv'
  <2>1. UNCHANGED handovers /\ Budget' = Budget + 1 /\ \A q \in Runs : batch'[q] \subseteq batch[q]
    BY <1>1, <1>6, NumbersAssumption DEF Crash, Budget, TypeOK
  <2> QED
    BY <1>1, <2>1, LostClaimKeeps DEF RetryInv, TaggedInv, Settled
<1>7. ASSUME UNCHANGED <<agents, handovers, batch, crashes, purges>>
      PROVE  TaggedInv' /\ RetryInv'
  <2>1. \A h \in DOMAIN handovers : OwnerActive(h) /\ InHand(h) => OwnerActive(h)' /\ InHand(h)'
    BY <1>7 DEF OwnerActive, InHand
  <2> QED
    BY <1>1, <1>7, <2>1, SameRowKeeps DEF RetryInv, TaggedInv, Settled
<1>8. ASSUME NEW r \in Runs, NEW h \in Ids, Ingest(r, h) PROVE TaggedInv' /\ RetryInv'
  BY <1>7, <1>8 DEF Ingest
<1>9. CASE UNCHANGED vars
  BY <1>7, <1>9 DEF vars
<1> QED
  BY <1>2, <1>3, <1>4, <1>5, <1>6, <1>8, <1>9, ClaimKeeps, AckKeeps, ReleaseKeeps, TickRetries
  DEF Next

\* When every run finishes before its claims are stale and no reply is lost, a handover
\* is claimed at most as often as the cap says, and once more for each crash and each
\* soft purge: nothing else costs a claim that no release counts.
THEOREM ClaimsAreCounted ==
    ASSUME PromptRuns, ~ LostReplies
    PROVE  Spec => []RetriesBounded
<1>1. Init => HeldInv /\ TaggedInv /\ RetryInv
  BY DEF Init, HeldInv, TaggedInv, RetryInv
<1>2. IInv /\ HeldInv /\ TaggedInv /\ RetryInv /\ [Next]_vars
         => HeldInv' /\ TaggedInv' /\ RetryInv'
  BY HeldStep, RetryStep DEF IInv
<1>3. RetryInv => RetriesBounded
  BY DEF RetryInv, RetryOK, RetriesBounded, Budget
<1> QED
  BY <1>1, <1>2, <1>3, Inductive, PTL DEF Spec
-----------------------------------------------------------------------------
(* The queue implements the transport.                                     *)

LEMMA TransportInit == Init => Transport!Init
  BY NumbersAssumption
     DEF Init, Transport!Init, StageMap, FromMap, StageOf, OwnerOf, Ids

Stay == UNCHANGED <<StageMap, FromMap, progress>>

\* Rows that keep consumed and quarantined keep their stage.
LEMMA SameStage ==
    ASSUME TypeOK, UNCHANGED <<lastId, progress>>, DOMAIN handovers' = DOMAIN handovers,
           \A h \in DOMAIN handovers :
              /\ handovers'[h].consumed = handovers[h].consumed
              /\ handovers'[h].quarantined = handovers[h].quarantined
              /\ handovers'[h].owner = handovers[h].owner
    PROVE  Stay
<1>1. \A h \in Ids : StageOf(h)' = StageOf(h) /\ OwnerOf(h)' = OwnerOf(h)
  BY DEF StageOf, OwnerOf
<1> QED
  BY <1>1 DEF Stay, StageMap, FromMap

\* Moving a set of handovers to a stage, seen through the mapping.
LEMMA MoveStage ==
    ASSUME NEW S, NEW to,
           \A h \in Ids : StageOf(h)' = IF h \in S THEN to ELSE StageOf(h)
    PROVE  Transport!Move(S, to)
  BY DEF Transport!Move, StageMap

LEMMA SameFrom ==
    ASSUME \A h \in Ids : OwnerOf(h)' = OwnerOf(h)
    PROVE  FromMap' = FromMap
  BY DEF FromMap

LEMMA SaveSubmits ==
    ASSUME TypeOK, NEW a \in Agents, Save(a)
    PROVE  lastId + 1 \in Ids /\ Transport!Submit(lastId + 1, a)
<1>1. /\ lastId \in Nat /\ lastId + 1 \in Ids /\ lastId' = lastId + 1
      /\ lastId + 1 \notin DOMAIN handovers
      /\ DOMAIN handovers \subseteq Nat
  BY NumbersAssumption DEF Save, TypeOK, Ids
<1>2. /\ DOMAIN handovers' = DOMAIN handovers \cup {lastId + 1}
      /\ handovers'[lastId + 1] = NewRow(a)
      /\ \A h \in DOMAIN handovers : handovers'[h] = handovers[h]
      /\ progress' = progress
  BY <1>1 DEF Save
<1>3. /\ NewRow(a).owner = a
      /\ NewRow(a).consumed = FALSE
      /\ NewRow(a).quarantined = FALSE
  BY DEF NewRow
<1>4. ASSUME NEW h \in Ids
      PROVE  /\ StageOf(h)' = IF h \in {lastId + 1} THEN "waiting" ELSE StageOf(h)
             /\ OwnerOf(h)' = IF h = lastId + 1 THEN a ELSE OwnerOf(h)
  <2>1. h \in Nat
    BY DEF Ids
  <2>2. CASE h = lastId + 1
    BY <1>1, <1>2, <1>3, <2>2 DEF StageOf, OwnerOf
  <2>3. CASE h # lastId + 1
    <3>1. (h > lastId + 1) <=> (h > lastId)
      BY <1>1, <2>1, <2>3
    <3>2. (h \in DOMAIN handovers') <=> (h \in DOMAIN handovers)
      BY <1>2, <2>3
    <3> QED
      BY <1>1, <1>2, <2>3, <3>1, <3>2 DEF StageOf, OwnerOf
  <2> QED
    BY <2>2, <2>3
<1>5. Transport!Move({lastId + 1}, "waiting")
  BY <1>4, MoveStage
<1>6. FromMap' = [FromMap EXCEPT ![lastId + 1] = a]
  BY <1>1, <1>4 DEF FromMap
<1>7. StageMap[lastId + 1] = "absent"
  BY <1>1 DEF StageMap, StageOf
<1> QED
  BY <1>1, <1>2, <1>5, <1>6, <1>7 DEF Transport!Submit

LEMMA HardPurgeErases ==
    ASSUME TypeOK, NEW a \in Agents, HardPurge(a)
    PROVE  Transport!Erase(a)
<1>1. /\ DOMAIN handovers' = {h \in DOMAIN handovers : handovers[h].owner # a}
      /\ \A h \in DOMAIN handovers' : handovers'[h] = handovers[h]
      /\ UNCHANGED <<lastId, progress>>
  BY DEF HardPurge, Keep
<1>2. a # NULL
  BY LabelsAssumption
<1> DEFINE S == {h \in Ids : FromMap[h] = a}
<1>3. \A h \in Ids : h \in S <=> h \in DOMAIN handovers /\ handovers[h].owner = a
  BY <1>2 DEF FromMap, OwnerOf
<1>4. \A h \in DOMAIN handovers : h \in Nat /\ lastId \in Nat /\ ~ (h > lastId)
  BY NumbersAssumption DEF TypeOK
<1> HIDE DEF S
<1>5. \A h \in Ids : StageOf(h)' = IF h \in S THEN "erased" ELSE StageOf(h)
  BY <1>1, <1>3, <1>4 DEF StageOf
<1>6. \A h \in Ids : OwnerOf(h)' = IF OwnerOf(h) = a THEN NULL ELSE OwnerOf(h)
  BY <1>1, <1>2 DEF OwnerOf
<1>7. FromMap' = [h \in Ids |-> IF FromMap[h] = a THEN NULL ELSE FromMap[h]]
  BY <1>6 DEF FromMap
<1>8. Transport!Move(S, "erased")
  BY <1>5, MoveStage
<1> QED
  BY <1>1, <1>7, <1>8 DEF Transport!Erase, S

LEMMA AckDelivers ==
    ASSUME TypeOK, NEW r \in Runs, NEW ids, Ack(r, ids)
    PROVE  \E S \in SUBSET Ids : Transport!Deliver(S)
<1> DEFINE S == Ackable(ids, LabelOf[r])
<1>1. S \subseteq DOMAIN handovers /\ S \subseteq progress
  BY AckStep
<1>2. \A h \in DOMAIN handovers : h \in Ids /\ h \in Nat /\ lastId \in Nat /\ ~ (h > lastId)
  BY NumbersAssumption DEF TypeOK, Ids
<1>3. \A h \in S : ~ handovers[h].consumed
  BY DEF Ackable
<1>4. UNCHANGED <<lastId, progress>>
  BY DEF Ack
<1>5. /\ DOMAIN handovers' = DOMAIN handovers
      /\ \A h \in S : handovers'[h] = [handovers[h] EXCEPT !.consumed = TRUE]
      /\ \A h \in DOMAIN handovers \ S : handovers'[h] = handovers[h]
  BY AckStep
<1> HIDE DEF S
<1>6. \A h \in S : handovers'[h].consumed /\ handovers'[h].owner = handovers[h].owner
  <2> SUFFICES ASSUME NEW h \in S
               PROVE  handovers'[h].consumed /\ handovers'[h].owner = handovers[h].owner
    OBVIOUS
  <2>1. handovers[h] \in Row
    BY <1>1 DEF TypeOK
  <2> QED
    BY <1>5, <2>1, ConsumedRowType
<1>7. \A h \in Ids : StageOf(h)' = IF h \in S THEN "delivered" ELSE StageOf(h)
  BY <1>1, <1>2, <1>4, <1>5, <1>6 DEF StageOf
<1>8. \A h \in S : StageOf(h) \in {"waiting", "dead"}
  BY <1>1, <1>2, <1>3 DEF StageOf
<1>9. \A h \in Ids : OwnerOf(h)' = OwnerOf(h)
  BY <1>5, <1>6 DEF OwnerOf
<1>10. \A h \in S : StageMap[h] \in {"waiting", "dead"}
  BY <1>1, <1>2, <1>8 DEF StageMap
<1>11. S \in SUBSET Ids
  BY <1>1, <1>2
<1>12. Transport!Move(S, "delivered") /\ FromMap' = FromMap
  BY <1>7, <1>9, MoveStage, SameFrom
<1> QED
  BY <1>1, <1>4, <1>10, <1>11, <1>12 DEF Transport!Deliver

LEMMA ReleaseBuries ==
    ASSUME TypeOK, NEW r \in Runs, NEW ids, Release(r, ids)
    PROVE  \E S \in SUBSET Ids : Transport!Bury(S)
<1> DEFINE T == Releasable(ids, LabelOf[r])
           S == {h \in T : handovers[h].attempt_count >= MaxClaimAttempts}
<1>1. T \subseteq DOMAIN handovers
  BY ReleaseStep
<1>2. \A h \in DOMAIN handovers : h \in Ids /\ h \in Nat /\ lastId \in Nat /\ ~ (h > lastId)
  BY NumbersAssumption DEF TypeOK, Ids
<1>3. \A h \in T : ~ handovers[h].consumed /\ ~ handovers[h].quarantined
  BY DEF Releasable
<1>4. UNCHANGED <<lastId, progress>>
  BY DEF Release
<1>5. /\ DOMAIN handovers' = DOMAIN handovers
      /\ \A h \in T : handovers'[h] = ReleasedRow(handovers[h])
      /\ \A h \in DOMAIN handovers \ T : handovers'[h] = handovers[h]
  BY ReleaseStep
<1> HIDE DEF T
<1>6. ASSUME NEW h \in DOMAIN handovers
      PROVE  /\ handovers'[h].consumed = handovers[h].consumed
             /\ handovers'[h].owner = handovers[h].owner
             /\ handovers'[h].quarantined = IF h \in S THEN TRUE ELSE handovers[h].quarantined
  <2>1. handovers[h] \in Row
    BY DEF TypeOK
  <2>2. CASE h \in T
    BY <1>5, <2>1, <2>2 DEF ReleasedRow, Row
  <2>3. CASE h \notin T
    BY <1>5, <2>3
  <2> QED
    BY <2>2, <2>3
<1>7. S \subseteq T
  OBVIOUS
<1> HIDE DEF S
<1>8. \A h \in Ids : StageOf(h)' = IF h \in S THEN "dead" ELSE StageOf(h)
  BY <1>1, <1>2, <1>3, <1>4, <1>5, <1>6, <1>7 DEF StageOf
<1>9. \A h \in S : StageOf(h) = "waiting"
  BY <1>1, <1>2, <1>3, <1>7 DEF StageOf
<1>10. \A h \in Ids : OwnerOf(h)' = OwnerOf(h)
  BY <1>5, <1>6 DEF OwnerOf
<1>11. S \in SUBSET Ids
  BY <1>1, <1>2, <1>7
<1>12. \A h \in S : StageMap[h] = "waiting"
  BY <1>9, <1>11 DEF StageMap
<1>13. Transport!Move(S, "dead") /\ FromMap' = FromMap
  BY <1>8, <1>10, MoveStage, SameFrom
<1> QED
  BY <1>4, <1>11, <1>12, <1>13 DEF Transport!Bury

LEMMA TransportStep ==
    ASSUME TypeOK, [Next]_vars
    PROVE  Transport!Next \/ Stay
<1>1. ASSUME NEW a \in Agents, Save(a) PROVE Transport!Next
  BY <1>1, SaveSubmits DEF Transport!Next
<1>2. ASSUME NEW a \in Agents, SoftPurge(a) \/ Unpurge(a) PROVE Stay
  BY <1>2, SameStage DEF SoftPurge, Unpurge
<1>3. ASSUME NEW a \in Agents, HardPurge(a) PROVE Transport!Next
  BY <1>3, HardPurgeErases DEF Transport!Next
<1>4. ASSUME NEW r \in Runs, Claim(r) PROVE Stay
  <2>1. PICK taken \in SUBSET DOMAIN handovers :
           /\ DOMAIN handovers' = DOMAIN handovers
           /\ \A g \in taken : handovers'[g] = ClaimedRow(handovers[g], LabelOf[r])
           /\ \A g \in DOMAIN handovers \ taken : handovers'[g] = handovers[g]
    BY <1>4, ClaimStep
  <2>2. \A g \in DOMAIN handovers : handovers[g] \in Row
    BY DEF TypeOK
  <2>3. LabelOf[r] \in Labels
    BY LabelsAssumption
  <2> QED
    BY <1>4, <2>1, <2>2, <2>3, ClaimedRowType, SameStage DEF Claim
<1>5. ASSUME NEW r \in Runs, NEW h \in Ids, Ingest(r, h) PROVE Transport!Next
  <2>1. StageOf(h) # "absent"
    BY <1>5, NumbersAssumption DEF Ingest, StageOf, TypeOK, Ids
  <2>2. \A g \in Ids : StageOf(g)' = StageOf(g) /\ OwnerOf(g)' = OwnerOf(g)
    BY <1>5 DEF Ingest, StageOf, OwnerOf
  <2> QED
    BY <1>5, <2>1, <2>2 DEF Ingest, Transport!Store, Transport!Next, StageMap, FromMap
<1>6. ASSUME NEW r \in Runs, NEW ids \in SUBSET batch[r], Ack(r, ids) PROVE Transport!Next
  BY <1>6, AckDelivers DEF Transport!Next
<1>7. ASSUME NEW r \in Runs, NEW ids \in SUBSET batch[r], Release(r, ids) PROVE Transport!Next
  BY <1>7, ReleaseBuries DEF Transport!Next
<1>8. ASSUME NEW r \in Runs, Crash(r) PROVE Stay
  BY <1>8, SameStage DEF Crash
<1>9. CASE Tick
  <2>1. /\ DOMAIN handovers' = DOMAIN handovers
        /\ \A g \in Ageing : handovers'[g] = [handovers[g] EXCEPT !.claim_age = @ + 1]
        /\ \A g \in DOMAIN handovers \ Ageing : handovers'[g] = handovers[g]
    BY <1>9, TickStep
  <2>2. \A g \in DOMAIN handovers : handovers[g] \in Row
    BY DEF TypeOK
  <2>3. \A g \in Ageing : handovers[g].claim_age # NULL /\ handovers[g].claim_age <= MaxStaleMinutes
    BY DEF Ageing
  <2>4. \A g \in DOMAIN handovers :
              /\ handovers'[g].consumed = handovers[g].consumed
              /\ handovers'[g].quarantined = handovers[g].quarantined
              /\ handovers'[g].owner = handovers[g].owner
    BY <2>1, <2>2, <2>3, AgedRowType
  <2> QED
    BY <1>9, <2>1, <2>4, SameStage DEF Tick
<1>10. CASE UNCHANGED vars
  BY <1>10, SameStage DEF vars
<1> QED
  BY <1>1, <1>2, <1>3, <1>4, <1>5, <1>6, <1>7, <1>8, <1>9, <1>10 DEF Next

\* The queue, with its claims, ages, attempts, lost replies and crashes, is an
\* implementation of the transport.
THEOREM Implementation == Spec => ImplementsTransport
<1>1. TypeOK /\ [Next]_vars => [Transport!Next]_<<StageMap, FromMap, progress>>
  BY TransportStep DEF Stay
<1> QED
  BY <1>1, TransportInit, TypeCorrect, PTL DEF Spec, ImplementsTransport, Transport!Spec
=============================================================================
