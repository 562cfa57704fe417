----------------------------- MODULE Handovers -----------------------------
(***************************************************************************)
(* The handover queue (tools/handovers.py): agents save handovers, and      *)
(* consumer runs claim, store and acknowledge them, or release them until   *)
(* the attempt cap dead-letters them.  Every tool call is one transaction   *)
(* of db.py (module TxnRetry), so it is one action here.  A run's own       *)
(* memory (its batch) is lost when it crashes; the rows are not.            *)
(*                                                                         *)
(* Time.  A claim is read only through `claimed_at < now - stale_minutes',  *)
(* so a row keeps the age of its claim in ticks, counted up to one past the *)
(* longest stale_minutes a call may ask for, and no clock is needed.        *)
(***************************************************************************)
EXTENDS Integers, FiniteSets

CONSTANTS
    Agents,             \* the agents that save handovers
    Runs,               \* the consumer runs, each working through its batch
    Labels,             \* the consumer_id values in use
    LabelOf,            \* the consumer_id each run passes
    NULL,               \* SQL NULL
    MaxHandovers,       \* bound: how many handovers are ever saved
    Poison,             \* the handovers no run ever manages to store
    StaleChoices,       \* the stale_minutes a call may pass, in ticks
    Limits,             \* the limits a claim may pass
    MaxStaleMinutes,    \* _MAX_STALE_MINUTES, in ticks
    MaxClaimAttempts,   \* _MAX_CLAIM_ATTEMPTS
    AttemptBound,       \* bound: attempt_count is counted no further than this
    MaxCrashes,         \* bound: how many runs crash
    MaxPurges,          \* bound: how often an agent is soft-purged
    PromptRuns,         \* TRUE: a live run finishes before its claims are stale
    LostReplies         \* TRUE: an ack or release may commit and its reply be lost

Ids == 1 .. MaxHandovers

ASSUME LabelsAssumption == LabelOf \in [Runs -> Labels] /\ NULL \notin Labels \cup Agents
ASSUME NumbersAssumption ==
    /\ MaxHandovers \in Nat /\ MaxCrashes \in Nat /\ MaxPurges \in Nat
    /\ MaxStaleMinutes \in Nat /\ NULL \notin Nat
    /\ MaxClaimAttempts \in Nat \ {0}
    /\ AttemptBound \in Nat /\ AttemptBound > MaxClaimAttempts
    /\ StaleChoices \subseteq Nat /\ Limits \subseteq Nat \ {0}
    /\ Poison \subseteq Ids /\ PromptRuns \in BOOLEAN /\ LostReplies \in BOOLEAN

VARIABLES
    agents,     \* the agents rows: "active", "deleted" (deleted_at set) or "purged" (gone)
    handovers,  \* the handovers rows, a function on the ids present
    lastId,     \* the latest id issued; ids number rows in (saved_at, id) order
    batch,      \* the claimed handovers each run holds in memory
    progress,   \* the handovers the consumer's progress.db holds
    crashes,    \* how many runs have crashed
    purges      \* how many soft purges have happened

vars == <<agents, handovers, lastId, batch, progress, crashes, purges>>

AgentStates == {"active", "deleted", "purged"}
Ages == 0 .. MaxStaleMinutes + 1

\* The columns of a handovers row the queue's behaviour depends on.
Row == [owner : Agents, claimed_by : Labels \cup {NULL}, claim_age : Ages \cup {NULL},
        attempt_count : 0 .. AttemptBound, consumed : BOOLEAN, quarantined : BOOLEAN]

\* Mutant of NewRow: attempt_count without its DEFAULT 0.
NewRowWithoutDefaults(a) ==
    [owner |-> a, claimed_by |-> NULL, claim_age |-> NULL,
     attempt_count |-> NULL, consumed |-> FALSE, quarantined |-> FALSE]

NewRow(a) == [owner |-> a, claimed_by |-> NULL, claim_age |-> NULL,
              attempt_count |-> 0, consumed |-> FALSE, quarantined |-> FALSE]

Settled(h) == handovers[h].consumed \/ handovers[h].quarantined
OwnerActive(h) == agents[handovers[h].owner] = "active"

Init == /\ agents = [a \in Agents |-> "active"]
        /\ handovers = [h \in {} |-> NULL]
        /\ lastId = 0
        /\ batch = [r \in Runs |-> {}]
        /\ progress = {}
        /\ crashes = 0
        /\ purges = 0
-----------------------------------------------------------------------------
(* The agent's side.                                                       *)

Save(a) == /\ agents[a] = "active"
           /\ lastId < MaxHandovers
           /\ lastId' = lastId + 1
           /\ handovers' = [h \in DOMAIN handovers \cup {lastId + 1} |->
                               IF h = lastId + 1 THEN NewRow(a) ELSE handovers[h]]
           /\ UNCHANGED <<agents, batch, progress, crashes, purges>>

SoftPurge(a) == /\ agents[a] = "active"
                /\ purges < MaxPurges
                /\ agents' = [agents EXCEPT ![a] = "deleted"]
                /\ purges' = purges + 1
                /\ UNCHANGED <<handovers, lastId, batch, progress, crashes>>

Unpurge(a) == /\ agents[a] = "deleted"
              /\ agents' = [agents EXCEPT ![a] = "active"]
              /\ UNCHANGED <<handovers, lastId, batch, progress, crashes, purges>>

Keep(S) == [h \in S |-> handovers[h]]

HardPurge(a) == /\ agents[a] # "purged"
                /\ agents' = [agents EXCEPT ![a] = "purged"]
                /\ handovers' = Keep({h \in DOMAIN handovers : handovers[h].owner # a})
                /\ UNCHANGED <<lastId, batch, progress, crashes, purges>>
-----------------------------------------------------------------------------
(* The consumer's side.                                                    *)

\* Mutants of Claimable: without the quarantine filter, with <= for <, and
\* without the reclaim of stale claims.
ClaimableDeadLetters(stale) ==
    {h \in DOMAIN handovers :
        /\ OwnerActive(h) /\ ~ handovers[h].consumed
        /\ handovers[h].claim_age = NULL \/ handovers[h].claim_age > stale}
ClaimableTooEarly(stale) ==
    {h \in DOMAIN handovers :
        /\ OwnerActive(h) /\ ~ Settled(h)
        /\ handovers[h].claim_age = NULL \/ handovers[h].claim_age >= stale}
ClaimableNeverClaimed(stale) ==
    {h \in DOMAIN handovers :
        OwnerActive(h) /\ ~ Settled(h) /\ handovers[h].claim_age = NULL}

\* A claim that passes stale_minutes sees these rows.
Claimable(stale) ==
    {h \in DOMAIN handovers :
        /\ OwnerActive(h)
        /\ ~ handovers[h].consumed
        /\ ~ handovers[h].quarantined
        /\ \/ handovers[h].claim_age = NULL
           \/ handovers[h].claim_age > stale}

\* ORDER BY saved_at, id LIMIT limit
OldestOf(taken, from, limit) ==
    /\ taken \subseteq from
    /\ \A h \in taken, g \in from \ taken : h < g
    /\ \/ Cardinality(taken) = limit
       \/ taken = from /\ Cardinality(taken) < limit

\* attempt_count + 1, counted up to the bound: it is only ever compared with the cap.
OneMore(n) == IF n < AttemptBound THEN n + 1 ELSE n

\* Mutant of ClaimedRow: read and mark consumed in one call.
ClaimedRowConsumed(row, label) ==
    [row EXCEPT !.claimed_by = label, !.claim_age = 0, !.consumed = TRUE]

ClaimedRow(row, label) ==
    [row EXCEPT !.claimed_by = label, !.claim_age = 0,
                !.attempt_count = OneMore(row.attempt_count)]

\* The rows of new replace those with the same ids; the other rows stay.
Update(new) == handovers' = [h \in DOMAIN handovers |->
                                IF h \in DOMAIN new THEN new[h] ELSE handovers[h]]

\* min(stale_minutes, _MAX_STALE_MINUTES)
Capped(stale) == IF stale > MaxStaleMinutes THEN MaxStaleMinutes ELSE stale

Claim(r) ==
    /\ batch[r] = {}
    /\ \E stale \in StaleChoices, limit \in Limits :
         \E taken \in SUBSET Claimable(Capped(stale)) :
            /\ OldestOf(taken, Claimable(Capped(stale)), limit)
            /\ taken # {}
            /\ Update([h \in taken |-> ClaimedRow(handovers[h], LabelOf[r])])
            /\ batch' = [batch EXCEPT ![r] = taken]
    /\ UNCHANGED <<agents, lastId, progress, crashes, purges>>

\* The consumer upserts a handover of its batch into progress.db (external).
Ingest(r, h) == /\ h \in batch[r]
                /\ h \notin Poison \cup progress
                /\ progress' = progress \cup {h}
                /\ UNCHANGED <<agents, handovers, lastId, batch, crashes, purges>>

\* Whether the caller learns that its call committed.
Replied == IF LostReplies THEN BOOLEAN ELSE {TRUE}
Drop(r, ids, replied) ==
    batch' = [batch EXCEPT ![r] = IF replied THEN @ \ ids ELSE @]

\* Mutant of Ackable: without the check that the owner is not soft-deleted.
AckableOfPurgedOwners(ids, label) ==
    {h \in ids \cap DOMAIN handovers :
        handovers[h].claimed_by = label /\ ~ handovers[h].consumed}

\* The rows the guarded UPDATE of handover_ack finds, of the ids it is given.
Ackable(ids, label) ==
    {h \in ids \cap DOMAIN handovers :
        /\ handovers[h].claimed_by = label
        /\ ~ handovers[h].consumed
        /\ OwnerActive(h)}

\* A run acknowledges what it has safely stored.
Ack(r, ids) ==
    /\ ids # {}
    /\ ids \subseteq progress
    /\ Update([h \in Ackable(ids, LabelOf[r]) |-> [handovers[h] EXCEPT !.consumed = TRUE]])
    /\ \E replied \in Replied : Drop(r, ids, replied)
    /\ UNCHANGED <<agents, lastId, progress, crashes, purges>>

\* Mutant of Releasable: without the check that the row is not consumed yet.
ReleasableConsumed(ids, label) ==
    {h \in ids \cap DOMAIN handovers : /\ handovers[h].claimed_by = label
                                       /\ ~ handovers[h].quarantined
                                       /\ OwnerActive(h)}

\* The rows handover_release finds, of the ids it is given.
Releasable(ids, label) ==
    {h \in ids \cap DOMAIN handovers :
        /\ handovers[h].claimed_by = label
        /\ ~ handovers[h].consumed
        /\ ~ handovers[h].quarantined
        /\ OwnerActive(h)}

\* Mutants of ReleasedRow: the cap off by one, and a dead letter without its claim.
ReleasedRowPastCap(row) ==
    IF row.attempt_count > MaxClaimAttempts
    THEN [row EXCEPT !.quarantined = TRUE]
    ELSE [row EXCEPT !.claimed_by = NULL, !.claim_age = NULL]
ReleasedRowUnclaimed(row) ==
    [row EXCEPT !.quarantined = (row.attempt_count >= MaxClaimAttempts),
                !.claimed_by = NULL, !.claim_age = NULL]

\* At the cap the row is dead-lettered and keeps its claim as evidence.
ReleasedRow(row) ==
    IF row.attempt_count >= MaxClaimAttempts
    THEN [row EXCEPT !.quarantined = TRUE]
    ELSE [row EXCEPT !.claimed_by = NULL, !.claim_age = NULL]

\* Mutant of Release: drop a handover at the cap instead of keeping it as a dead letter.
ReleaseDropping(r, ids) ==
    /\ ids # {}
    /\ handovers' = Keep({h \in DOMAIN handovers :
                            \/ h \notin Releasable(ids, LabelOf[r])
                            \/ handovers[h].attempt_count < MaxClaimAttempts})
    /\ Drop(r, ids, TRUE)
    /\ UNCHANGED <<agents, lastId, progress, crashes, purges>>

Release(r, ids) ==
    /\ ids # {}
    /\ Update([h \in Releasable(ids, LabelOf[r]) |-> ReleasedRow(handovers[h])])
    /\ \E replied \in Replied : Drop(r, ids, replied)
    /\ UNCHANGED <<agents, lastId, progress, crashes, purges>>

\* A run dies, before or after a reply reached it; what it held is forgotten.
Crash(r) == /\ batch[r] # {}
            /\ crashes < MaxCrashes
            /\ crashes' = crashes + 1
            /\ batch' = [batch EXCEPT ![r] = {}]
            /\ UNCHANGED <<agents, handovers, lastId, progress, purges>>

\* Run r still works on h under its own claim.
Holds(r, h) == /\ h \in batch[r] \cap DOMAIN handovers
               /\ handovers[h].claimed_by = LabelOf[r]
               /\ ~ Settled(h)

\* The claims whose age still matters.
Ageing == {h \in DOMAIN handovers : /\ ~ Settled(h)
                                    /\ handovers[h].claim_age # NULL
                                    /\ handovers[h].claim_age <= MaxStaleMinutes}

Tick ==
    /\ Ageing # {}
    /\ PromptRuns => \A r \in Runs : \A h \in batch[r] \cap Ageing, s \in StaleChoices :
                        handovers[h].claim_age < Capped(s)
    /\ Update([h \in Ageing |-> [handovers[h] EXCEPT !.claim_age = @ + 1]])
    /\ UNCHANGED <<agents, lastId, batch, progress, crashes, purges>>
-----------------------------------------------------------------------------
Next == \/ \E a \in Agents : Save(a) \/ SoftPurge(a) \/ Unpurge(a) \/ HardPurge(a)
        \/ \E r \in Runs : Claim(r) \/ Crash(r)
        \/ \E r \in Runs, h \in Ids : Ingest(r, h)
        \/ \E r \in Runs : \E ids \in SUBSET batch[r] : Ack(r, ids) \/ Release(r, ids)
        \/ Tick

Spec == Init /\ [][Next]_vars

\* A run that has a batch acknowledges what it stored and releases the rest.
Finish(r) == \E ids \in SUBSET batch[r] : (Ack(r, ids) \/ Release(r, ids)) /\ batch'[r] # batch[r]

\* Time passes, and runs that do not crash keep working.
Fairness == /\ WF_vars(Tick)
            /\ \A r \in Runs : /\ WF_vars(Claim(r))
                               /\ WF_vars(\E h \in Ids : Ingest(r, h))
                               /\ WF_vars(Finish(r))
FairSpec == Spec /\ Fairness
-----------------------------------------------------------------------------
(* What must hold.                                                         *)

TypeOK == /\ agents \in [Agents -> AgentStates]
          /\ DOMAIN handovers \subseteq 1 .. lastId
          /\ handovers \in [DOMAIN handovers -> Row]
          /\ lastId \in 0 .. MaxHandovers
          /\ batch \in [Runs -> SUBSET (1 .. lastId)]
          /\ progress \subseteq 1 .. lastId
          /\ crashes \in 0 .. MaxCrashes
          /\ purges \in 0 .. MaxPurges

\* No handover is marked consumed before the consumer's store has it, whichever
\* runs crashed, lost a reply or had their claim taken over in between: the
\* two-phase claim / ack of tools/handovers.py never loses a handover.
NothingLost == \A h \in DOMAIN handovers : handovers[h].consumed => h \in progress

\* A dead letter shows who gave up on it and that the cap was reached: no later
\* claim, release or reclaim erases the evidence handover_quarantined lists.
QuarantineEvidence ==
    \A h \in DOMAIN handovers :
        handovers[h].quarantined => /\ handovers[h].claimed_by \in Labels
                                    /\ handovers[h].claim_age # NULL
                                    /\ handovers[h].attempt_count >= MaxClaimAttempts

\* Every row belongs to an agent that is still there: a hard purge leaves no
\* orphan behind, and no late ack, release or save brings a row of its back.
NoOrphans == \A h \in DOMAIN handovers : agents[handovers[h].owner] # "purged"

\* Row h survives the step with these columns as they were.
Survives(h) == h \in DOMAIN handovers'
SameClaim(h) == /\ handovers'[h].claimed_by = handovers[h].claimed_by
                /\ handovers'[h].claim_age = handovers[h].claim_age
                /\ handovers'[h].attempt_count = handovers[h].attempt_count

\* A consumed handover is never claimed, released, dead-lettered or delivered
\* again: late acks and releases of runs that lost a reply or a claim skip it.
ConsumedIsFinal ==
    [][\A h \in DOMAIN handovers : handovers[h].consumed /\ Survives(h)
            => handovers'[h] = handovers[h]]_vars

\* A dead letter is never handed to a run again, and no release frees it.
DeadLettersAreNotRetried ==
    [][\A h \in DOMAIN handovers : handovers[h].quarantined /\ Survives(h)
            => handovers'[h].quarantined /\ SameClaim(h)]_vars

\* handovers.py:348 and ADR 0007 call quarantine terminal: nothing should happen
\* to a dead letter any more.  The code's handover_ack still consumes it.
QuarantineIsTerminal ==
    [][\A h \in DOMAIN handovers : handovers[h].quarantined /\ Survives(h)
            => handovers'[h] = handovers[h]]_vars

\* A claim younger than every stale_minutes in use is not taken over: only its
\* own consumer_id can end it.
FreshClaimsAreKept ==
    [][\A h \in DOMAIN handovers :
            /\ handovers[h].claim_age # NULL
            /\ \A s \in StaleChoices : handovers[h].claim_age <= Capped(s)
            /\ Survives(h)
            => /\ handovers'[h].attempt_count = handovers[h].attempt_count
               /\ handovers'[h].claimed_by \in {handovers[h].claimed_by, NULL}]_vars

\* While its owner is soft-purged a handover is invisible to consumers: it is not
\* claimed, consumed, released or dead-lettered, so an unpurge finds it as it was.
PurgedOwnersRowsAreFrozen ==
    [][\A h \in DOMAIN handovers : ~ OwnerActive(h) /\ Survives(h)
            => /\ handovers'[h].claimed_by = handovers[h].claimed_by
               /\ handovers'[h].attempt_count = handovers[h].attempt_count
               /\ handovers'[h].consumed = handovers[h].consumed
               /\ handovers'[h].quarantined = handovers[h].quarantined]_vars

\* When runs finish before their claims are stale and learn how their calls
\* ended, no two runs ever work on the same unsettled handover.
ExclusiveHolding ==
    \A r, s \in Runs : r # s =>
        \A h \in batch[r] \cap batch[s] \cap DOMAIN handovers : Settled(h)

\* Under the same conditions a handover is claimed at most MaxClaimAttempts
\* times, and once more for each crash and each soft purge that kept a run from
\* releasing it.
RetriesBounded ==
    \A h \in DOMAIN handovers :
        handovers[h].attempt_count <= MaxClaimAttempts + crashes + purges

\* handovers.py:61-65 promises giving up after MaxClaimAttempts claim rounds, so
\* that a poison payload cannot be retried forever.  A run that crashes never
\* releases, and nothing but a release looks at the cap.
RetriesCapped ==
    \A h \in DOMAIN handovers : handovers[h].attempt_count <= MaxClaimAttempts

\* Every saved handover is eventually consumed or dead-lettered, or its owner is
\* purged: a claim whose run crashed ages out and another run takes it over.
EventuallySettled ==
    \A h \in Ids : h \in DOMAIN handovers ~> \/ h \notin DOMAIN handovers
                                            \/ Settled(h) \/ ~ OwnerActive(h)
-----------------------------------------------------------------------------
(* The queue implements the transport.                                     *)

StageOf(h) == IF h > lastId THEN "absent"
              ELSE IF h \notin DOMAIN handovers THEN "erased"
              ELSE IF handovers[h].consumed THEN "delivered"
              ELSE IF handovers[h].quarantined THEN "dead" ELSE "waiting"

OwnerOf(h) == IF h \in DOMAIN handovers THEN handovers[h].owner ELSE NULL

StageMap == [h \in Ids |-> StageOf(h)]
FromMap == [h \in Ids |-> OwnerOf(h)]

Transport == INSTANCE HandoverTransport
                WITH stage <- StageMap, from <- FromMap, stored <- progress, Nobody <- NULL

\* Claims, ages, attempts, lost replies and crashes are invisible from outside:
\* the queue behaves as the transport that only submits, delivers and buries.
ImplementsTransport == Transport!Spec
=============================================================================
