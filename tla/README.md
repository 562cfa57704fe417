# A formal model of np-agent-memory

`np-agent-memory` is an MCP server that gives every Copilot CLI agent on a
machine shared, persistent memory: notes, todos and blockers per agent, an inbox
between agents, and a queue of handovers towards an external consumer.  Each
client session starts a server process of its own; what all of them share is one
SQLite file, and that is where the hard behaviour is: processes that race,
retry, stall, die and are restarted against the same rows, and long sequences of
legal calls across agents that are purged and come back.

This directory holds TLA+ specifications of those parts, TLC configurations that
check them on small instances, and TLAPS proofs for every value of the
constants.  `PROJECT.json` relates every definition to the lines of source it
models, every property to a mutant of the code it catches, and every hazard of
the code to the properties that cover it.

Run from this directory, for example:

    tlc -workers 2 -config MCHandovers_Lossy.cfg MCHandovers
    tlapm HandoversProofs.tla

Paths below are relative to `src/server/np_agent_memory/` unless they begin with
`src/`.

## 1. Inventory

| component | code | state it keeps | operations | what is hard |
|---|---|---|---|---|
| handover queue | `tools/handovers.py` | `handovers` rows: claim, attempts, consumed, quarantined | save, claim, ack, release (agents' purges reach in) | several runs, one `consumer_id`, stale claims taken over, lost replies, crashes, the attempt cap |
| transaction helper | `db.py` | one open transaction per connection; the database file | `run_in_write_txn`, `run_in_read_txn`, retries | lock contention, a body that runs again, a rollback that fails, a suspended lock holder, a power failure between two checkpoints |
| migrations | `migrations/__init__.py`, four `.sql` files | the `migrations` table, the schema, the journal mode of the file | `run_migrations` at every start | several releases starting together, a new file they all want to put in WAL mode, a guard on stale data, a body cut short |
| notifier extension | `src/.github/extensions/np-agent-memory-inbox/extension.mjs` | one `state` object per session | hooks, events, a timer, polls | everything may happen between two awaits |
| agents | `tools/agents.py`, `tools/_common.py` | `agents`, `agent_aliases` | register, rename, add_alias, purge, unpurge | identities that leave and return under other names and paths; directories that move |
| inbox | `tools/inbox.py` | `inbox` rows | send, check, ack | two ends per row, either of which may be purged; paging |
| todos | `tools/todos.py` | `todos` rows | add, update, list | a page order that depends on a mutable priority |
| blockers | `tools/blockers.py` | `blockers` rows, a note per event | open, escalate, resolve, list | two tables that must tell one story |
| memory | `tools/memory.py` | `notes` rows | log, delete (soft, hard), restore, query, export | batches of ids, some of them of other agents |
| pagination | `tools/_common.py` | none; a cursor at the client | `keyset_predicate`, cursors | rows that come, go and move between two pages |
| snapshots | `backup.py` | `backup_runs` rows, files under `backups/` | lazy daily backup, backup now, prune | several servers, midnight, kills between the claim of a run and its end |
| identity and clock | `identity.py` | none | canonical paths (strict, or for a lookup), ULIDs, timestamps | the directory a path names may be gone, or be back, or be a link to another |
| start, command line | `startup.py`, `__main__.py` | none | `init_db`, then the server with its daily backup, or one `inbox-summary` | both migrate, so both compete for the file; one that fails must not serve |
| tool registration | `tools/__init__.py` | none | binds functions | nothing |
| installers | `src/install.ps1`, `src/install-inbox-notifier.ps1` | client settings | copy, edit | user interaction only |
| skill, templates, docs | `src/skills`, `src/templates`, `src/docs` | none | prose | nothing to run |

How they interact.  Every tool call opens a connection, runs one unit of work in
one transaction of `db.py`, and closes the connection; so `TxnRetry` is about
*inside* a call, and the other modules may treat a call as one step
(`AtomicCalls` is the statement that they may).  All agent-scoped tools resolve
their `agent_cwd` through `agent_aliases`; `Inbox` and `WorkItems` therefore
extend `Agents`.  A hard purge deletes rows of every table in one transaction; each
module that has such a table contributes what the purge does to it.  Blockers
write notes (`Timeline` has both tables).  The extension only sees the database
through the `inbox-summary` process, and only what the inbox promises: `Mailbox` says what
that is, `Inbox` is shown to implement it, and `Notifier` runs over it.  Backups use the database for coordination
and the file system for their result.

What makes each component correct:

* **handovers** – nothing is counted as delivered that the consumer did not store,
  nothing disappears, settled rows stay settled, fresh claims are exclusive, and each
  handover is settled in the end.
* **transactions** – a call takes effect once or not at all, on current data,
  whatever failed or was retried; a power failure takes the latest calls only, each of
  them whole; a call always returns.
* **migrations** – a body has run once and whole exactly if it is recorded; a
  server that is up has the schema of its own release.
* **notifier** – urgent mail reaches the session, nothing seen is swallowed, no
  timer leaks.
* **agents** – a path leads to one agent, an agent has a path, an identity is
  never reused, and no agent is stranded when its directory goes (unless a link is left there).
* **inbox, todos, blockers, notes** – no orphans; a soft purge freezes both sides of
  what the agent has; counts, lists and timelines agree; pages skip and repeat nothing.
* **snapshots** – a run on record as a success has a whole file; snapshots keep
  coming and old ones go.

## 2. Modules

| module | models | role |
|---|---|---|
| `HandoverTransport` | – | abstract: what the queue promises its two sides |
| `Handovers` | the handover queue, its consumers, owner purges | implements `HandoverTransport` |
| `HandoversProofs` | – | proofs |
| `AtomicCalls` | – | abstract: what a tool call promises its caller |
| `TxnRetry` | the retry loop of `db.py` over SQLite's locks | implements `AtomicCalls` |
| `TxnRetryProofs` | – | proofs |
| `Migrations` | the start of servers and of `inbox-summary`, with `run_migrations` | |
| `MigrationsProofs` | – | proofs |
| `Mailbox` | – | abstract: what the inbox promises to whoever waits for mail |
| `Notifier` | the extension, one action per stretch between awaits | runs over `Mailbox` |
| `NotifierProofs` | – | proofs |
| `Agents` | identities; base of the next four | component without a `Spec` of its own |
| `Keyset` | pages and cursors | pure operators |
| `Inbox` | `Agents` + `Keyset` + messages + a reader | composition; implements `Mailbox` |
| `Todos`, `Timeline` | todos; blockers and notes | components |
| `WorkItems` | `Agents` + `Todos` + `Timeline` + `Keyset` + a reader | composition |
| `CommonProofs` | – | proofs about `Agents` and `Keyset`, for every composition of them |
| `InboxProofs`, `WorkItemsProofs` | – | proofs |
| `Backups` | `backup.py` in several servers | |
| `BackupsProofs` | – | proofs |
| `MC*` | – | values of constants for TLC, symmetry sets |

### Handovers
`handovers` is the table: a function on the ids present, one record per row with the
columns the queue looks at.  One action per tool call: `Save`, `Claim` (both the
unclaimed and the stale branch of its SELECT, `ORDER BY saved_at, id LIMIT`), `Ack`,
`Release` (which dead-letters at the cap), and the purges.  Every call filters by
`agents.deleted_at`; so do the guards.  `claimed_at` is only ever compared with
`now - stale_minutes`, so a row keeps the *age* of its claim and `Tick` makes claims
older.  The consumer runs (`batch`, `progress`) are external; they do what
`src/docs/handoffs/phase-09-connects-ingest-rewrite.md` tells them: claim a batch,
store each handover, acknowledge what is stored and release the rest, with one
`consumer_id` for all runs (`LabelOf`).  A run may crash at any time, and a reply may be
lost after the call committed, after which the run repeats the call.

### TxnRetry
A call goes through `begin`, `work`, and then either the commit or `unwind`
(the handler around the work) and `handle` (the handler of the retry loop), as in
`_run_in_txn`.  SQLite is external: `writer` is the write lock, `snapshot` the WAL
snapshot of a transaction, `staged` what it has not committed.  `Fault` is an error of any
statement, with or without SQLite having rolled back by itself, and
a guarded ROLLBACK may itself fail and leave the transaction open.  The unit of work reads
all keys and adds one to each, one statement at a time, which is enough to tell every lost,
repeated, torn or stale execution apart.  With `synchronous = NORMAL` the log is synced at a
checkpoint only (`db.py:98-101`): `recent` is the set of stores committed since the last
one, and `PowerLoss` leaves any state between it and the latest, with no process running.
That it takes back a suffix of the commits is assumed of SQLite, here and in `AtomicCalls` alike.

### Migrations
One action per statement of the start-up of a process: the conversion of a new file to WAL,
bootstrap, the read of the table, the guards, the loop, and `_apply_migration` with its
double-check under the write lock.  Processes in `Converting` are at the conversion together;
all but one are refused at once, as `busy_timeout` does not cover it (`db.py:103-108`), and
start over.  A release is a function from versions to checksums; a body is sound,
truncated, or has a COMMIT in it.  `ran` counts the DDL statements of a version that were
committed; it is the schema.  A process whose `init_db` has returned serves until it is
stopped, or prints one summary and ends: `inbox-summary` runs the whole of `init_db` first, so
it competes with the servers, and may be the one that migrates.  The backup that a server
starts then is `Backups`.

### Mailbox, Notifier
`Mailbox` keeps what a session waiting for mail can tell apart: which message waits for
whom, which agents are here, away (soft-deleted) or gone, and who answers in which directory.
It is the environment of `Notifier`, in which other sessions send, read, register, alias,
purge and restore between any two steps of the extension.  `places` are the paths that lead to a
directory; `Move` is what moving directories and links about does to whoever answers where.

JavaScript runs one stretch between awaits at a time; an action of `Notifier` is such a stretch.
`poll` and `start` are the local variables of the `pollInbox` and the `startPolling` in
flight, the other variables the fields of `state`.  The two epochs are only compared with
a copy, so a poll carries a flag for "changed since".  Settings are fixed for a
session (they work, cannot be read and are replaced by the default ones, are disabled, or name no
executable) and `promptMode` is `prompt-on-urgent`.  Whatever the extension awaits may be
rejected: the log of new messages (`LogRejected`), the prompt (`Sends`), the process
(`PollBreaks`), and the warnings about each of them: of `loadSettings` (`StartRejected`, `PollBreaks`),
of `flushPrompt` (`FlushRejected`), and of the catch of `pollInbox` (`PollFails`), which rejects the
poll and, through it, the start that awaits it: `StartFails` never comes to `restartRequested`.
A directory that is gone is a failed check and leaves polling on (`DirectoryMissing`); one in
which nobody is registered switches it off (`NotRegistered`).  The `agent_register` hook does not look at the
result of the call, so `Register` may fail and the hook still runs.  Three
history variables are what `UrgentIsPrompted` is stated with.  `cwd` is the directory the session
really is in: the metadata answer counts until a session start does, never after.  (The
extension must find that out in `workingDirectory`; a late answer that replaced it would make
the property fail.)  `lapsed`: since the session came to its directory, or registered there, has
there been a directory with nobody in it for a while?  An agent that comes back by
`agent_unpurge`, or by another session's `agent_register`, fires no hook of this session, so
polling that was switched off meanwhile stays off; `UrgentIsPrompted` promises nothing then.
`stalled`: was the last start rejected, and left no interval?  Nothing polls then until
another hook starts (section 6).

### Agents, Keyset, Inbox, Todos, Timeline, WorkItems
An id is a ULID, a name a name.  `directories` are the paths at which there is a directory at the
moment, and `leads` says to which path each path leads: to itself, unless it is a link.  The user
moves those in `Movable` away and back (`MoveDirectory`), or leaves a link in their place or
re-targets it (`LinkDirectory`).  Every tool canonicalizes the path it is given,
`Path(path).resolve()`, for a lookup too (`Canonical`): the operators take canonical paths,
and only what some path leads to (`Called`) reaches them.  Most tools insist that their
directory exists (`Caller`); the lifecycle tools look
their path up only (`Resolve`, or `ResolveAny` with `include_deleted`), so that an agent
whose directory is gone can still be given another path, renamed, purged or restored.  That is
`AgentsCanMove`, for a call with the path `agent_list` shows; if a link stands at that path no
call with it reaches the agent until the link is removed, and the property says so (section 6).
A row's number is its
place in the order `(timestamp, id)`; a new row may take any free place, because clocks step
back and ULIDs of one moment are random.  A reader works through one list page
by page (`Fetch`) while every other call goes on between two pages.  `due` is a history
variable: what was listed ever since the reading began.  In a ranked todo list a todo
whose priority changes moves, and is neither promised nor forbidden to appear again.

### Backups
One action per step of a backup: the throttled or unconditional claim of a row, the copy into
a temporary file, `os.replace`, the record of success, the prune.  A server may fail or be
killed between any two of them.  Only the age of a run and how many days ago its
file was dated are kept, so days can go by for ever in a finite model.

## 3. Runs

"pass" runs check everything in their cfg; "violation" runs show one disagreement
between the code and what it says of itself (section 6).

| run | instance | properties |
|---|---|---|
| `handovers_lossy` | 1 agent, 3 runs (two share a `consumer_id`), 2 handovers, one of them poison, cap 2, slow runs, lost replies, one crash, one soft purge | types; no loss; evidence; consumed is final; dead letters and fresh claims are left alone; purged rows frozen; implements `HandoverTransport` |
| `handovers_prompt` | 2 agents, 2 prompt runs, 2 handovers, crash and purge, fairness | exclusive holding; retries bounded; every handover settled |
| `txn_retry` | 2 clients, one of which may be suspended for good, 2 keys, 2 attempts, 3 calls, 2 faults, a power loss among them | types; writers see the latest; calls return; implements `AtomicCalls` |
| `migrations_upgrade` | 2 processes on an empty data directory, 5 releases of 2 versions (first, good second, edited, truncated, committing), 3 starts, 1 fault | types; records match schema; servers have their schema, in WAL mode; versions in order; start-up ends |
| `notifier` | 2 directories, one of them movable, and a sender in a third, 2 messages, one of them urgent, a window of 1, one late metadata answer, and ten situations: the session starts again elsewhere, registers late, meets failures (up to three), has no settings or invalid ones; its agent and the sender leave, return, are purged or replaced, its directory goes and comes back | types; intervals owned; nothing swallowed; urgent is prompted |
| `inbox` | 3 ids over time, 2 paths, one of which may be moved or replaced by a link to the other, 2 names, 2 messages, pages of 1 | types; identities; no orphans; agents can move; counts agree; pages exact; paths keep their agent; implements `Mailbox`; purged mail frozen |
| `work_items` | 2 agents, 2 paths; by budget 2 todos of 2 ranks, or a blocker and 2 notes read, or a blocker and 3 notes, or 2 blockers sharing a key | types; no orphans; history tells; pages exact; purged work frozen |
| `backups` | 2 servers, a day of 3 ticks, 1 day kept, copies of up to 2 ticks, a pending window of 1, 2 faults | recorded is there; snapshots roll |
| `handovers_terminal`, `handovers_retries`, `migrations_branches`, `notifier_moved` | the smallest instance with the disagreement | one property each, violated |

Why the bounds are enough.  Two handovers suffice for order and for a batch of which one half
fails; three runs for a takeover between two that share a name while a third
has its own; a cap of 2 for one release below it and one at it.  Two clients suffice
for contention, and each safety property of `TxnRetry` and `Migrations` relates at most two
processes; the proofs drop that bound.  A window of one message and two messages are the
smallest backlog above the cap of `inbox_summary`; no situation of `notifier` has all the
trouble at once: one has a move, a late registration and a failure (with settings that are
fine, disabled or missing; with invalid ones it does not move) and one message; a registered
session has two messages and a move, two failures or a change of the agents, or one message
and three failures or two changes; one is a change and a late registration.  What is not combined is a move
of the session, or a failure, with agents that come and go.  Three identities over two
paths are an agent, a peer, and the successor of one of them after a hard purge.
Pages of one row make every row a boundary.  In `Backups` a pending window of one
tick is shorter than the slowest copy of two, so that two copies to one path do meet; a day of
three ticks has a midnight inside a copy; three rows are two runs at work and one on record,
and rows that no longer count are forgotten.  The bounds on calls, crashes, purges and
faults limit how much goes wrong, never where: each may strike at every point.

Bounds in guards are named in the module that has them: `MaxHandovers`,
`AttemptBound`, `MaxCrashes`, `MaxPurges`, `MaxCalls`, `MaxFaults`, `MaxStarts`,
`Movable`, `Routes`, `Situations`, `LastVersion`, `LastKey`, `LastTodo`,
`LastBlocker`, `LastNote`, `LastRun`, `Slowest`, `Budgets`.  `CHECK_DEADLOCK FALSE` is set
where they end the run: all messages sent, all calls made.  `backups` has no such
end and checks deadlock.  Symmetry is used in runs without
liveness only: on agent ids, on the names of `inbox` and the paths of `work_items`.

## 4. Fairness

* **Handovers** (`FairSpec`): time passes, and a run that does not crash keeps
  claiming, storing and finishing its batch.  The consumer is a loop over batches,
  so this is what it is for.  Without it `EventuallySettled` is not claimed.
* **TxnRetry, Migrations**: weak fairness of the *code's own* next step, and only for
  the processes in `Running`; every other process may stop for good at any point, the
  write lock in hand.  That `CallsReturn` and `StartupEnds` still hold is what
  `busy_timeout` and the bounded retries are for.
* **Notifier**: awaited promises settle, one way or the other (the query has a timeout of 15 s),
  the interval ticks, hooks are called, and a turn of the model ends.  That a call fails is never
  fair, and bounded by `faults`.
* **Backups**: time passes; a server is started again and again, and a copy under way
  goes on, unless its server is killed ("A genuine in-progress backup finishes in
  seconds", `backup.py:28`; hence `Slowest` below a day).

`Inbox` and `WorkItems` have no liveness: every call is somebody's free choice.

## 5. Proofs

TLAPS proves the following for every value of the constants that satisfies the
named ASSUMEs of the modules (`LabelsAssumption`, `NumbersAssumption`,
`TxnAssumption`, `MigrationsAssumption`, `AgentsAssumption`, `InboxAssumption`,
`MailboxAssumption`, `TodosAssumption`, `TimelineAssumption`, `WorkAssumption`,
`NotifierAssumption`, `BackupsAssumption`); they
say that bounds are naturals, that NULL is no value of a column or a field, that caps are
positive, and of `Backups` that a copy takes less than a day.  TLC evaluates them in the runs.

**Handovers.**  The inductive invariant `IInv` is `TypeOK` and, for every row,
`RowOK`: `claimed_by` and the age of the claim are NULL together, a consumed row is stored, a
dead letter has a claimant and an attempt count at the cap, and its owner's row exists.
`QuarantineEvidence` alone is not inductive: that a dead letter has a claim age
follows only from the first conjunct.  From it come `NothingLost`,
`QuarantineEvidence` and `NoOrphans`, the action properties `ConsumedIsFinal`,
`DeadLettersAreNotRetried`, `PurgedOwnersRowsAreFrozen` and `FreshClaimsAreKept` (one lemma
says what any step does to a row), and the refinement `ImplementsTransport`.
`ExclusiveHolding` is proved under `PromptRuns` and `~ LostReplies` from a second
invariant, `HeldInv`: the claim of a run's unsettled handover is fresh and nobody else has
the handover in its batch.
`RetriesBounded` is proved under the same two conditions (`ClaimsAreCounted`).  It needs to know
of every unsettled handover why it may be claimed again (`RetryInv`): one without a claim
is below the cap, since it is new or was released; one whose claim no run works on, or whose
owner is soft-purged, is below the cap and the crashes and purges so far, since one of these
took it from its run.  `TaggedInv` says that what a run has in hand is claimed under the
run's own name, so that its release applies.
Without the two conditions no such count exists: each takeover of a stale claim, and each reply
that does not arrive, costs an attempt that no release sees.

**TxnRetry.**  `IInv` adds to the types that the lock belongs to exactly the open
write transaction, that such a transaction sits on the current store, and that what a call
has seen and staged comes from one store of its lifetime.  The last part needs the history
variable `past`.  From it: `WritersSeeTheLatest`, that a read sees one store
(`ReadsAreConsistent`), and the refinement `ImplementsAtomicCalls`, whose view of a call is
idle, called, written, answered or failed, and whose view of the disk is the store and what a
power failure may put in its place; a checkpoint and a power failure of the code are those of
`AtomicCalls`.

**Migrations.**  `IInv` ties each process to the table: who holds the lock, that the
version being applied has no row from the double-check on, that what the process has
read or passed is still recorded as it was, and (`WalInv`) that whoever is past the
conversion finds the file in WAL mode.  From it: `RecordsMatchSchema` and
`ServersHaveTheirSchema`.  The two need each other, for a body that ran without
its row could be run again.  `UpgradesInOrder` proves `SchemaInOrder` for releases that upgrade
each other (`Contiguous`: no file set has a gap below its latest version); finding 3
below shows that the assumption is needed.

**Agents, Keyset** (`CommonProofs`).  `IdentityKept`, `PathsKept` and `NobodyIsStranded` are
about the identity tables, whatever directories, links and the other tables do, so that each composition can cite
them.  `PageIsExact` says of any finite listing under any strict total order of keys what one
page gives: rows after the cursor only, and either all of them or exactly those up to the next
cursor.  `PageKeepsSound` draws the consequence for a reading: another page keeps what was
given up to the cursor, and given all that is due up to it.  `PairsOrdered` and `OnesOrdered`
show the two orders in use, `(rank, place)` and `(place)`, to be strict and total.

**Inbox.**  `IInv` is `TypeOK`, `IdentitiesHold`, `NoOrphans`, that an acknowledged message
is read, that a message's place is used once, that what is due is listed, and
`ReadingInv`: what a reading has given lies up to the cursor, and all that is due up to
the cursor was given.  `PagesAreExact` is its consequence at the last page.
`CountsAgree` follows from acknowledged-is-read, `PathsKeepTheirAgent` from
`PathsKept`, `AgentsCanMove` (with its exception, a link at the agent's home path) from
`NobodyIsStranded`, `PurgedMailIsFrozen` from the invariant and the guards of every call.  `InboxIsMailbox` is the refinement: with mail read off the
unread rows, status off `deleted_at`, places off `directories`, and boxes off the aliases of active
agents at the directory each path leads to, every call is a step of `Mailbox` or changes nothing in it.  That a hard purge
leaves no row of its agent is what makes `Depart` one step.

**Work items.**  `IInv` is one invariant per table and one of the reading.  `TodosInv`: a todo has
an owner and its completion stamp exactly while it is done.  `BlockersInv` and `NotesInv` state
what `HistoryTells` only says by counting: the notes about an event of a blocker are one note,
or none if the event did not happen or its note was erased (`ToldOnce`); and they belong to
the blocker's own agent, without which the purge of one agent could take the note of another's
blocker.  `ErasedInv`: no event is erased of a
blocker that was never opened.  `ReadingInv` is that of the
inbox over three tables; in a ranked list only rows that are there have a place, and a todo whose
rank changes leaves both `due` and `got`.  From it: `NoOrphans`, `HistoryTells`,
`PagesAreExact`, and, with the guards of every call, `PurgedWorkIsFrozen`.

**Notifier.**  `IInv` has the types of `state` and of the poll in flight (`PollOK`), that
an interval ticks exactly if the live session holds its handle (inductive as it stands, once
the types are known), and `SeenOK`: `SeenIsAnnounced` and `LogCounts`.  The latter is
the strengthening: while a poll awaits the log, all that counts as seen and all that it is about
to log is in the summary it has, so the prompt it goes on to queue counts every
urgent one.  The lemmas have one step per await that may be rejected: neither a poll nor a
start that ends by an exception leaks an interval or loses what was seen.  That the seen set fits the
window is `WindowIsBounded`, about `Newest` and any set of messages.  `SummariesAreLocal`
proves what is left of the promise finding 4 refutes: a prompt may count another directory's
inbox, but only a summary of the session's own directory ever counts as seen (`SeenIsLocal`,
from the invariant `PollIsLocal`: a poll not marked as moved has the session's directory).

**Backups.**  `RecordedIsThere` relates a row to a file several servers write and prune.
`IInv` adds that a server at work has a row of its own, no older than the slowest copy; that
a row's date is bounded by its age and the hour (`RowsAreDated`), so that one of the last day is
of today or yesterday and its path is never pruned (`Keep` is at least 1); and
that the file is there from the replacement on, before the row says so (`ReplacedIsThere`).  Rows
that are forgotten, or fail, never vouch.  The proof needs a copy to take less than a day, which is
`BackupsAssumption`.

Only model-checked: the liveness properties (`EventuallySettled`, `CallsReturn`,
`StartupEnds`, `UrgentIsPrompted`, `SnapshotsRoll`), since liveness under fairness and ENABLED
are beyond the prover.  Every other property of a passing run is a theorem, `ExclusiveHolding`,
`RetriesBounded` and `SchemaInOrder` under the conditions given above.

## 6. Where the code and its documentation disagree

1. **A dead letter can be consumed** (`handovers_terminal`).  The docstring of
   `release_handovers` and ADR 0007 call quarantine terminal; `handover_ack` does not
   look at `quarantined_at`, and the dead letter keeps its `claimed_by`.  A slow run
   acknowledges what a second run under the same `consumer_id` has dead-lettered.
   `HandoverTransport` allows this step, and no other, out of a dead letter.
2. **The attempt cap is only enforced by a release** (`handovers_retries`).  A run that
   dies on a poison handover never releases it, and the handover is given out again
   past the cap.  What does hold, of prompt runs whose replies arrive, is
   `RetriesBounded`: one more attempt per crash or purge (`ClaimsAreCounted`).
3. **Versions can be applied out of order** (`migrations_branches`).  The guard judges
   what was applied when it looked; the double-check under the lock asks only about its own
   version.  Two releases that disagree about a version below the latest, started
   together on a new database, build the schema in the order 1, 3, 2.
4. **A prompt may count another directory's inbox** (`notifier_moved`).  The feature
   page says that a session's notifier checks only its working directory.  A poll compares the
   directory once, when its summary arrives; it then awaits the log, and a session that moves
   meanwhile gets a prompt about the inbox it has left.

No run is about the following.  The first two go against documents, but less plainly; the
properties name them as exceptions.  The others contradict none outright.

* **A link strands an agent.**  `agent_add_alias`, `agent_rename` and the purges say that the old
  path of a moved repository still works, as it is looked up among the stored aliases
  (`tools/agents.py:262-266`, `667-668`).  The lookup resolves links all the same
  (`identity.py:81`): while a link stands at the old path, no input canonicalizes to the
  stored alias, and each of these tools answers "not registered" or acts on the agent the link
  leads to.  `AgentsCanMove` holds of every agent at whose home path no link stands; without
  that exception TLC finds the link.
* **A rejected warning forgets a restart.**  The feature page says that the notifier of a repository
  that is not registered "waits for `np-agent-memory-agent_register`"
  (`src/docs/features/session-inbox-notifier.md:33-34`).  If the agent registers while the
  warning of that poll is awaited, and the session then rejects the warning, the poll and its start
  are rejected, `startPolling` leaves before it looks at `restartRequested` (`extension.mjs:316-325`), and
  no interval is left until another hook starts one.  `UrgentIsPrompted` holds while that is
  not the case (`stalled`); without the exception TLC finds this trace.
* A message pushed out of the capped summary and back in is announced again; the seen set is
  the latest window.
* `session-inbox-notifier.md:28` calls `inbox-summary` read-only.  It reads the inbox only, but
  runs `init_db` first, which creates, converts and migrates a database that needs it.
* `agent-purge-lifecycle.md:39` says that backups retain purged data until the prune deletes
  the snapshot.  A copy that is killed leaves a temporary file whose name the prune does not
  look for, and it stays.
* `agent_list` shows the earliest alias of an agent.  When that directory is gone, `inbox_send`
  cannot address the agent by the path it was shown, only by its name.

## 7. Not modelled

* Reads that only format: latest handovers, exports, the quarantine and purge listings,
  search filters, truncation; validation that rejects a call before it touches the
  database.
* In `Handovers`, a clock that steps back between two saves: a new row is the latest.  Only the
  order in which a limited claim takes rows depends on it.
* What else path canonicalization depends on: letter case, links in the middle of a path, links to
  links, and what cannot be resolved at all.  A link is one deep (`LinkDirectory`).
* A clock that steps back between two aliases of one agent: the earliest alias is the first.
* Two migration files of one version: the release is refused before the database is opened.
* Transport, argument parsing, registration, installers.
* In `Notifier`: the host may end a process whose rejections nobody handles (`void pollInbox()`,
  `void startPolling()`); that is the end of the session, at a moment `OnSessionEnd` may choose too.
  A metadata answer without a directory is left out.
* In `WorkItems` the ordinal of a priority in `ORDER BY` (`tools/todos.py`) and its mapping in Python
  for the cursor are one `KeyOf`: that the two definitions agree is not shown.  A blocker's row and
  its note are written by one step, which is what `TxnRetry` shows of a call.
* Backups: temporary files a killed copy leaves behind (the code never prunes them); two
  prunes that race, where the loser's `unlink` raises and `memory_backup_now` reports an
  error after a good backup; a slower, older copy that replaces a newer one of the same day;
  the date in the path and `started_at` are taken as one moment.
* A repeated `inbox_send`, `todo_add`, `memory_log`, `handover_save`, or `blocker_open`
  without a key after a lost answer: the calls have no identity by which a repetition
  could be told.

## 8. Plan

The order of work was: the queue and its transport; the helper every call rests on; start-up;
the one component that is not serialised by SQLite (the extension); identities and the inbox;
work items; snapshots.  Each was checked before it was proved, and all safety properties are
proved.  What is left:

1. The steps of the liveness arguments that are safety: for `CallsReturn` and `StartupEnds`, that
   the attempts left and the statements to go fall with every step of a call that no
   other process takes back.
2. Abstract specifications of the timeline (one history per blocker) and of the snapshots,
   implemented by `WorkItems` and `Backups`.
3. One composition of all tables under one hard purge, if it says more than its parts do.
