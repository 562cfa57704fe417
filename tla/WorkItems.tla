----------------------------- MODULE WorkItems ------------------------------
(***************************************************************************)
(* The work an agent keeps over its sessions: todos, blockers and notes    *)
(* over the identities of Agents, with the purges' effect on them, and one *)
(* session that reads one of the lists page by page meanwhile.             *)
(***************************************************************************)
EXTENDS Todos, Timeline, Keyset

CONSTANTS Limit,    \* the page size
          Budgets   \* bounds: how many rows each table may get and whether a session reads

ASSUME WorkAssumption ==
    /\ Limit \in Nat \ {0}
    /\ Budgets \subseteq [todos : 0 .. LastTodo, blockers : 0 .. LastBlocker, notes : 0 .. LastNote,
                          reads : BOOLEAN]

VARIABLES reader,   \* the session that reads: its agent, the list and the filter
          reading   \* how far it is

vars == <<identity, todos, todoPlaces, blockers, blockerPlaces, notes, notePlaces, erased,
          reader, reading>>

Tables == {"todos", "blockers", "notes"}

\* The status a list is filtered by; for notes, whether to leave out deleted ones.
FiltersOf(table) == {NULL} \cup (CASE table = "todos" -> Statuses
                                   [] table = "blockers" -> {"active", "escalated", "resolved"}
                                   [] table = "notes" -> {"live"})

\* "due" is history: the rows listed ever since the session began to read.
NoReader == [of |-> NULL, table |-> "todos", filter |-> NULL, ranked |-> FALSE, due |-> {}]

Init == /\ AgentsInit /\ TodosInit /\ TimelineInit
        /\ \E budget \in Budgets : /\ todoPlaces = 1 .. budget.todos
                                   /\ blockerPlaces = 1 .. budget.blockers
                                   /\ notePlaces = 1 .. budget.notes
                                   /\ reading = [Unstarted EXCEPT !.more = budget.reads]
        /\ reader = NoReader

\* todo_list, blocker_list, memory_query and memory_export
Listed(a, table, filter) ==
    CASE table = "todos" -> {k \in TodosOf(a) : filter \in {NULL, todos[k].status}}
      [] table = "blockers" -> {b \in BlockersOf(a) : filter \in {NULL, blockers[b].status}}
      [] table = "notes" -> {n \in NotesOf(a) : filter = NULL \/ ~ notes[n].deleted}

\* (created_at, id), with the priority's ordinal before it in a ranked list
KeyOf(S, ranked) == [k \in S |-> IF ranked THEN <<todos[k].rank, k>> ELSE <<k>>]

\* A ranked reading: the todos that change their place in the list.
Moved == {k \in TodoKeys : /\ reader.ranked /\ todos[k] # NULL /\ todos'[k] # NULL
                           /\ todos'[k].rank # todos[k].rank}

\* Between two pages: what is still listed, at its place, stays due; what has
\* moved may be given again.
Waiting == /\ \E a \in {reader.of}, table \in {reader.table}, filter \in {reader.filter} :
                reader' = [reader EXCEPT !.due = (@ \cap Listed(a, table, filter)') \ Moved]
           /\ reading' = [reading EXCEPT !.got = @ \ Moved]
-----------------------------------------------------------------------------
\* The ids a batch may name: one that no note has selects nothing.
WrittenNotes == {n \in NoteKeys : notes[n] # NULL}

TodoStep == /\ \E p \in Called : \/ \E rank \in Ranks : AddTodo(p, rank)
                                \/ \E k \in TodoKeys, status \in Statuses \cup {NULL},
                                      rank \in Ranks \cup {NULL} : UpdateTodo(p, k, status, rank)
            /\ UNCHANGED <<identity, blockers, blockerPlaces, notes, notePlaces, erased>>
            /\ Waiting

TimelineStep == /\ \E p \in Called : \/ LogMemory(p)
                                    \/ \E key \in ExternalKeys \cup {NULL} : OpenBlocker(p, key)
                                    \/ \E b \in BlockerKeys : EscalateBlocker(p, b) \/ ResolveBlocker(p, b)
                                    \/ \E S \in SUBSET WrittenNotes : \/ EraseNotes(p, S)
                                                                      \/ \E deleted \in BOOLEAN : MarkNotes(p, S, deleted)
                /\ UNCHANGED <<identity, todos, todoPlaces>>
                /\ Waiting

Purge(p) == /\ HardPurge(p)
            /\ PurgeTodos(aliases[p]) /\ PurgeTimeline(aliases[p])
            /\ Waiting

Identity == /\ IdentityStep
            /\ UNCHANGED <<todos, todoPlaces, blockers, blockerPlaces, notes, notePlaces, erased>>
            /\ Waiting

\* A session begins to read one of the lists.
Open(p, table, filter, ranked) ==
    /\ Caller(p) # NULL /\ reader = NoReader /\ reading.more
    /\ filter \in FiltersOf(table) /\ ranked => table = "todos"
    /\ reader' = [of |-> Caller(p), table |-> table, filter |-> filter, ranked |-> ranked,
                  due |-> Listed(Caller(p), table, filter)]
    /\ UNCHANGED <<identity, todos, todoPlaces, blockers, blockerPlaces, notes, notePlaces, erased,
                   reading>>

List(p) ==
    /\ reading.more
    /\ reader.of # NULL /\ Caller(p) = reader.of
    /\ \E S \in {Listed(reader.of, reader.table, reader.filter)} :
         reading' = Fetch(reading, S, KeyOf(S, reader.ranked), Limit)
    /\ UNCHANGED <<identity, todos, todoPlaces, blockers, blockerPlaces, notes, notePlaces, erased,
                   reader>>

Next == \/ TodoStep \/ TimelineStep \/ Identity
        \/ \E p \in Called : \/ Purge(p) \/ List(p)
                            \/ \E table \in Tables, ranked \in BOOLEAN :
                                 \E filter \in FiltersOf(table) : Open(p, table, filter, ranked)

Spec == Init /\ [][Next]_vars
-----------------------------------------------------------------------------
(* What must hold.                                                         *)

TypeOK == /\ AgentsTypeOK
          /\ todos \in [TodoKeys -> Todo \cup {NULL}] /\ todoPlaces \subseteq TodoKeys
          /\ blockers \in [BlockerKeys -> Blocker \cup {NULL}] /\ blockerPlaces \subseteq BlockerKeys
          /\ notes \in [NoteKeys -> Note \cup {NULL}] /\ notePlaces \subseteq NoteKeys
          /\ erased \subseteq (BlockerKeys \cup {NULL}) \X (Events \cup {NULL})
          /\ reader \in [of : Ids \cup {NULL}, table : Tables,
                         filter : UNION {FiltersOf(table) : table \in Tables},
                         ranked : BOOLEAN, due : SUBSET (TodoKeys \cup BlockerKeys \cup NoteKeys)]
          /\ reading.more \in BOOLEAN /\ reading.again \in BOOLEAN
          /\ reading.got \subseteq TodoKeys \cup BlockerKeys \cup NoteKeys

\* A hard purge leaves no row of the agent behind in any table: none could be
\* reached again, and the agent's own row could not be deleted before them.
NoOrphans == /\ \A k \in TodoKeys : todos[k] # NULL => Exists(todos[k].owner)
             /\ \A b \in BlockerKeys : blockers[b] # NULL => Exists(blockers[b].owner)
             /\ \A n \in NoteKeys : notes[n] # NULL => Exists(notes[n].owner)

Happened(b, event) == CASE event = "opened" -> TRUE
                        [] event = "escalated" -> blockers[b].escalated
                        [] event = "resolved" -> blockers[b].resolved

Told(b, event) == {n \in NotesOf(blockers[b].owner) : notes[n].about = b /\ notes[n].event = event}

CompletionTells == \A k \in TodoKeys : todos[k] # NULL =>
                      (todos[k].completed <=> todos[k].status = "done")

TimelineTells ==
    \A b \in BlockerKeys : blockers[b] # NULL =>
        /\ \A event \in Events :
             IF ~ Happened(b, event) THEN Told(b, event) = {}
             ELSE Cardinality(Told(b, event)) = IF <<b, event>> \in erased THEN 0 ELSE 1
        /\ blockers[b].resolved <=> blockers[b].status = "resolved"
        /\ blockers[b].status = "escalated" => blockers[b].escalated
        /\ blockers[b].status = "active" => ~ blockers[b].escalated

\* What is told of the past is what happened: completed_at is set while a todo is
\* done, however often it is finished and reopened; and the timeline tells every
\* event of a blocker once, by a note only a hard delete takes away, while the
\* row's status and stamps say the same.
HistoryTells == CompletionTells /\ TimelineTells

\* The pages of one reading repeat nothing, and when there are no more they have
\* shown every row that was listed all the while at one place, whatever was
\* written, changed, deleted, restored or purged between two pages.
PagesAreExact == /\ ~ reading.again
                 /\ ~ reading.more => reader.due \subseteq reading.got

\* "Soft-purged rows remain intact until an explicit hard purge" (agent-purge-lifecycle.md):
\* no tool of any agent touches what a soft-deleted agent has.
PurgedWorkIsFrozen ==
    [][\A a \in Ids : Exists(a) /\ ~ Active(a) /\ Exists(a)' /\ ~ Active(a)' =>
         /\ TodosOf(a)' = TodosOf(a) /\ \A k \in TodosOf(a) : todos'[k] = todos[k]
         /\ BlockersOf(a)' = BlockersOf(a) /\ \A b \in BlockersOf(a) : blockers'[b] = blockers[b]
         /\ NotesOf(a)' = NotesOf(a) /\ \A n \in NotesOf(a) : notes'[n] = notes[n]]_vars
=============================================================================
