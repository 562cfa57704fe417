--------------------------- MODULE WorkItemsProofs --------------------------
(***************************************************************************)
(* Proofs about todos, blockers and notes, for any agents, paths and       *)
(* names, any number of rows, any statuses and priorities, any page size   *)
(* and any budgets.                                                        *)
(***************************************************************************)
EXTENDS WorkItems, CommonProofs

-----------------------------------------------------------------------------
(* The invariant.                                                          *)

TodosInv ==
    /\ todos \in [TodoKeys -> Todo \cup {NULL}] /\ todoPlaces \subseteq TodoKeys
    /\ \A k \in TodoKeys : todos[k] # NULL =>
         /\ k \notin todoPlaces
         /\ Exists(todos[k].owner)
         /\ todos[k].completed <=> todos[k].status = "done"

\* The stamps of a blocker's row, and what its status says of them.
Stamps(row, event) == \/ event = "opened"
                      \/ event = "escalated" /\ row.escalated
                      \/ event = "resolved" /\ row.resolved

Consistent(row) == /\ row.resolved <=> row.status = "resolved"
                   /\ row.status = "escalated" => row.escalated
                   /\ row.status = "active" => ~ row.escalated

NotesAbout(b, event) ==
    {n \in NoteKeys : notes[n] # NULL /\ notes[n].about = b /\ notes[n].event = event}

\* A stamped event is told by one note or its note was erased; no other event is.
ToldOnce(b, event) ==
    IF Stamps(blockers[b], event) /\ <<b, event>> \notin erased
    THEN \E n \in NoteKeys : NotesAbout(b, event) = {n}
    ELSE NotesAbout(b, event) = {}

TimelineTypes ==
    /\ blockers \in [BlockerKeys -> Blocker \cup {NULL}] /\ blockerPlaces \subseteq BlockerKeys
    /\ notes \in [NoteKeys -> Note \cup {NULL}] /\ notePlaces \subseteq NoteKeys
    /\ erased \subseteq (BlockerKeys \cup {NULL}) \X (Events \cup {NULL})

BlockersInv ==
    \A b \in BlockerKeys : blockers[b] # NULL =>
        /\ b \notin blockerPlaces /\ Exists(blockers[b].owner) /\ Consistent(blockers[b])
        /\ \A event \in Events : /\ <<b, event>> \in erased => Stamps(blockers[b], event)
                                 /\ ToldOnce(b, event)

\* A note about a blocker is of the blocker's own agent, and goes with it.
NotesInv ==
    \A n \in NoteKeys : notes[n] # NULL =>
        /\ n \notin notePlaces /\ Exists(notes[n].owner)
        /\ notes[n].about # NULL => /\ blockers[notes[n].about] # NULL
                                    /\ blockers[notes[n].about].owner = notes[n].owner
                                    /\ notes[n].event \in Events

\* No event of a place nobody had was ever erased.
ErasedInv == \A b \in blockerPlaces, event \in Events : <<b, event>> \notin erased

TimelineInv == TimelineTypes /\ BlockersInv /\ NotesInv /\ ErasedInv

\* The rows a reading may have given that are still there, with their keys: a
\* todo's place in a ranked list is known while it has a row.
AllKeys == TodoKeys \cup BlockerKeys \cup NoteKeys
Placed == IF reader.ranked THEN {k \in TodoKeys : todos[k] # NULL} ELSE AllKeys
Places == KeyOf(Placed, reader.ranked)
Tuples == IF reader.ranked THEN {<<rank, k>> : rank \in Ranks, k \in TodoKeys}
          ELSE {<<k>> : k \in AllKeys}

DueIsListed == reader.due \subseteq Listed(reader.of, reader.table, reader.filter)

ReadingInv ==
    /\ reader \in [of : Ids \cup {NULL}, table : Tables,
                   filter : UNION {FiltersOf(table) : table \in Tables},
                   ranked : BOOLEAN, due : SUBSET AllKeys]
    /\ reading.more \in BOOLEAN /\ reading.again \in BOOLEAN /\ reading.got \subseteq AllKeys
    /\ reading = [more |-> reading.more, cursor |-> reading.cursor, got |-> reading.got,
                  again |-> reading.again]
    /\ DueIsListed
    /\ reader.ranked => reader.table = "todos" /\ reading.got \cap todoPlaces = {}
    /\ reader.of = NULL => reading.cursor = <<>> /\ reading.got = {}
    /\ Sound(reading, reader.due, Placed, Places, Tuples)

IInv == AgentsTypeOK /\ IdentitiesHold /\ TodosInv /\ TimelineInv /\ ReadingInv

-----------------------------------------------------------------------------
(* Rows and places.                                                        *)

LEMMA RowFacts ==
    /\ NULL \notin Todo /\ NULL \notin Blocker /\ NULL \notin Note /\ NULL \notin Ids
    /\ NULL \notin BlockerKeys /\ NULL \notin Events /\ NULL \notin Ranks
  BY AgentsAssumption, TodosAssumption, TimelineAssumption

LEMMA TodoFacts ==
    ASSUME TodosInv, NEW k \in TodoKeys, todos[k] # NULL
    PROVE  /\ todos[k] \in Todo
           /\ todos[k].owner \in Ids /\ todos[k].rank \in Ranks
  BY DEF TodosInv, Todo

LEMMA BlockerFacts ==
    ASSUME TimelineTypes, NEW b \in BlockerKeys, blockers[b] # NULL
    PROVE  blockers[b] \in Blocker /\ blockers[b].owner \in Ids
  BY DEF TimelineTypes, Blocker

LEMMA NoteFacts ==
    ASSUME TimelineTypes, NEW n \in NoteKeys, notes[n] # NULL
    PROVE  /\ notes[n] \in Note /\ notes[n].owner \in Ids
           /\ notes[n].about \in BlockerKeys \cup {NULL}
  BY DEF TimelineTypes, Note

LEMMA KeysFinite == IsFiniteSet(AllKeys) /\ AllKeys \subseteq Int /\ TodoKeys \subseteq Int
<1>1. IsFiniteSet(TodoKeys) /\ IsFiniteSet(BlockerKeys) /\ IsFiniteSet(NoteKeys)
  BY FS_Interval, TodosAssumption, TimelineAssumption DEF TodoKeys, BlockerKeys, NoteKeys
<1>2. AllKeys \subseteq Int /\ TodoKeys \subseteq Int
  BY DEF AllKeys, TodoKeys, BlockerKeys, NoteKeys
<1> QED
  BY <1>1, <1>2, FS_Union DEF AllKeys

LEMMA ListedFacts ==
    ASSUME NEW a, NEW table \in Tables, NEW filter
    PROVE  /\ Listed(a, table, filter) \in SUBSET AllKeys
           /\ table = "todos" => Listed(a, table, filter) \in SUBSET {k \in TodoKeys : todos[k] # NULL}
  BY DEF Listed, Tables, AllKeys, TodosOf, BlockersOf, NotesOf

LEMMA TuplesOrdered == Ordered(Tuples)
<1>1. Ranks \subseteq Int
  BY TodosAssumption
<1>2. CASE reader.ranked
  <2>1. \A t \in Tuples : \E rank \in Ranks, k \in TodoKeys : t = <<rank, k>>
    BY <1>2 DEF Tuples
  <2>2. \A t \in Tuples : \E rank, k \in Int : t = <<rank, k>>
    BY <1>1, <2>1, KeysFinite
  <2> QED
    BY <2>2, PairsOrdered
<1>3. CASE ~ reader.ranked
  <2>1. Tuples = {<<k>> : k \in AllKeys}
    BY <1>3 DEF Tuples
  <2> QED
    BY <2>1, KeysFinite, OnesOrdered
<1> QED
  BY <1>2, <1>3

LEMMA PlacesFacts ==
    ASSUME TodosInv
    PROVE  Keyed(Placed, Places, Tuples) /\ Placed \in SUBSET AllKeys
<1>1. CASE reader.ranked
  <2>1. /\ Placed = {k \in TodoKeys : todos[k] # NULL}
        /\ Tuples = {<<rank, k>> : rank \in Ranks, k \in TodoKeys}
    BY <1>1 DEF Placed, Tuples
  <2>2. \A k \in Placed : Places[k] = <<todos[k].rank, k>>
    BY <1>1 DEF Places, KeyOf
  <2>3. \A k \in Placed : todos[k].rank \in Ranks /\ k \in TodoKeys
    BY <2>1, TodoFacts
  <2>4. \A k, l \in Placed : Places[k] = Places[l] => k = l
    BY <2>2
  <2>5. \A k \in Placed : Places[k] \in Tuples
    BY <2>1, <2>2, <2>3
  <2> QED
    BY <2>1, <2>4, <2>5 DEF Keyed, AllKeys
<1>2. CASE ~ reader.ranked
  <2>1. Placed = AllKeys /\ Tuples = {<<k>> : k \in AllKeys}
    BY <1>2 DEF Placed, Tuples
  <2>2. \A k \in Placed : Places[k] = <<k>>
    BY <1>2 DEF Places, KeyOf
  <2> QED
    BY <2>1, <2>2 DEF Keyed
<1> QED
  BY <1>1, <1>2

-----------------------------------------------------------------------------
(* Between two pages.                                                      *)

\* Whatever a step does to the rows, as long as a new todo takes a free place.
FreshTodos ==
    /\ todoPlaces' \subseteq todoPlaces
    /\ \A k \in TodoKeys : todos'[k] # NULL /\ todos[k] = NULL => k \in todoPlaces \ todoPlaces'

LEMMA WaitingKeeps ==
    ASSUME TodosInv, ReadingInv, TodosInv', FreshTodos, Waiting
    PROVE  ReadingInv'
<1>1. /\ reader \in [of : Ids \cup {NULL}, table : Tables,
                    filter : UNION {FiltersOf(table) : table \in Tables},
                    ranked : BOOLEAN, due : SUBSET AllKeys]
      /\ reading.more \in BOOLEAN /\ reading.again \in BOOLEAN /\ reading.got \subseteq AllKeys
      /\ reading = [more |-> reading.more, cursor |-> reading.cursor, got |-> reading.got,
                    again |-> reading.again]
      /\ reader.due \subseteq Listed(reader.of, reader.table, reader.filter)
      /\ reader.ranked => reader.table = "todos" /\ reading.got \cap todoPlaces = {}
      /\ reader.of = NULL => reading.cursor = <<>> /\ reading.got = {}
      /\ Sound(reading, reader.due, Placed, Places, Tuples)
  BY DEF ReadingInv, DueIsListed
<1>2. PICK a, table, filter :
         /\ a = reader.of /\ table = reader.table /\ filter = reader.filter
         /\ reader' = [reader EXCEPT !.due = (@ \cap Listed(a, table, filter)') \ Moved]
         /\ reading' = [reading EXCEPT !.got = @ \ Moved]
  BY DEF Waiting
<1>3. /\ reader'.of = a /\ reader'.table = table /\ reader'.filter = filter
      /\ reader'.ranked = reader.ranked
      /\ reader'.due = (reader.due \cap Listed(a, table, filter)') \ Moved
      /\ reader' \in [of : Ids \cup {NULL}, table : Tables,
                      filter : UNION {FiltersOf(t) : t \in Tables},
                      ranked : BOOLEAN, due : SUBSET AllKeys]
  <2>1. (reader.due \cap Listed(a, table, filter)') \ Moved \in SUBSET AllKeys
    BY <1>1
  <2> HIDE DEF Moved
  <2> QED
    BY <1>1, <1>2, <2>1
<1>4. /\ reading'.more = reading.more /\ reading'.cursor = reading.cursor
      /\ reading'.again = reading.again /\ reading'.got = reading.got \ Moved
      /\ reading' = [more |-> reading'.more, cursor |-> reading'.cursor, got |-> reading'.got,
                     again |-> reading'.again]
  BY <1>1, <1>2
<1>5. DueIsListed'
  BY <1>3 DEF DueIsListed, Listed, TodosOf, BlockersOf, NotesOf
<1>6. Tuples' = Tuples
  BY <1>3 DEF Tuples
<1> DEFINE KeepsKeys == /\ \A r \in reading'.got \cap Placed' : r \in Placed /\ Places'[r] = Places[r]
                        /\ \A r \in reader'.due : Places'[r] = Places[r]
<1>7. ASSUME reader.ranked PROVE KeepsKeys
  <2>1. Moved = {k \in TodoKeys : /\ todos[k] # NULL /\ todos'[k] # NULL
                                  /\ todos'[k].rank # todos[k].rank}
    BY <1>7 DEF Moved
  <2>2. /\ \A k \in Placed : k \in TodoKeys /\ todos[k] # NULL /\ Places[k] = <<todos[k].rank, k>>
        /\ \A k \in TodoKeys : todos[k] # NULL => k \in Placed
    BY <1>7 DEF Placed, Places, KeyOf
  <2>3. \A k \in Placed' : k \in TodoKeys /\ todos'[k] # NULL /\ Places'[k] = <<todos'[k].rank, k>>
    BY <1>3, <1>7 DEF Placed, Places, KeyOf
  <2>4. \A r \in reading'.got \cap Placed' : r \in Placed /\ Places'[r] = Places[r]
    <3> SUFFICES ASSUME NEW r \in reading'.got \cap Placed'
                 PROVE  r \in Placed /\ Places'[r] = Places[r]
      OBVIOUS
    <3>1. r \in TodoKeys /\ todos'[r] # NULL /\ r \notin todoPlaces
      BY <1>1, <1>4, <1>7, <2>3
    <3>2. todos[r] # NULL
      BY <3>1 DEF FreshTodos
    <3> QED
      BY <1>4, <2>1, <2>2, <2>3, <3>1, <3>2
  <2>5. \A r \in reader'.due : Places'[r] = Places[r]
    <3> SUFFICES ASSUME NEW r \in reader'.due PROVE Places'[r] = Places[r]
      OBVIOUS
    <3>1. r \in TodoKeys /\ todos[r] # NULL /\ r \notin Moved
      BY <1>1, <1>3, <1>7, ListedFacts
    <3>2. todos'[r] # NULL
      BY <1>1, <1>2, <1>3, <1>7 DEF Listed, TodosOf
    <3>3. r \in Placed'
      BY <1>3, <1>7, <3>1, <3>2 DEF Placed
    <3> QED
      BY <2>1, <2>2, <2>3, <3>1, <3>2, <3>3
  <2> QED
    BY <2>4, <2>5
<1>8. ASSUME ~ reader.ranked PROVE KeepsKeys
  <2>1. Placed' = AllKeys /\ Placed = AllKeys
    BY <1>3, <1>8 DEF Placed, AllKeys
  <2>2. Places' = Places
    BY <1>3, <1>8, <2>1 DEF Places, KeyOf
  <2> QED
    BY <2>1, <2>2
<1>9. Sound(reading', reader'.due, Placed', Places', Tuples)
  <2>1. KeepsKeys
    BY <1>7, <1>8
  <2>2. /\ reader'.due \in SUBSET reader.due /\ reader'.due \cap reading.got \subseteq reading'.got
        /\ reading'.got \subseteq reading.got
    BY <1>3, <1>4
  <2>3. Sound(reading, reader.due, Placed, Places, Tuples)
    BY <1>1
  <2> QED
    BY <1>4, <2>1, <2>2, <2>3, WaitKeepsSound
<1>10. Sound(reading, reader.due, Placed, Places, Tuples)'
  BY <1>6, <1>9
<1>11. reading'.got \subseteq AllKeys /\ reader'.ranked => reading'.got \cap todoPlaces' = {}
  BY <1>1, <1>3, <1>4 DEF FreshTodos
<1> QED
  BY <1>1, <1>2, <1>3, <1>4, <1>5, <1>10, <1>11 DEF ReadingInv, AllKeys

-----------------------------------------------------------------------------
(* Todos.                                                                  *)

\* Nobody whose rows stay goes.
LEMMA TodosStay ==
    ASSUME TodosInv, todos' = todos, todoPlaces' = todoPlaces,
           \A a \in Ids : Exists(a) => agents'[a] # NULL
    PROVE  TodosInv' /\ FreshTodos
<1>1. \A k \in TodoKeys : todos[k] # NULL => agents'[todos[k].owner] # NULL
  BY TodoFacts DEF TodosInv
<1> QED
  BY <1>1 DEF TodosInv, FreshTodos, Exists

LEMMA AddTodoKeeps ==
    ASSUME AgentsTypeOK, IdentitiesHold, TodosInv, agents' = agents,
           NEW p \in Paths, NEW rank \in Ranks, AddTodo(p, rank)
    PROVE  TodosInv' /\ FreshTodos
<1>1. Caller(p) \in Ids /\ Exists(Caller(p))
  BY CallerFacts DEF AddTodo
<1> DEFINE new == [owner |-> Caller(p), rank |-> rank, status |-> "pending", completed |-> FALSE]
<1>2. PICK k \in todoPlaces : /\ todos' = [todos EXCEPT ![k] = new]
                              /\ todoPlaces' = todoPlaces \ {k}
  BY DEF AddTodo
<1>3. /\ new \in Todo /\ new.owner = Caller(p)
      /\ new.completed = FALSE /\ new.status = "pending"
  BY <1>1, TodosAssumption DEF Todo
<1> HIDE DEF new
<1>4. k \in TodoKeys /\ todos'[k] = new /\ \A l \in TodoKeys \ {k} : todos'[l] = todos[l]
  BY <1>2 DEF TodosInv
<1>5. ASSUME NEW l \in TodoKeys, todos'[l] # NULL
      PROVE  /\ l \notin todoPlaces'
             /\ agents'[todos'[l].owner] # NULL
             /\ todos'[l].completed <=> todos'[l].status = "done"
  <2>1. CASE l = k
    BY <1>1, <1>2, <1>3, <1>4, <2>1 DEF Exists
  <2>2. CASE l # k
    BY <1>2, <1>4, <1>5, <2>2 DEF TodosInv, Exists
  <2> QED
    BY <2>1, <2>2
<1>6. todos' \in [TodoKeys -> Todo \cup {NULL}] /\ todoPlaces' \subseteq TodoKeys
  BY <1>2, <1>3, <1>4 DEF TodosInv
<1>7. TodosInv'
  BY <1>5, <1>6 DEF TodosInv, Exists
<1> QED
  BY <1>2, <1>4, <1>7 DEF FreshTodos

LEMMA UpdateTodoKeeps ==
    ASSUME TodosInv, agents' = agents, NEW p \in Paths, NEW k \in TodoKeys,
           NEW status \in Statuses \cup {NULL}, NEW rank \in Ranks \cup {NULL},
           UpdateTodo(p, k, status, rank)
    PROVE  TodosInv' /\ FreshTodos
<1>1. todos[k] # NULL /\ todos[k] \in Todo
  BY TodoFacts DEF UpdateTodo, TodosOf
<1> DEFINE new == [owner |-> todos[k].owner,
                   rank |-> IF rank = NULL THEN todos[k].rank ELSE rank,
                   status |-> IF status = NULL THEN todos[k].status ELSE status,
                   completed |-> Stamped(todos[k], status)]
<1>2. todos' = [todos EXCEPT ![k] = new] /\ todoPlaces' = todoPlaces
  BY DEF UpdateTodo
<1>3. new \in Todo
  BY <1>1, TodosAssumption DEF Todo, Stamped
<1>4. new.owner = todos[k].owner /\ (new.completed <=> new.status = "done")
  <2>1. todos[k].completed <=> todos[k].status = "done"
    BY <1>1 DEF TodosInv
  <2>2. CASE status = NULL
    BY <2>1, <2>2 DEF Stamped
  <2>3. CASE status # NULL
    BY <2>3 DEF Stamped
  <2> QED
    BY <2>2, <2>3
<1> HIDE DEF new
<1>5. todos'[k] = new /\ \A l \in TodoKeys \ {k} : todos'[l] = todos[l]
  BY <1>2 DEF TodosInv
<1>6. ASSUME NEW l \in TodoKeys, todos'[l] # NULL
      PROVE  /\ todos[l] # NULL /\ l \notin todoPlaces'
             /\ agents'[todos'[l].owner] # NULL
             /\ todos'[l].completed <=> todos'[l].status = "done"
  <2>1. CASE l = k
    BY <1>1, <1>2, <1>4, <1>5, <2>1 DEF TodosInv, Exists
  <2>2. CASE l # k
    BY <1>2, <1>5, <1>6, <2>2 DEF TodosInv, Exists
  <2> QED
    BY <2>1, <2>2
<1>7. todos' \in [TodoKeys -> Todo \cup {NULL}] /\ todoPlaces' \subseteq TodoKeys
  BY <1>2, <1>3 DEF TodosInv
<1>8. TodosInv'
  BY <1>6, <1>7 DEF TodosInv, Exists
<1> QED
  BY <1>2, <1>6, <1>8 DEF FreshTodos

\* The purge takes exactly the rows of the agent that goes.
LEMMA PurgeTodosKeeps ==
    ASSUME TodosInv, NEW a, PurgeTodos(a), \A b \in Ids \ {a} : Exists(b) => agents'[b] # NULL
    PROVE  TodosInv' /\ FreshTodos
<1>1. /\ todos' = [k \in TodoKeys |-> IF k \in TodosOf(a) THEN NULL ELSE todos[k]]
      /\ todoPlaces' = todoPlaces
  BY DEF PurgeTodos
<1>2. ASSUME NEW k \in TodoKeys, todos'[k] # NULL
      PROVE  /\ todos[k] # NULL /\ todos'[k] = todos[k]
             /\ agents'[todos'[k].owner] # NULL
  <2>1. todos[k] # NULL /\ todos'[k] = todos[k] /\ todos[k].owner # a
    BY <1>1, <1>2 DEF TodosOf
  <2> QED
    BY <2>1, TodoFacts DEF TodosInv
<1>3. todos' \in [TodoKeys -> Todo \cup {NULL}]
  BY <1>1 DEF TodosInv
<1> QED
  BY <1>1, <1>2, <1>3 DEF TodosInv, FreshTodos, Exists

-----------------------------------------------------------------------------
(* The timeline.                                                           *)

LEMMA TimelineStays ==
    ASSUME TimelineInv, blockers' = blockers, blockerPlaces' = blockerPlaces, notes' = notes,
           notePlaces' = notePlaces, erased' = erased,
           \A a \in Ids : Exists(a) => agents'[a] # NULL
    PROVE  TimelineInv'
<1>1. \A b \in BlockerKeys : blockers[b] # NULL => agents'[blockers[b].owner] # NULL
  BY BlockerFacts DEF TimelineInv, BlockersInv
<1>2. \A n \in NoteKeys : notes[n] # NULL => agents'[notes[n].owner] # NULL
  BY NoteFacts DEF TimelineInv, NotesInv
<1>3. \A b, event : ToldOnce(b, event) <=> ToldOnce(b, event)'
  BY DEF ToldOnce, NotesAbout
<1> QED
  BY <1>1, <1>2, <1>3 DEF TimelineInv, TimelineTypes, BlockersInv, NotesInv, ErasedInv, Exists

\* A note about nothing tells nothing of any blocker.
LEMMA LogMemoryKeeps ==
    ASSUME AgentsTypeOK, IdentitiesHold, TimelineInv, agents' = agents,
           NEW p \in Paths, LogMemory(p)
    PROVE  TimelineInv'
<1>1. Caller(p) \in Ids /\ Exists(Caller(p))
  BY CallerFacts DEF LogMemory
<1> DEFINE new == [owner |-> Caller(p), about |-> NULL, event |-> NULL, deleted |-> FALSE]
<1>2. PICK n \in notePlaces : /\ notes' = [notes EXCEPT ![n] = new]
                              /\ notePlaces' = notePlaces \ {n}
  BY DEF LogMemory, AppendNote
<1>3. new \in Note /\ new.owner = Caller(p) /\ new.about = NULL
  BY <1>1 DEF Note
<1> HIDE DEF new
<1>4. blockers' = blockers /\ blockerPlaces' = blockerPlaces /\ erased' = erased
  BY DEF LogMemory
<1>5. /\ n \in NoteKeys /\ notes'[n] = new /\ notes[n] = NULL
      /\ \A m \in NoteKeys \ {n} : notes'[m] = notes[m]
  BY <1>2 DEF TimelineInv, TimelineTypes, NotesInv
<1>6. TimelineTypes'
  BY <1>2, <1>3, <1>4, <1>5 DEF TimelineInv, TimelineTypes
<1>7. \A b \in BlockerKeys, event \in Events : NotesAbout(b, event)' = NotesAbout(b, event)
  BY <1>3, <1>5, RowFacts DEF NotesAbout
<1>8. BlockersInv'
  BY <1>4, <1>7 DEF TimelineInv, BlockersInv, ToldOnce, Exists
<1>9. NotesInv'
  <2> SUFFICES ASSUME NEW m \in NoteKeys, notes'[m] # NULL
               PROVE  /\ m \notin notePlaces' /\ agents'[notes'[m].owner] # NULL
                      /\ notes'[m].about # NULL => /\ blockers'[notes'[m].about] # NULL
                                                   /\ blockers'[notes'[m].about].owner = notes'[m].owner
                                                   /\ notes'[m].event \in Events
    BY DEF NotesInv, Exists
  <2>1. CASE m = n
    BY <1>1, <1>2, <1>3, <1>5, <2>1 DEF Exists
  <2>2. CASE m # n
    BY <1>2, <1>4, <1>5, <2>2 DEF TimelineInv, NotesInv, Exists
  <2> QED
    BY <2>1, <2>2
<1>10. ErasedInv'
  BY <1>4 DEF TimelineInv, ErasedInv
<1> QED
  BY <1>6, <1>8, <1>9, <1>10 DEF TimelineInv

\* An event of a blocker: its row gets the event's stamp, if it had not, and the
\* note is written.
EventTold(a, b, row, event, n) ==
    /\ blockers' = [blockers EXCEPT ![b] = row]
    /\ notes' = [notes EXCEPT ![n] = [owner |-> a, about |-> b, event |-> event, deleted |-> FALSE]]
    /\ blockerPlaces' = blockerPlaces \ {b}
    /\ notePlaces' = notePlaces \ {n}
    /\ erased' = erased
    /\ row.owner = a /\ Consistent(row)
    /\ \/ blockers[b] = NULL /\ b \in blockerPlaces
          /\ \A f \in Events : Stamps(row, f) <=> f = event
       \/ blockers[b] # NULL /\ blockers[b].owner = a /\ ~ Stamps(blockers[b], event)
          /\ \A f \in Events : Stamps(row, f) <=> f = event \/ Stamps(blockers[b], f)

LEMMA EventKeeps ==
    ASSUME TimelineInv, agents' = agents, NEW a \in Ids, Exists(a), NEW b \in BlockerKeys,
           NEW row \in Blocker, NEW event \in Events, NEW n \in notePlaces,
           EventTold(a, b, row, event, n)
    PROVE  TimelineInv'
<1> DEFINE new == [owner |-> a, about |-> b, event |-> event, deleted |-> FALSE]
<1>1. /\ blockers' = [blockers EXCEPT ![b] = row] /\ notes' = [notes EXCEPT ![n] = new]
      /\ blockerPlaces' = blockerPlaces \ {b} /\ notePlaces' = notePlaces \ {n}
      /\ erased' = erased /\ row.owner = a /\ Consistent(row)
  BY DEF EventTold
<1>2. new \in Note /\ new.owner = a /\ new.about = b /\ new.event = event
  BY DEF Note
<1> HIDE DEF new
<1>3. /\ n \in NoteKeys /\ notes'[n] = new /\ notes[n] = NULL /\ new # NULL
      /\ \A m \in NoteKeys \ {n} : notes'[m] = notes[m]
  BY <1>1, <1>2, RowFacts DEF TimelineInv, TimelineTypes, NotesInv
<1>4. /\ blockers'[b] = row /\ row # NULL
      /\ \A c \in BlockerKeys \ {b} : blockers'[c] = blockers[c]
  BY <1>1, RowFacts DEF TimelineInv, TimelineTypes
<1>5. TimelineTypes'
  BY <1>1, <1>2 DEF TimelineInv, TimelineTypes
<1>6. \A c \in BlockerKeys, f \in Events :
        NotesAbout(c, f)' = IF c = b /\ f = event THEN NotesAbout(c, f) \cup {n} ELSE NotesAbout(c, f)
  BY <1>2, <1>3 DEF NotesAbout
<1>7. ASSUME NEW f \in Events
      PROVE  (<<b, f>> \in erased => Stamps(row, f)) /\ ToldOnce(b, f)'
  <2>1. CASE blockers[b] = NULL
    <3>1. <<b, f>> \notin erased /\ (Stamps(row, f) <=> f = event)
      BY <2>1 DEF EventTold, TimelineInv, ErasedInv
    <3>2. NotesAbout(b, f) = {}
      BY <2>1, RowFacts DEF NotesAbout, TimelineInv, NotesInv
    <3>3. NotesAbout(b, f)' = IF f = event THEN {n} ELSE {}
      BY <1>6, <3>2
    <3> QED
      BY <1>1, <1>3, <1>4, <3>1, <3>3 DEF ToldOnce
  <2>2. CASE blockers[b] # NULL
    <3>1. /\ <<b, f>> \in erased => Stamps(blockers[b], f)
          /\ ToldOnce(b, f)
          /\ ~ Stamps(blockers[b], event)
          /\ Stamps(row, f) <=> f = event \/ Stamps(blockers[b], f)
      BY <2>2 DEF EventTold, TimelineInv, BlockersInv
    <3>2. CASE f = event
      <4>1. NotesAbout(b, f) = {} /\ <<b, f>> \notin erased
        BY <3>1, <3>2 DEF ToldOnce
      <4>2. NotesAbout(b, f)' = {n}
        BY <1>6, <3>2, <4>1
      <4> QED
        BY <1>1, <1>3, <1>4, <3>1, <3>2, <4>1, <4>2 DEF ToldOnce
    <3>3. CASE f # event
      <4>1. NotesAbout(b, f)' = NotesAbout(b, f)
        BY <1>6, <3>3
      <4> QED
        BY <1>1, <1>4, <3>1, <3>3, <4>1 DEF ToldOnce
    <3> QED
      BY <3>2, <3>3
  <2> QED
    BY <2>1, <2>2
<1>8. ASSUME NEW c \in BlockerKeys, c # b, NEW f \in Events
      PROVE  ToldOnce(c, f)' <=> ToldOnce(c, f)
  BY <1>1, <1>4, <1>6, <1>8 DEF ToldOnce
<1>9. BlockersInv'
  <2> SUFFICES ASSUME NEW c \in BlockerKeys, blockers'[c] # NULL
               PROVE  /\ c \notin blockerPlaces' /\ agents'[blockers'[c].owner] # NULL
                      /\ Consistent(blockers'[c])
                      /\ \A f \in Events : /\ <<c, f>> \in erased' => Stamps(blockers'[c], f)
                                           /\ ToldOnce(c, f)'
    BY DEF BlockersInv, Exists, Consistent, Stamps
  <2>1. CASE c = b
    BY <1>1, <1>4, <1>7, <2>1 DEF Exists
  <2>2. CASE c # b
    <3>1. blockers[c] # NULL /\ blockers'[c] = blockers[c]
      BY <1>4, <2>2
    <3> QED
      BY <1>1, <1>8, <2>2, <3>1 DEF TimelineInv, BlockersInv, Exists
  <2> QED
    BY <2>1, <2>2
<1>10. NotesInv'
  <2> SUFFICES ASSUME NEW m \in NoteKeys, notes'[m] # NULL
               PROVE  /\ m \notin notePlaces' /\ agents'[notes'[m].owner] # NULL
                      /\ notes'[m].about # NULL => /\ blockers'[notes'[m].about] # NULL
                                                   /\ blockers'[notes'[m].about].owner = notes'[m].owner
                                                   /\ notes'[m].event \in Events
    BY DEF NotesInv, Exists
  <2>1. CASE m = n
    BY <1>1, <1>2, <1>3, <1>4, <2>1 DEF Exists
  <2>2. CASE m # n
    <3>1. notes[m] # NULL /\ notes'[m] = notes[m]
      BY <1>3, <2>2
    <3>2. /\ m \notin notePlaces /\ agents[notes[m].owner] # NULL
          /\ notes[m].about \in BlockerKeys \cup {NULL}
          /\ notes[m].about # NULL => /\ blockers[notes[m].about] # NULL
                                      /\ blockers[notes[m].about].owner = notes[m].owner
                                      /\ notes[m].event \in Events
      BY <3>1, NoteFacts DEF TimelineInv, NotesInv, Exists
    <3>3. blockers[b] # NULL => blockers[b].owner = a
      BY DEF EventTold
    <3> QED
      BY <1>1, <1>4, <3>1, <3>2, <3>3
  <2> QED
    BY <2>1, <2>2
<1>11. ErasedInv'
  BY <1>1 DEF TimelineInv, ErasedInv
<1> QED
  BY <1>5, <1>9, <1>10, <1>11 DEF TimelineInv

LEMMA OpenBlockerKeeps ==
    ASSUME AgentsTypeOK, IdentitiesHold, TimelineInv, agents' = agents,
           NEW p \in Paths, NEW key \in ExternalKeys \cup {NULL}, OpenBlocker(p, key)
    PROVE  TimelineInv'
<1>1. Caller(p) \in Ids /\ Exists(Caller(p))
  BY CallerFacts DEF OpenBlocker
<1> DEFINE row == [owner |-> Caller(p), external |-> key, status |-> "active",
                   escalated |-> FALSE, resolved |-> FALSE]
<1>2. PICK b \in blockerPlaces, n \in notePlaces :
         /\ blockers' = [blockers EXCEPT ![b] = row]
         /\ blockerPlaces' = blockerPlaces \ {b}
         /\ notes' = [notes EXCEPT ![n] = [owner |-> Caller(p), about |-> b, event |-> "opened",
                                           deleted |-> FALSE]]
         /\ notePlaces' = notePlaces \ {n} /\ erased' = erased
  BY DEF OpenBlocker, AppendNote
<1>3. row \in Blocker /\ row.owner = Caller(p) /\ Consistent(row)
      /\ \A f \in Events : Stamps(row, f) <=> f = "opened"
  BY <1>1 DEF Blocker, Consistent, Stamps
<1> HIDE DEF row
<1>4. b \in BlockerKeys /\ blockers[b] = NULL
  BY <1>2 DEF TimelineInv, TimelineTypes, BlockersInv
<1>5. EventTold(Caller(p), b, row, "opened", n)
  BY <1>2, <1>3, <1>4 DEF EventTold
<1>6. "opened" \in Events
  BY DEF Events
<1> QED
  BY <1>1, <1>2, <1>3, <1>4, <1>5, <1>6, EventKeeps

\* What the two updates of a blocker's row have in common.
LEMMA StampKeeps ==
    ASSUME AgentsTypeOK, IdentitiesHold, TimelineInv, agents' = agents,
           NEW p \in Paths, NEW b \in BlockerKeys, Caller(p) # NULL, b \in BlockersOf(Caller(p)),
           NEW row \in Blocker, NEW event \in Events,
           row.owner = blockers[b].owner, Consistent(row), ~ Stamps(blockers[b], event),
           \A f \in Events : Stamps(row, f) <=> f = event \/ Stamps(blockers[b], f),
           blockers' = [blockers EXCEPT ![b] = row], AppendNote(Caller(p), b, event),
           blockerPlaces' = blockerPlaces, erased' = erased
    PROVE  TimelineInv'
<1>1. Caller(p) \in Ids /\ Exists(Caller(p))
  BY CallerFacts
<1>2. blockers[b] # NULL /\ blockers[b].owner = Caller(p) /\ b \notin blockerPlaces
  BY DEF BlockersOf, TimelineInv, BlockersInv
<1>3. PICK n \in notePlaces :
         /\ notes' = [notes EXCEPT ![n] = [owner |-> Caller(p), about |-> b, event |-> event,
                                           deleted |-> FALSE]]
         /\ notePlaces' = notePlaces \ {n}
  BY DEF AppendNote
<1>4. EventTold(Caller(p), b, row, event, n)
  BY <1>2, <1>3 DEF EventTold
<1> QED
  BY <1>1, <1>3, <1>4, EventKeeps

LEMMA EscalateBlockerKeeps ==
    ASSUME AgentsTypeOK, IdentitiesHold, TimelineInv, agents' = agents,
           NEW p \in Paths, NEW b \in BlockerKeys, EscalateBlocker(p, b)
    PROVE  TimelineInv'
<1> DEFINE row == [blockers[b] EXCEPT !.status = "escalated", !.escalated = TRUE]
<1>1. blockers[b] \in Blocker /\ Consistent(blockers[b]) /\ blockers[b].status = "active"
  BY BlockerFacts DEF EscalateBlocker, BlockersOf, TimelineInv, BlockersInv
<1>2. row \in Blocker /\ row.owner = blockers[b].owner /\ Consistent(row)
  BY <1>1 DEF Blocker, Consistent
<1>3. ~ Stamps(blockers[b], "escalated")
  BY <1>1 DEF Stamps, Consistent
<1>4. \A f \in Events : Stamps(row, f) <=> f = "escalated" \/ Stamps(blockers[b], f)
  BY <1>1 DEF Stamps, Blocker, Events
<1>5. blockers' = [blockers EXCEPT ![b] = row] /\ "escalated" \in Events
  BY DEF EscalateBlocker, Events, TimelineInv, TimelineTypes
<1> HIDE DEF row
<1> QED
  BY <1>2, <1>3, <1>4, <1>5, StampKeeps DEF EscalateBlocker

LEMMA ResolveBlockerKeeps ==
    ASSUME AgentsTypeOK, IdentitiesHold, TimelineInv, agents' = agents,
           NEW p \in Paths, NEW b \in BlockerKeys, ResolveBlocker(p, b)
    PROVE  TimelineInv'
<1> DEFINE row == [blockers[b] EXCEPT !.status = "resolved", !.resolved = TRUE]
<1>1. blockers[b] \in Blocker /\ Consistent(blockers[b]) /\ blockers[b].status # "resolved"
  BY BlockerFacts DEF ResolveBlocker, BlockersOf, TimelineInv, BlockersInv
<1>2. row \in Blocker /\ row.owner = blockers[b].owner /\ Consistent(row)
  BY <1>1 DEF Blocker, Consistent
<1>3. ~ Stamps(blockers[b], "resolved")
  BY <1>1 DEF Stamps, Consistent
<1>4. \A f \in Events : Stamps(row, f) <=> f = "resolved" \/ Stamps(blockers[b], f)
  BY <1>1 DEF Stamps, Blocker, Events
<1>5. blockers' = [blockers EXCEPT ![b] = row] /\ "resolved" \in Events
  BY DEF ResolveBlocker, Events, TimelineInv, TimelineTypes
<1> HIDE DEF row
<1> QED
  BY <1>2, <1>3, <1>4, <1>5, StampKeeps DEF ResolveBlocker

\* A note that is soft-deleted or restored still tells what it told.
LEMMA MarkNotesKeeps ==
    ASSUME TimelineInv, agents' = agents, NEW p \in Paths, NEW S \in SUBSET NoteKeys,
           NEW deleted \in BOOLEAN, MarkNotes(p, S, deleted)
    PROVE  TimelineInv'
<1>1. /\ notes' = [n \in NoteKeys |-> IF n \in S \cap NotesOf(Caller(p))
                                      THEN [notes[n] EXCEPT !.deleted = deleted] ELSE notes[n]]
      /\ blockers' = blockers /\ blockerPlaces' = blockerPlaces
      /\ notePlaces' = notePlaces /\ erased' = erased
  BY DEF MarkNotes
<1>2. ASSUME NEW n \in NoteKeys, notes[n] # NULL
      PROVE  /\ [notes[n] EXCEPT !.deleted = deleted] \in Note
             /\ [notes[n] EXCEPT !.deleted = deleted].owner = notes[n].owner
             /\ [notes[n] EXCEPT !.deleted = deleted].about = notes[n].about
             /\ [notes[n] EXCEPT !.deleted = deleted].event = notes[n].event
  <2>1. notes[n] \in Note
    BY <1>2, NoteFacts DEF TimelineInv
  <2> QED
    BY <2>1 DEF Note
<1>3. ASSUME NEW n \in NoteKeys
      PROVE  /\ notes'[n] = NULL <=> notes[n] = NULL
             /\ notes[n] # NULL => /\ notes'[n] \in Note /\ notes'[n].owner = notes[n].owner
                                   /\ notes'[n].about = notes[n].about
                                   /\ notes'[n].event = notes[n].event
  <2>1. CASE n \in S \cap NotesOf(Caller(p))
    <3>1. notes[n] # NULL /\ notes'[n] = [notes[n] EXCEPT !.deleted = deleted]
      BY <1>1, <2>1 DEF NotesOf
    <3> QED
      BY <1>2, <3>1, RowFacts
  <2>2. CASE n \notin S \cap NotesOf(Caller(p))
    BY <1>1, <2>2, NoteFacts DEF TimelineInv
  <2> QED
    BY <2>1, <2>2
<1>4. notes' = [n \in NoteKeys |-> notes'[n]]
  BY <1>1
<1>5. TimelineTypes'
  <2>1. notes' \in [NoteKeys -> Note \cup {NULL}]
    BY <1>3, <1>4
  <2> QED
    BY <1>1, <2>1 DEF TimelineInv, TimelineTypes
<1>6. \A b, event : NotesAbout(b, event)' = NotesAbout(b, event)
  BY <1>3 DEF NotesAbout
<1>7. BlockersInv' /\ ErasedInv'
  BY <1>1, <1>6 DEF TimelineInv, BlockersInv, ErasedInv, ToldOnce, Exists
<1>8. NotesInv'
  BY <1>1, <1>3 DEF TimelineInv, NotesInv, Exists
<1> QED
  BY <1>5, <1>7, <1>8 DEF TimelineInv

\* A note that is erased leaves the event it told of among the erased ones.
LEMMA EraseNotesKeeps ==
    ASSUME TimelineInv, agents' = agents, NEW p \in Paths, NEW S \in SUBSET NoteKeys,
           EraseNotes(p, S)
    PROVE  TimelineInv'
<1>1. PICK own :
         /\ own = S \cap NotesOf(Caller(p))
         /\ notes' = [n \in NoteKeys |-> IF n \in own THEN NULL ELSE notes[n]]
         /\ erased' = erased \cup {<<notes[n].about, notes[n].event>> : n \in own}
         /\ blockers' = blockers /\ blockerPlaces' = blockerPlaces /\ notePlaces' = notePlaces
  BY DEF EraseNotes
<1>2. \A n \in own : n \in NoteKeys /\ notes[n] # NULL
  BY <1>1 DEF NotesOf
<1>3. \A b, event : <<b, event>> \in erased' <=>
         \/ <<b, event>> \in erased
         \/ \E n \in own : notes[n].about = b /\ notes[n].event = event
  BY <1>1
<1>4. TimelineTypes'
  <2>1. \A n \in own : /\ notes[n].about \in BlockerKeys \cup {NULL}
                       /\ notes[n].event \in Events \cup {NULL}
    BY <1>2 DEF TimelineInv, TimelineTypes, Note
  <2>2. erased' \subseteq (BlockerKeys \cup {NULL}) \X (Events \cup {NULL})
    BY <1>1, <2>1 DEF TimelineInv, TimelineTypes
  <2>3. notes' \in [NoteKeys -> Note \cup {NULL}]
    BY <1>1 DEF TimelineInv, TimelineTypes
  <2> QED
    BY <1>1, <2>2, <2>3 DEF TimelineInv, TimelineTypes
<1>5. \A b, event : NotesAbout(b, event)' = NotesAbout(b, event) \ own
  BY <1>1 DEF NotesAbout
<1>6. ASSUME NEW b \in BlockerKeys, blockers[b] # NULL, NEW event \in Events
      PROVE  (<<b, event>> \in erased' => Stamps(blockers[b], event)) /\ ToldOnce(b, event)'
  <2>1. /\ <<b, event>> \in erased => Stamps(blockers[b], event)
        /\ ToldOnce(b, event)
    BY <1>6 DEF TimelineInv, BlockersInv
  <2>2. CASE NotesAbout(b, event) \cap own = {}
    <3>1. /\ NotesAbout(b, event)' = NotesAbout(b, event)
          /\ <<b, event>> \in erased' <=> <<b, event>> \in erased
      BY <1>2, <1>3, <1>5, <2>2 DEF NotesAbout
    <3> QED
      BY <1>1, <2>1, <3>1 DEF ToldOnce
  <2>3. CASE NotesAbout(b, event) \cap own # {}
    <3>1. Stamps(blockers[b], event) /\ \E n \in NoteKeys : NotesAbout(b, event) = {n}
      BY <2>1, <2>3 DEF ToldOnce
    <3>2. NotesAbout(b, event)' = {} /\ <<b, event>> \in erased'
      BY <1>3, <1>5, <2>3, <3>1 DEF NotesAbout
    <3> QED
      BY <3>1, <3>2 DEF ToldOnce
  <2> QED
    BY <2>2, <2>3
<1>7. BlockersInv'
  BY <1>1, <1>6 DEF TimelineInv, BlockersInv, Exists
<1>8. NotesInv'
  BY <1>1 DEF TimelineInv, NotesInv, Exists
<1>9. ErasedInv'
  <2> SUFFICES ASSUME NEW b \in blockerPlaces, NEW event \in Events, <<b, event>> \in erased'
               PROVE  FALSE
    BY <1>1 DEF ErasedInv
  <2>1. PICK n \in own : notes[n].about = b
    BY <1>3 DEF TimelineInv, ErasedInv
  <2>2. b \in BlockerKeys
    BY DEF TimelineInv, TimelineTypes
  <2>3. blockers[b] # NULL
    BY <1>2, <2>1, <2>2, RowFacts DEF TimelineInv, NotesInv
  <2> QED
    BY <2>2, <2>3 DEF TimelineInv, BlockersInv
<1> QED
  BY <1>4, <1>7, <1>8, <1>9 DEF TimelineInv

\* A purge takes the notes about the agent's blockers with them, and no others.
LEMMA PurgeTimelineKeeps ==
    ASSUME TimelineInv, NEW a, PurgeTimeline(a),
           \A b \in Ids \ {a} : Exists(b) => agents'[b] # NULL
    PROVE  TimelineInv'
<1>1. /\ notes' = [n \in NoteKeys |-> IF n \in NotesOf(a) THEN NULL ELSE notes[n]]
      /\ blockers' = [b \in BlockerKeys |-> IF b \in BlockersOf(a) THEN NULL ELSE blockers[b]]
      /\ blockerPlaces' = blockerPlaces /\ notePlaces' = notePlaces /\ erased' = erased
  BY DEF PurgeTimeline
<1>2. ASSUME NEW b \in BlockerKeys, blockers'[b] # NULL
      PROVE  /\ blockers[b] # NULL /\ blockers'[b] = blockers[b] /\ blockers[b].owner # a
             /\ agents'[blockers[b].owner] # NULL
  <2>1. blockers[b] # NULL /\ blockers'[b] = blockers[b] /\ blockers[b].owner # a
    BY <1>1, <1>2 DEF BlockersOf
  <2> QED
    BY <2>1, BlockerFacts DEF TimelineInv, BlockersInv
<1>3. ASSUME NEW n \in NoteKeys, notes'[n] # NULL
      PROVE  /\ notes[n] # NULL /\ notes'[n] = notes[n] /\ notes[n].owner # a
             /\ agents'[notes[n].owner] # NULL
  <2>1. notes[n] # NULL /\ notes'[n] = notes[n] /\ notes[n].owner # a
    BY <1>1, <1>3 DEF NotesOf
  <2> QED
    BY <2>1, NoteFacts DEF TimelineInv, NotesInv
<1>4. TimelineTypes'
  BY <1>1 DEF TimelineInv, TimelineTypes
<1>5. ASSUME NEW b \in BlockerKeys, blockers'[b] # NULL, NEW event \in Events
      PROVE  ToldOnce(b, event)' <=> ToldOnce(b, event)
  <2>1. \A n \in NotesAbout(b, event) : notes[n].owner # a
    BY <1>2, <1>5, RowFacts DEF NotesAbout, TimelineInv, NotesInv
  <2>2. NotesAbout(b, event)' = NotesAbout(b, event)
    BY <1>1, <2>1 DEF NotesAbout, NotesOf
  <2> QED
    BY <1>1, <1>2, <1>5, <2>2 DEF ToldOnce
<1>6. BlockersInv'
  BY <1>1, <1>2, <1>5 DEF TimelineInv, BlockersInv, Exists
<1>7. NotesInv'
  <2> SUFFICES ASSUME NEW n \in NoteKeys, notes'[n] # NULL
               PROVE  /\ n \notin notePlaces' /\ agents'[notes'[n].owner] # NULL
                      /\ notes'[n].about # NULL => /\ blockers'[notes'[n].about] # NULL
                                                   /\ blockers'[notes'[n].about].owner = notes'[n].owner
                                                   /\ notes'[n].event \in Events
    BY DEF NotesInv, Exists
  <2>1. notes[n].about \in BlockerKeys \cup {NULL}
    BY <1>3, NoteFacts DEF TimelineInv
  <2>2. notes[n].about # NULL => /\ blockers[notes[n].about] # NULL
                                 /\ blockers[notes[n].about].owner = notes[n].owner
                                 /\ notes[n].event \in Events
    BY <1>3 DEF TimelineInv, NotesInv
  <2>3. notes[n].about # NULL => blockers'[notes[n].about] = blockers[notes[n].about]
    BY <1>1, <1>3, <2>1, <2>2 DEF BlockersOf
  <2> QED
    BY <1>1, <1>3, <2>2, <2>3 DEF TimelineInv, NotesInv
<1>8. ErasedInv'
  BY <1>1 DEF TimelineInv, ErasedInv
<1> QED
  BY <1>4, <1>6, <1>7, <1>8 DEF TimelineInv

-----------------------------------------------------------------------------
(* Every step keeps the invariant.                                         *)

LEMMA TodoStepKeeps == IInv /\ TodoStep => IInv'
<1> SUFFICES ASSUME IInv, TodoStep PROVE IInv'
  OBVIOUS
<1>1. /\ AgentsTypeOK /\ IdentitiesHold /\ TodosInv /\ TimelineInv /\ ReadingInv
  BY DEF IInv
<1>2. /\ agents' = agents /\ UNCHANGED identity /\ Waiting
      /\ blockers' = blockers /\ blockerPlaces' = blockerPlaces
      /\ notes' = notes /\ notePlaces' = notePlaces /\ erased' = erased
  BY DEF TodoStep, identity, tables
<1>3. AgentsTypeOK' /\ IdentitiesHold'
  BY <1>1, <1>2, IdentityKept DEF IdentityMoves
<1>4. TodosInv' /\ FreshTodos
  BY <1>1, <1>2, CalledArePaths, AddTodoKeeps, UpdateTodoKeeps DEF TodoStep
<1>5. TimelineInv'
  BY <1>1, <1>2, TimelineStays DEF Exists
<1>6. ReadingInv'
  BY <1>1, <1>2, <1>4, WaitingKeeps
<1> QED
  BY <1>3, <1>4, <1>5, <1>6 DEF IInv

LEMMA TimelineStepKeeps == IInv /\ TimelineStep => IInv'
<1> SUFFICES ASSUME IInv, TimelineStep PROVE IInv'
  OBVIOUS
<1>1. /\ AgentsTypeOK /\ IdentitiesHold /\ TodosInv /\ TimelineInv /\ ReadingInv
  BY DEF IInv
<1>2. /\ agents' = agents /\ UNCHANGED identity /\ Waiting
      /\ todos' = todos /\ todoPlaces' = todoPlaces
  BY DEF TimelineStep, identity, tables
<1>3. AgentsTypeOK' /\ IdentitiesHold'
  BY <1>1, <1>2, IdentityKept DEF IdentityMoves
<1>4. TodosInv' /\ FreshTodos
  BY <1>1, <1>2, TodosStay DEF Exists
<1>5. TimelineInv'
  BY <1>1, <1>2, CalledArePaths, LogMemoryKeeps, OpenBlockerKeeps, EscalateBlockerKeeps, ResolveBlockerKeeps,
     MarkNotesKeeps, EraseNotesKeeps DEF TimelineStep, WrittenNotes
<1>6. ReadingInv'
  BY <1>1, <1>2, <1>4, WaitingKeeps
<1> QED
  BY <1>3, <1>4, <1>5, <1>6 DEF IInv

LEMMA PurgeKeeps ==
    ASSUME IInv, NEW p \in Paths, Purge(p)
    PROVE  IInv'
<1>1. /\ AgentsTypeOK /\ IdentitiesHold /\ TodosInv /\ TimelineInv /\ ReadingInv
  BY DEF IInv
<1>2. /\ HardPurge(p) /\ PurgeTodos(aliases[p]) /\ PurgeTimeline(aliases[p]) /\ Waiting
  BY DEF Purge
<1>3. AgentsTypeOK' /\ IdentitiesHold'
  BY <1>1, <1>2, IdentityKept DEF IdentityMoves
<1>4. \A b \in Ids \ {aliases[p]} : Exists(b) => agents'[b] # NULL
  BY <1>1, <1>2, WhoExists DEF Exists
<1>5. TodosInv' /\ FreshTodos
  BY <1>1, <1>2, <1>4, PurgeTodosKeeps
<1>6. TimelineInv'
  BY <1>1, <1>2, <1>4, PurgeTimelineKeeps
<1>7. ReadingInv'
  BY <1>1, <1>2, <1>5, WaitingKeeps
<1> QED
  BY <1>3, <1>5, <1>6, <1>7 DEF IInv

LEMMA IdentityKeeps == IInv /\ Identity => IInv'
<1> SUFFICES ASSUME IInv, Identity PROVE IInv'
  OBVIOUS
<1>1. /\ AgentsTypeOK /\ IdentitiesHold /\ TodosInv /\ TimelineInv /\ ReadingInv
  BY DEF IInv
<1>2. /\ IdentityStep /\ Waiting /\ todos' = todos /\ todoPlaces' = todoPlaces
      /\ blockers' = blockers /\ blockerPlaces' = blockerPlaces
      /\ notes' = notes /\ notePlaces' = notePlaces /\ erased' = erased
  BY DEF Identity
<1>3. AgentsTypeOK' /\ IdentitiesHold'
  BY <1>1, <1>2, IdentityKept DEF IdentityMoves
<1>4. \A a \in Ids : Exists(a) => agents'[a] # NULL
  BY <1>1, <1>2, WhoExists DEF Exists
<1>5. TodosInv' /\ FreshTodos
  BY <1>1, <1>2, <1>4, TodosStay
<1>6. TimelineInv'
  BY <1>1, <1>2, <1>4, TimelineStays
<1>7. ReadingInv'
  BY <1>1, <1>2, <1>5, WaitingKeeps
<1> QED
  BY <1>3, <1>5, <1>6, <1>7 DEF IInv

\* The steps of the reader leave every table alone.
TablesStay == /\ UNCHANGED identity /\ todos' = todos /\ todoPlaces' = todoPlaces
              /\ blockers' = blockers /\ blockerPlaces' = blockerPlaces
              /\ notes' = notes /\ notePlaces' = notePlaces /\ erased' = erased

LEMMA TablesKept ==
    ASSUME IInv, TablesStay
    PROVE  AgentsTypeOK' /\ IdentitiesHold' /\ TodosInv' /\ TimelineInv'
<1>1. /\ AgentsTypeOK /\ IdentitiesHold /\ TodosInv /\ TimelineInv
  BY DEF IInv
<1>2. AgentsTypeOK' /\ IdentitiesHold'
  BY <1>1, IdentityKept DEF IdentityMoves, TablesStay
<1>3. \A a \in Ids : Exists(a) => agents'[a] # NULL
  BY DEF Exists, TablesStay, identity, tables
<1>4. TodosInv' /\ TimelineInv'
  BY <1>1, <1>3, TodosStay, TimelineStays DEF TablesStay
<1> QED
  BY <1>2, <1>4

LEMMA OpenKeeps ==
    ASSUME IInv, NEW p \in Paths, NEW table \in Tables, NEW filter \in FiltersOf(table),
           NEW ranked \in BOOLEAN, Open(p, table, filter, ranked)
    PROVE  IInv'
<1>1. /\ AgentsTypeOK /\ IdentitiesHold /\ ReadingInv
  BY DEF IInv
<1>2. TablesStay
  BY DEF Open, TablesStay
<1>3. PICK a \in Ids, due \in SUBSET AllKeys :
         /\ due = Listed(a, table, filter)
         /\ reader' = [of |-> a, table |-> table, filter |-> filter, ranked |-> ranked, due |-> due]
  <2>1. Caller(p) \in Ids
    BY <1>1, CallerFacts DEF Open
  <2>2. Listed(Caller(p), table, filter) \in SUBSET AllKeys
    BY ListedFacts
  <2> QED
    BY <2>1, <2>2 DEF Open
<1>4. /\ reading' = reading /\ reading.more /\ (ranked => table = "todos")
      /\ reader.of = NULL
  BY DEF Open, NoReader
<1>5. reading.cursor = <<>> /\ reading.got = {} /\ ~ reading.again
  BY <1>1, <1>4 DEF ReadingInv, Sound
<1>6. DueIsListed'
  BY <1>2, <1>3 DEF DueIsListed, TablesStay, Listed, TodosOf, BlockersOf, NotesOf
<1>7. Sound(reading, reader.due, Placed, Places, Tuples)'
  BY <1>4, <1>5 DEF Sound
<1>8. /\ reader' \in [of : Ids \cup {NULL}, table : Tables,
                      filter : UNION {FiltersOf(t) : t \in Tables},
                      ranked : BOOLEAN, due : SUBSET AllKeys]
      /\ reader'.of # NULL
      /\ reader'.ranked => reader'.table = "todos"
  BY <1>3, <1>4, RowFacts
<1>9. ReadingInv'
  BY <1>1, <1>4, <1>5, <1>6, <1>7, <1>8 DEF ReadingInv, AllKeys
<1> QED
  BY <1>2, <1>9, TablesKept DEF IInv

LEMMA ListKeeps ==
    ASSUME IInv, NEW p \in Paths, List(p)
    PROVE  IInv'
<1> DEFINE S == Listed(reader.of, reader.table, reader.filter)
           own == KeyOf(S, reader.ranked)
<1>1. /\ TodosInv /\ ReadingInv /\ DueIsListed
  BY DEF IInv, ReadingInv
<1>2. TablesStay /\ reader' = reader
  BY DEF List, TablesStay
<1>3. PICK next : reading' = next /\ next = Fetch(reading, S, own, Limit)
  BY DEF List
<1>4. /\ reader.table \in Tables /\ reader.due \in SUBSET S
      /\ reader.ranked => reader.table = "todos" /\ reading.got \cap todoPlaces = {}
      /\ Sound(reading, reader.due, Placed, Places, Tuples)
  BY <1>1 DEF ReadingInv, DueIsListed
<1>5. S \in SUBSET Placed
  <2>1. S \in SUBSET AllKeys /\ (reader.table = "todos" => S \in SUBSET {k \in TodoKeys : todos[k] # NULL})
    BY <1>4, ListedFacts
  <2> HIDE DEF S
  <2> QED
    BY <1>4, <2>1 DEF Placed
<1> HIDE DEF S
<1>6. \A r \in S : own[r] = Places[r]
  BY <1>5 DEF Places, KeyOf
<1>7. IsFiniteSet(S)
  BY <1>1, <1>5, PlacesFacts, KeysFinite, FS_Subset
<1>8. Keyed(Placed, Places, Tuples) /\ Ordered(Tuples) /\ Limit \in Nat \ {0}
  BY <1>1, PlacesFacts, TuplesOrdered, WorkAssumption
<1> HIDE DEF own
<1>9. Sound(next, reader.due, Placed, Places, Tuples) /\ Onward(next, reading, S)
  <2>1. reading.more
    BY DEF List
  <2>2. /\ S \in SUBSET Placed /\ IsFiniteSet(S) /\ reader.due \in SUBSET S
        /\ \A r \in S : own[r] = Places[r]
        /\ Sound(reading, reader.due, Placed, Places, Tuples)
        /\ Keyed(Placed, Places, Tuples) /\ Ordered(Tuples) /\ Limit \in Nat \ {0}
        /\ next = Fetch(reading, S, own, Limit)
    BY <1>3, <1>4, <1>5, <1>6, <1>7, <1>8
  <2>3. Sound(next, reader.due, Placed, Places, Tuples)
    BY <2>1, <2>2, PageKeepsSound
  <2>4. Onward(next, reading, S)
    BY <2>1, <2>2, <2>3, PageKeepsSound
  <2> QED
    BY <2>3, <2>4
<1>10. next.got \subseteq AllKeys
  BY <1>1, <1>5, <1>9, PlacesFacts DEF ReadingInv, Onward
<1>11. reader.ranked => next.got \cap todoPlaces = {}
  <2>1. reader.ranked => S \cap todoPlaces = {}
    BY <1>1, <1>5 DEF Placed, TodosInv
  <2> QED
    BY <1>4, <1>9, <2>1 DEF Onward
<1>12. /\ Placed' = Placed /\ Tuples' = Tuples /\ Places' = Places
  BY <1>2 DEF Placed, Tuples, Places, KeyOf, TablesStay, AllKeys
<1>13. DueIsListed'
  BY <1>1, <1>2 DEF DueIsListed, TablesStay, Listed, TodosOf, BlockersOf, NotesOf
<1>14. Sound(reading, reader.due, Placed, Places, Tuples)'
  BY <1>2, <1>3, <1>9, <1>12
<1>15. ReadingInv'
  <2>1. reading' = next /\ reader.of # NULL
    BY <1>3 DEF List
  <2> QED
    BY <1>1, <1>2, <1>9, <1>10, <1>11, <1>13, <1>14, <2>1 DEF ReadingInv, Onward, AllKeys, TablesStay
<1> QED
  BY <1>2, <1>15, TablesKept DEF IInv

LEMMA WorkStutter == IInv /\ UNCHANGED vars => IInv'
<1> SUFFICES ASSUME IInv, UNCHANGED vars PROVE IInv'
  OBVIOUS
<1>1. TablesStay /\ reader' = reader /\ reading' = reading
  BY DEF vars, TablesStay
<1>2. ReadingInv
  BY DEF IInv
<1>3. Placed' = Placed /\ Tuples' = Tuples /\ Places' = Places
  BY <1>1 DEF Placed, Tuples, Places, KeyOf, TablesStay, AllKeys
<1>4. DueIsListed'
  BY <1>1, <1>2 DEF ReadingInv, DueIsListed, TablesStay, Listed, TodosOf, BlockersOf, NotesOf
<1>5. Sound(reading, reader.due, Placed, Places, Tuples)'
  BY <1>1, <1>2, <1>3 DEF ReadingInv
<1>6. ReadingInv'
  BY <1>1, <1>2, <1>4, <1>5 DEF ReadingInv, AllKeys, TablesStay
<1> QED
  BY <1>1, <1>6, TablesKept DEF IInv

LEMMA WorkStarts == Init => IInv
<1> SUFFICES ASSUME Init PROVE IInv
  OBVIOUS
<1>1. AgentsTypeOK /\ IdentitiesHold
  BY IdentityStarts DEF Init
<1>2. \A k \in TodoKeys : todos[k] = NULL
  BY DEF Init, TodosInit
<1>3. \A b \in BlockerKeys : blockers[b] = NULL
  BY DEF Init, TimelineInit
<1>4. \A n \in NoteKeys : notes[n] = NULL
  BY DEF Init, TimelineInit
<1>5. TodosInv
  BY <1>2 DEF Init, TodosInit, TodosInv
<1>6. TimelineInv
  BY <1>3, <1>4 DEF Init, TimelineInit, TimelineInv, TimelineTypes, BlockersInv, NotesInv, ErasedInv
<1>7. PICK more \in BOOLEAN : reading = [Unstarted EXCEPT !.more = more]
  BY WorkAssumption DEF Init
<1>8. reading = [more |-> more, cursor |-> <<>>, got |-> {}, again |-> FALSE]
  BY <1>7 DEF Unstarted
<1>9. reader = NoReader
  BY DEF Init
<1>10. Sound(reading, reader.due, Placed, Places, Tuples)
  BY <1>8, <1>9 DEF Sound, NoReader
<1>11. NULL \in UNION {FiltersOf(table) : table \in Tables} /\ "todos" \in Tables
  BY DEF FiltersOf, Tables
<1>12. /\ reader \in [of : Ids \cup {NULL}, table : Tables,
                      filter : UNION {FiltersOf(table) : table \in Tables},
                      ranked : BOOLEAN, due : SUBSET AllKeys]
       /\ reader.due = {} /\ reader.ranked = FALSE
  BY <1>9, <1>11 DEF NoReader
<1>13. ReadingInv
  BY <1>8, <1>10, <1>12 DEF ReadingInv, DueIsListed
<1> QED
  BY <1>1, <1>5, <1>6, <1>13 DEF IInv

LEMMA WorkStep == IInv /\ [Next]_vars => IInv'
<1> SUFFICES ASSUME IInv, [Next]_vars PROVE IInv'
  OBVIOUS
<1>1. CASE TodoStep
  BY <1>1, TodoStepKeeps
<1>2. CASE TimelineStep
  BY <1>2, TimelineStepKeeps
<1>3. CASE Identity
  BY <1>3, IdentityKeeps
<1>4. CASE \E p \in Paths : Purge(p)
  BY <1>4, PurgeKeeps
<1>5. CASE \E p \in Paths : List(p)
  BY <1>5, ListKeeps
<1>6. CASE \E p \in Paths, table \in Tables, ranked \in BOOLEAN :
              \E filter \in FiltersOf(table) : Open(p, table, filter, ranked)
  BY <1>6, OpenKeeps
<1>7. CASE UNCHANGED vars
  BY <1>7, WorkStutter
<1>8. Called \subseteq Paths
  BY CalledArePaths DEF IInv
<1> QED
  BY <1>8, <1>1, <1>2, <1>3, <1>4, <1>5, <1>6, <1>7 DEF Next

-----------------------------------------------------------------------------
(* The theorems.                                                           *)

\* Every reachable state of the work items satisfies the inductive invariant.
THEOREM WorkInductive == Spec => []IInv
  BY WorkStarts, WorkStep, PTL DEF Spec

\* The tables and the reading keep their types.
THEOREM WorkTyped == Spec => []TypeOK
<1>1. IInv => TypeOK
  BY DEF IInv, TodosInv, TimelineInv, TimelineTypes, ReadingInv, AllKeys, TypeOK
<1> QED
  BY <1>1, WorkInductive, PTL

\* No todo, blocker or note outlives its agent, whatever was purged (agents.py).
THEOREM WorkHasOwners == Spec => []NoOrphans
<1>1. IInv => NoOrphans
  BY DEF IInv, TodosInv, TimelineInv, BlockersInv, NotesInv, NoOrphans
<1> QED
  BY <1>1, WorkInductive, PTL

\* What the notes and stamps tell of the past is what happened: every event of a
\* blocker that is there is told by one note of its agent, unless that was erased.
THEOREM HistoryIsTold == Spec => []HistoryTells
<1>1. ASSUME IInv PROVE CompletionTells
  BY <1>1 DEF IInv, TodosInv, CompletionTells
<1>2. ASSUME IInv PROVE TimelineTells
  <2> SUFFICES ASSUME NEW b \in BlockerKeys, blockers[b] # NULL
               PROVE  /\ \A event \in Events :
                           IF ~ Happened(b, event) THEN Told(b, event) = {}
                           ELSE Cardinality(Told(b, event)) = IF <<b, event>> \in erased THEN 0 ELSE 1
                      /\ blockers[b].resolved <=> blockers[b].status = "resolved"
                      /\ blockers[b].status = "escalated" => blockers[b].escalated
                      /\ blockers[b].status = "active" => ~ blockers[b].escalated
    BY DEF TimelineTells
  <2>1. ASSUME NEW event \in Events
        PROVE  IF ~ Happened(b, event) THEN Told(b, event) = {}
               ELSE Cardinality(Told(b, event)) = IF <<b, event>> \in erased THEN 0 ELSE 1
    <3>1. Told(b, event) = NotesAbout(b, event)
      BY <1>2, RowFacts DEF Told, NotesAbout, NotesOf, IInv, TimelineInv, NotesInv
    <3>2. Happened(b, event) <=> Stamps(blockers[b], event)
      BY DEF Happened, Stamps, Events
    <3>3. ToldOnce(b, event)
      BY <1>2 DEF IInv, TimelineInv, BlockersInv
    <3>4. CASE Stamps(blockers[b], event) /\ <<b, event>> \notin erased
      <4>1. PICK n \in NoteKeys : Told(b, event) = {n}
        BY <3>1, <3>3, <3>4 DEF ToldOnce
      <4>2. Cardinality(Told(b, event)) = 1
        BY <4>1, FS_Singleton
      <4> QED
        BY <3>2, <3>4, <4>2
    <3>5. CASE ~ (Stamps(blockers[b], event) /\ <<b, event>> \notin erased)
      <4>1. Told(b, event) = {}
        BY <3>1, <3>3, <3>5 DEF ToldOnce
      <4>2. Cardinality(Told(b, event)) = 0
        BY <4>1, FS_EmptySet
      <4> QED
        BY <3>2, <3>5, <4>1, <4>2
    <3> QED
      BY <3>4, <3>5
  <2>2. Consistent(blockers[b])
    BY <1>2 DEF IInv, TimelineInv, BlockersInv
  <2> QED
    BY <2>1, <2>2 DEF Consistent
<1>3. IInv => HistoryTells
  BY <1>1, <1>2 DEF HistoryTells
<1> QED
  BY <1>3, WorkInductive, PTL

\* The pages of a reading repeat nothing and, at the end, have skipped nothing that
\* was listed all the while at one place, in any list, ranked or not.
THEOREM ListsAreExact == Spec => []PagesAreExact
<1>1. IInv => PagesAreExact
  BY DEF IInv, ReadingInv, Sound, PagesAreExact
<1> QED
  BY <1>1, WorkInductive, PTL

-----------------------------------------------------------------------------
(* Whose rows a call touches.                                              *)

\* A row that comes, changes or goes is a's before and after, where there is one.
Theirs(old, new, a) == \/ new = old
                       \/ /\ old # NULL => old.owner = a
                          /\ new # NULL => new.owner = a
OnlyTheirs(a) == /\ \A k \in TodoKeys : Theirs(todos[k], todos'[k], a)
                 /\ \A b \in BlockerKeys : Theirs(blockers[b], blockers'[b], a)
                 /\ \A n \in NoteKeys : Theirs(notes[n], notes'[n], a)

LEMMA AppendIsTheirs ==
    ASSUME TimelineInv, NEW a, NEW about, NEW event, AppendNote(a, about, event)
    PROVE  \A n \in NoteKeys : Theirs(notes[n], notes'[n], a)
<1> DEFINE new == [owner |-> a, about |-> about, event |-> event, deleted |-> FALSE]
<1>1. PICK n \in notePlaces : notes' = [notes EXCEPT ![n] = new]
  BY DEF AppendNote
<1>2. new.owner = a
  OBVIOUS
<1> HIDE DEF new
<1>3. notes[n] = NULL /\ notes'[n] = new /\ \A m \in NoteKeys \ {n} : notes'[m] = notes[m]
  BY <1>1 DEF TimelineInv, TimelineTypes, NotesInv
<1> QED
  BY <1>2, <1>3 DEF Theirs

LEMMA TodoStepTheirs ==
    ASSUME IInv, TodoStep
    PROVE  \E p \in Paths : Caller(p) # NULL /\ OnlyTheirs(Caller(p))
<1>1. TodosInv /\ blockers' = blockers /\ notes' = notes
  BY DEF IInv, TodoStep
<1>2. ASSUME NEW p \in Paths, NEW rank \in Ranks, AddTodo(p, rank)
      PROVE  Caller(p) # NULL /\ OnlyTheirs(Caller(p))
  <2> DEFINE new == [owner |-> Caller(p), rank |-> rank, status |-> "pending", completed |-> FALSE]
  <2>1. PICK k \in todoPlaces : todos' = [todos EXCEPT ![k] = new]
    BY <1>2 DEF AddTodo
  <2>2. new.owner = Caller(p) /\ Caller(p) # NULL
    BY <1>2 DEF AddTodo
  <2> HIDE DEF new
  <2>3. todos[k] = NULL /\ todos'[k] = new /\ \A l \in TodoKeys \ {k} : todos'[l] = todos[l]
    BY <1>1, <2>1 DEF TodosInv
  <2> QED
    BY <1>1, <2>2, <2>3 DEF OnlyTheirs, Theirs
<1>3. ASSUME NEW p \in Paths, NEW k \in TodoKeys, NEW status, NEW rank,
             UpdateTodo(p, k, status, rank)
      PROVE  Caller(p) # NULL /\ OnlyTheirs(Caller(p))
  <2>1. Caller(p) # NULL /\ todos[k] # NULL /\ todos[k].owner = Caller(p)
    BY <1>3 DEF UpdateTodo, TodosOf
  <2>2. /\ todos'[k].owner = Caller(p)
        /\ \A l \in TodoKeys \ {k} : todos'[l] = todos[l]
    BY <1>1, <1>3, <2>1 DEF UpdateTodo, TodosInv
  <2> QED
    BY <1>1, <2>1, <2>2 DEF OnlyTheirs, Theirs
<1>4. Called \subseteq Paths
  BY CalledArePaths DEF IInv
<1> QED
  BY <1>2, <1>3, <1>4 DEF TodoStep

LEMMA TimelineStepTheirs ==
    ASSUME IInv, TimelineStep
    PROVE  \E p \in Paths : Caller(p) # NULL /\ OnlyTheirs(Caller(p))
<1>1. TimelineInv /\ TimelineTypes /\ todos' = todos
  BY DEF IInv, TimelineStep, TimelineInv
<1>2. \A a : \A k \in TodoKeys : Theirs(todos[k], todos'[k], a)
  BY <1>1 DEF Theirs
<1>3. ASSUME NEW p \in Paths, LogMemory(p)
      PROVE  Caller(p) # NULL /\ OnlyTheirs(Caller(p))
  <2>1. \A b \in BlockerKeys : Theirs(blockers[b], blockers'[b], Caller(p))
    BY <1>3 DEF LogMemory, Theirs
  <2>2. \A n \in NoteKeys : Theirs(notes[n], notes'[n], Caller(p))
    BY <1>1, <1>3, AppendIsTheirs DEF LogMemory
  <2> QED
    BY <1>2, <1>3, <2>1, <2>2 DEF LogMemory, OnlyTheirs
<1>4. ASSUME NEW p \in Paths, NEW key, OpenBlocker(p, key)
      PROVE  Caller(p) # NULL /\ OnlyTheirs(Caller(p))
  <2> DEFINE row == [owner |-> Caller(p), external |-> key, status |-> "active",
                     escalated |-> FALSE, resolved |-> FALSE]
  <2>1. PICK b \in blockerPlaces : /\ blockers' = [blockers EXCEPT ![b] = row]
                                   /\ AppendNote(Caller(p), b, "opened")
    BY <1>4 DEF OpenBlocker
  <2>2. row.owner = Caller(p) /\ Caller(p) # NULL
    BY <1>4 DEF OpenBlocker
  <2> HIDE DEF row
  <2>3. blockers[b] = NULL /\ blockers'[b] = row
        /\ \A c \in BlockerKeys \ {b} : blockers'[c] = blockers[c]
    BY <1>1, <2>1 DEF TimelineInv, TimelineTypes, BlockersInv
  <2>4. \A c \in BlockerKeys : Theirs(blockers[c], blockers'[c], Caller(p))
    BY <2>2, <2>3 DEF Theirs
  <2>5. \A n \in NoteKeys : Theirs(notes[n], notes'[n], Caller(p))
    BY <1>1, <2>1, AppendIsTheirs
  <2> QED
    BY <1>2, <2>2, <2>4, <2>5 DEF OnlyTheirs
<1>5. ASSUME NEW p \in Paths, NEW b \in BlockerKeys, EscalateBlocker(p, b) \/ ResolveBlocker(p, b)
      PROVE  Caller(p) # NULL /\ OnlyTheirs(Caller(p))
  <2>1. Caller(p) # NULL /\ blockers[b] # NULL /\ blockers[b].owner = Caller(p)
    BY <1>5 DEF EscalateBlocker, ResolveBlocker, BlockersOf
  <2>2. blockers[b] \in Blocker
    BY <1>1, <2>1, BlockerFacts
  <2>3. /\ blockers'[b].owner = Caller(p)
        /\ \A c \in BlockerKeys \ {b} : blockers'[c] = blockers[c]
    BY <1>1, <1>5, <2>1, <2>2 DEF EscalateBlocker, ResolveBlocker, TimelineTypes, Blocker
  <2>4. \A c \in BlockerKeys : Theirs(blockers[c], blockers'[c], Caller(p))
    BY <2>1, <2>3 DEF Theirs
  <2>5. \A n \in NoteKeys : Theirs(notes[n], notes'[n], Caller(p))
    BY <1>1, <1>5, AppendIsTheirs DEF EscalateBlocker, ResolveBlocker
  <2> QED
    BY <1>2, <2>1, <2>4, <2>5 DEF OnlyTheirs
<1>6. ASSUME NEW p \in Paths, NEW S \in SUBSET NoteKeys,
             EraseNotes(p, S) \/ \E deleted \in BOOLEAN : MarkNotes(p, S, deleted)
      PROVE  Caller(p) # NULL /\ OnlyTheirs(Caller(p))
  <2>1. Caller(p) # NULL /\ blockers' = blockers
    BY <1>6 DEF EraseNotes, MarkNotes
  <2>2. ASSUME NEW n \in NoteKeys
        PROVE  Theirs(notes[n], notes'[n], Caller(p))
    <3>1. CASE EraseNotes(p, S)
      BY <3>1 DEF EraseNotes, NotesOf, Theirs
    <3>2. ASSUME NEW deleted \in BOOLEAN, MarkNotes(p, S, deleted)
          PROVE  Theirs(notes[n], notes'[n], Caller(p))
      <4>1. CASE n \in S \cap NotesOf(Caller(p))
        <5>1. notes[n] \in Note /\ notes[n].owner = Caller(p)
          BY <1>1, <4>1, NoteFacts DEF NotesOf
        <5>2. notes'[n] = [notes[n] EXCEPT !.deleted = deleted]
          BY <3>2, <4>1 DEF MarkNotes
        <5>3. notes'[n].owner = Caller(p)
          BY <5>1, <5>2 DEF Note
        <5> QED
          BY <5>1, <5>3 DEF Theirs
      <4>2. CASE n \notin S \cap NotesOf(Caller(p))
        BY <3>2, <4>2 DEF MarkNotes, Theirs
      <4> QED
        BY <4>1, <4>2
    <3> QED
      BY <1>6, <3>1, <3>2
  <2>3. \A b \in BlockerKeys : Theirs(blockers[b], blockers'[b], Caller(p))
    BY <2>1 DEF Theirs
  <2> QED
    BY <1>2, <2>1, <2>2, <2>3 DEF OnlyTheirs
<1>7. Called \subseteq Paths
  BY CalledArePaths DEF IInv
<1> QED
  BY <1>3, <1>4, <1>5, <1>6, <1>7 DEF TimelineStep, WrittenNotes

LEMMA PurgeTheirs ==
    ASSUME NEW p \in Paths, Purge(p)
    PROVE  OnlyTheirs(aliases[p])
  BY DEF Purge, PurgeTodos, PurgeTimeline, TodosOf, BlockersOf, NotesOf, OnlyTheirs, Theirs

\* No call touches what a soft-deleted agent has, as long as it is soft-deleted: a
\* caller is active, and whom a hard purge takes is gone.
THEOREM WorkIsFrozen == Spec => PurgedWorkIsFrozen
<1> DEFINE A == \A a \in Ids : Exists(a) /\ ~ Active(a) /\ Exists(a)' /\ ~ Active(a)' =>
                   /\ TodosOf(a)' = TodosOf(a) /\ \A k \in TodosOf(a) : todos'[k] = todos[k]
                   /\ BlockersOf(a)' = BlockersOf(a) /\ \A b \in BlockersOf(a) : blockers'[b] = blockers[b]
                   /\ NotesOf(a)' = NotesOf(a) /\ \A n \in NotesOf(a) : notes'[n] = notes[n]
<1>1. ASSUME IInv, [Next]_vars PROVE A
  <2> SUFFICES ASSUME NEW a \in Ids, Exists(a), ~ Active(a), Exists(a)', ~ Active(a)'
               PROVE  /\ TodosOf(a)' = TodosOf(a) /\ \A k \in TodosOf(a) : todos'[k] = todos[k]
                      /\ BlockersOf(a)' = BlockersOf(a)
                      /\ \A b \in BlockersOf(a) : blockers'[b] = blockers[b]
                      /\ NotesOf(a)' = NotesOf(a) /\ \A n \in NotesOf(a) : notes'[n] = notes[n]
    OBVIOUS
  <2>1. AgentsTypeOK /\ IdentitiesHold
    BY <1>1 DEF IInv
  <2>2. ASSUME NEW p \in Paths, Caller(p) # NULL, OnlyTheirs(Caller(p))
        PROVE  \E c : c # a /\ OnlyTheirs(c)
    BY <2>1, <2>2, CallerFacts
  <2>3. ASSUME NEW p \in Paths, Purge(p)
        PROVE  \E c : c # a /\ OnlyTheirs(c)
    <3>1. aliases[p] # a
      BY <2>1, <2>3, WhoExists DEF Purge
    <3> QED
      BY <2>3, <3>1, PurgeTheirs
  <2>4. ASSUME todos' = todos, blockers' = blockers, notes' = notes
        PROVE  OnlyTheirs(NULL)
    BY <2>4 DEF OnlyTheirs, Theirs
  <2>5. \E c : c # a /\ OnlyTheirs(c)
    <3>1. CASE TodoStep \/ TimelineStep
      BY <1>1, <2>2, <3>1, TodoStepTheirs, TimelineStepTheirs
    <3>2. CASE \E p \in Paths : Purge(p)
      BY <2>3, <3>2
    <3>3. CASE \/ Identity \/ UNCHANGED vars \/ \E p \in Paths : List(p)
               \/ \E p \in Paths, table \in Tables, ranked \in BOOLEAN :
                     \E filter \in FiltersOf(table) : Open(p, table, filter, ranked)
      <4>1. todos' = todos /\ blockers' = blockers /\ notes' = notes /\ NULL # a
        BY <3>3, AgentsAssumption DEF Identity, List, Open, vars
      <4> QED
        BY <2>4, <4>1
    <3> QED
      BY <1>1, <2>1, CalledArePaths, <3>1, <3>2, <3>3 DEF Next
  <2>6. PICK c : c # a /\ OnlyTheirs(c)
    BY <2>5
  <2>7. /\ TodosOf(a)' = TodosOf(a) /\ \A k \in TodosOf(a) : todos'[k] = todos[k]
    BY <2>6 DEF OnlyTheirs, Theirs, TodosOf
  <2>8. /\ BlockersOf(a)' = BlockersOf(a) /\ \A b \in BlockersOf(a) : blockers'[b] = blockers[b]
    BY <2>6 DEF OnlyTheirs, Theirs, BlockersOf
  <2>9. /\ NotesOf(a)' = NotesOf(a) /\ \A n \in NotesOf(a) : notes'[n] = notes[n]
    BY <2>6 DEF OnlyTheirs, Theirs, NotesOf
  <2> QED
    BY <2>7, <2>8, <2>9
<1>2. IInv /\ [Next]_vars => [A]_vars
  BY <1>1
<1> QED
  BY <1>2, WorkInductive, PTL DEF Spec, PurgedWorkIsFrozen
=============================================================================
