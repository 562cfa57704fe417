------------------------------- MODULE Todos --------------------------------
(***************************************************************************)
(* Long-running todos (tools/todos.py).  A todo's number is its place in   *)
(* the order (created_at, id); a new one may get any free place: clocks    *)
(* step back, and ULIDs of one moment are random.  Titles, descriptions,   *)
(* due dates and metadata are left out.                                    *)
(***************************************************************************)
EXTENDS Agents

CONSTANTS LastTodo,  \* bound: how many todos are ever added
          Statuses,  \* some of the statuses, "pending" and "done" among them
          Ranks      \* priorities, as _PRIORITY_RANK numbers them

TodoKeys == 1 .. LastTodo

Todo == [owner : Ids, rank : Ranks, status : Statuses, completed : BOOLEAN]

ASSUME TodosAssumption == /\ LastTodo \in Nat /\ Ranks \subseteq Nat
                          /\ {"pending", "done"} \subseteq Statuses
                          /\ NULL \notin Todo \cup Ranks \cup Statuses

VARIABLES todos,      \* the row of each todo
          todoPlaces  \* the places in the order no todo has had

TodosInit == /\ todos = [k \in TodoKeys |-> NULL]
             /\ todoPlaces \in SUBSET TodoKeys

TodosOf(a) == {k \in TodoKeys : todos[k] # NULL /\ todos[k].owner = a}

AddTodo(p, rank) ==
    /\ Caller(p) # NULL
    /\ \E k \in todoPlaces :
         /\ todos' = [todos EXCEPT ![k] = [owner |-> Caller(p), rank |-> rank,
                                           status |-> "pending", completed |-> FALSE]]
         /\ todoPlaces' = todoPlaces \ {k}

\* Mutant of Stamped: completed_at is never cleared.
StampedForGood(todo, status) == IF status = NULL THEN todo.completed
                                ELSE todo.completed \/ status = "done"

\* done stamps completed_at, any other status clears it, no status leaves it.
Stamped(todo, status) == IF status = NULL THEN todo.completed ELSE status = "done"

\* Mutant of UpdateTodo: what is not supplied is overwritten.
OverwriteTodo(p, k, status, rank) ==
    /\ Caller(p) # NULL
    /\ k \in TodosOf(Caller(p))
    /\ todos' = [todos EXCEPT ![k] = [owner |-> @.owner, rank |-> rank, status |-> status,
                                      completed |-> Stamped(@, status)]]
    /\ UNCHANGED todoPlaces

\* What is not supplied (here NULL) stays as it is.
UpdateTodo(p, k, status, rank) ==
    /\ Caller(p) # NULL
    /\ k \in TodosOf(Caller(p))
    /\ todos' = [todos EXCEPT ![k] = [owner |-> @.owner,
                                      rank |-> IF rank = NULL THEN @.rank ELSE rank,
                                      status |-> IF status = NULL THEN @.status ELSE status,
                                      completed |-> Stamped(@, status)]]
    /\ UNCHANGED todoPlaces

\* A hard purge deletes the agent's todos.
PurgeTodos(a) == /\ todos' = [k \in TodoKeys |-> IF k \in TodosOf(a) THEN NULL ELSE todos[k]]
                 /\ UNCHANGED todoPlaces
=============================================================================
