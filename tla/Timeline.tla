------------------------------ MODULE Timeline ------------------------------
(***************************************************************************)
(* An agent's timeline: its notes (tools/memory.py) and its blockers       *)
(* (tools/blockers.py), whose every event writes a note in the same        *)
(* transaction.  Numbers are places in the order (timestamp, id), as in    *)
(* Todos.  Categories, topics and texts are left out.                      *)
(***************************************************************************)
EXTENDS Agents, FiniteSets

CONSTANTS LastBlocker, LastNote,  \* bounds: how many of each are ever written
          ExternalKeys            \* keys a blocker may be given, once per agent

BlockerKeys == 1 .. LastBlocker
NoteKeys == 1 .. LastNote
Events == {"opened", "escalated", "resolved"}

Blocker == [owner : Ids, external : ExternalKeys \cup {NULL},
            status : {"active", "escalated", "resolved"},
            escalated : BOOLEAN, resolved : BOOLEAN]

\* about, event: the blocker and the event a note was written for, if any.
Note == [owner : Ids, about : BlockerKeys \cup {NULL}, event : Events \cup {NULL},
         deleted : BOOLEAN]

ASSUME TimelineAssumption == /\ LastBlocker \in Nat /\ LastNote \in Nat
                             /\ NULL \notin Blocker \cup Note \cup ExternalKeys
                             /\ NULL \notin BlockerKeys /\ NULL \notin Events

VARIABLES blockers,       \* the row of each blocker
          blockerPlaces,  \* the places in the order no blocker has had
          notes,          \* the row of each note
          notePlaces,
          erased          \* history: the events whose notes were deleted for good

TimelineInit == /\ blockers = [b \in BlockerKeys |-> NULL]
                /\ blockerPlaces \in SUBSET BlockerKeys
                /\ notes = [n \in NoteKeys |-> NULL]
                /\ notePlaces \in SUBSET NoteKeys
                /\ erased = {}

BlockersOf(a) == {b \in BlockerKeys : blockers[b] # NULL /\ blockers[b].owner = a}
NotesOf(a) == {n \in NoteKeys : notes[n] # NULL /\ notes[n].owner = a}

\* append_note, the one writer of notes.
AppendNote(a, about, event) ==
    \E n \in notePlaces :
      /\ notes' = [notes EXCEPT ![n] = [owner |-> a, about |-> about, event |-> event,
                                        deleted |-> FALSE]]
      /\ notePlaces' = notePlaces \ {n}

LogMemory(p) == /\ Caller(p) # NULL
                /\ AppendNote(Caller(p), NULL, NULL)
                /\ UNCHANGED <<blockers, blockerPlaces, erased>>

\* The key of a resolved blocker is still taken.
OpenBlocker(p, key) ==
    /\ Caller(p) # NULL
    /\ key = NULL \/ \A b \in BlockersOf(Caller(p)) : blockers[b].external # key
    /\ \E b \in blockerPlaces :
         /\ blockers' = [blockers EXCEPT ![b] =
                           [owner |-> Caller(p), external |-> key, status |-> "active",
                            escalated |-> FALSE, resolved |-> FALSE]]
         /\ blockerPlaces' = blockerPlaces \ {b}
         /\ AppendNote(Caller(p), b, "opened")
    /\ UNCHANGED erased

\* Mutant of EscalateBlocker: any blocker that is not resolved is escalated.
EscalateAgain(p, b) ==
    /\ Caller(p) # NULL
    /\ b \in BlockersOf(Caller(p)) /\ blockers[b].status # "resolved"
    /\ blockers' = [blockers EXCEPT ![b].status = "escalated", ![b].escalated = TRUE]
    /\ AppendNote(Caller(p), b, "escalated")
    /\ UNCHANGED <<blockerPlaces, erased>>

EscalateBlocker(p, b) ==
    /\ Caller(p) # NULL
    /\ b \in BlockersOf(Caller(p)) /\ blockers[b].status = "active"
    /\ blockers' = [blockers EXCEPT ![b].status = "escalated", ![b].escalated = TRUE]
    /\ AppendNote(Caller(p), b, "escalated")
    /\ UNCHANGED <<blockerPlaces, erased>>

ResolveBlocker(p, b) ==
    /\ Caller(p) # NULL
    /\ b \in BlockersOf(Caller(p)) /\ blockers[b].status # "resolved"
    /\ blockers' = [blockers EXCEPT ![b].status = "resolved", ![b].resolved = TRUE]
    /\ AppendNote(Caller(p), b, "resolved")
    /\ UNCHANGED <<blockerPlaces, erased>>

\* delete_notes, soft, and restore_notes: the batch's ids that are the agent's own.
MarkNotes(p, S, deleted) ==
    /\ Caller(p) # NULL
    /\ notes' = [n \in NoteKeys |-> IF n \in S \cap NotesOf(Caller(p))
                                    THEN [notes[n] EXCEPT !.deleted = deleted] ELSE notes[n]]
    /\ UNCHANGED <<blockers, blockerPlaces, notePlaces, erased>>

\* Mutant of EraseNotes: the DELETE does not look at the agent.
EraseAnyNotes(p, S) ==
    /\ Caller(p) # NULL
    /\ \E found \in {S \cap UNION {NotesOf(a) : a \in Ids}} :
         /\ notes' = [n \in NoteKeys |-> IF n \in found THEN NULL ELSE notes[n]]
         /\ erased' = erased \cup {<<notes[n].about, notes[n].event>> : n \in found}
    /\ UNCHANGED <<blockers, blockerPlaces, notePlaces>>

\* delete_notes, hard.
EraseNotes(p, S) ==
    /\ Caller(p) # NULL
    /\ \E own \in {S \cap NotesOf(Caller(p))} :
         /\ notes' = [n \in NoteKeys |-> IF n \in own THEN NULL ELSE notes[n]]
         /\ erased' = erased \cup {<<notes[n].about, notes[n].event>> : n \in own}
    /\ UNCHANGED <<blockers, blockerPlaces, notePlaces>>

\* Mutant of PurgeTimeline: the blockers' notes are taken for the blockers' own.
PurgeLoggedNotes(a) ==
    /\ notes' = [n \in NoteKeys |-> IF n \in NotesOf(a) /\ notes[n].about = NULL
                                    THEN NULL ELSE notes[n]]
    /\ blockers' = [b \in BlockerKeys |-> IF b \in BlockersOf(a) THEN NULL ELSE blockers[b]]
    /\ UNCHANGED <<blockerPlaces, notePlaces, erased>>

\* A hard purge deletes the agent's notes and blockers.
PurgeTimeline(a) ==
    /\ notes' = [n \in NoteKeys |-> IF n \in NotesOf(a) THEN NULL ELSE notes[n]]
    /\ blockers' = [b \in BlockerKeys |-> IF b \in BlockersOf(a) THEN NULL ELSE blockers[b]]
    /\ UNCHANGED <<blockerPlaces, notePlaces, erased>>
=============================================================================
