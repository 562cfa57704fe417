------------------------------- MODULE Inbox -------------------------------
(***************************************************************************)
(* The cross-agent inbox (tools/inbox.py) over the identities of Agents,   *)
(* with the purges' effect on it, and one session that reads an inbox page *)
(* by page while everything else goes on between two pages.                *)
(*                                                                         *)
(* A message's key is its place in the order (sent_at, id).  A new message *)
(* may get any free place: clocks step back, and ULIDs of one moment are   *)
(* random.  Subjects, bodies and priorities are left out.                  *)
(***************************************************************************)
EXTENDS Agents, Keyset

CONSTANTS LastKey,  \* bound: how many messages are ever sent
          Limit     \* the page size of inbox_check

Keys == 1 .. LastKey

ASSUME InboxAssumption ==
    /\ LastKey \in Nat /\ Limit \in Nat \ {0}
    /\ NULL \notin Keys
    /\ NULL \notin [from : Ids, to : Ids, read : BOOLEAN, acked : BOOLEAN]
    /\ NULL \notin [from : Ids, to : Ids]

VARIABLES inbox,    \* the row of each message
          sent,     \* the keys messages have had
          reader,   \* the session that reads: its agent and include_read, and what is due
          reading   \* how far it is

vars == <<identity, inbox, sent, reader, reading>>

Message == [from : Ids, to : Ids, read : BOOLEAN, acked : BOOLEAN]

\* "due" is history: the messages listed ever since the session began to read.
NoReader == [of |-> NULL, all |-> FALSE, due |-> {}]

Init == /\ AgentsInit
        /\ inbox = [k \in Keys |-> NULL] /\ sent = {}
        /\ reader = NoReader /\ reading = Unstarted

\* (i.from_agent_id IS NULL OR sender.deleted_at IS NULL): no sender is NULL.
Shown(k) == Active(inbox[k].from)
Of(a) == {k \in Keys : inbox[k] # NULL /\ inbox[k].to = a}

\* What inbox_check lists, what inbox_summary and what agent_describe count.
Listed(a, all) == {k \in Of(a) : Shown(k) /\ ~ inbox[k].acked /\ (all \/ ~ inbox[k].read)}
Unread(a) == {k \in Of(a) : Shown(k) /\ ~ inbox[k].acked /\ ~ inbox[k].read}
DescribedUnread(a) == {k \in Of(a) : Shown(k) /\ ~ inbox[k].read}

\* Between two pages: what is still listed stays due.
Waiting == /\ \E a \in {reader.of}, all \in {reader.all} :
                reader' = [reader EXCEPT !.due = @ \cap Listed(a, all)']
           /\ UNCHANGED reading
-----------------------------------------------------------------------------
Named(n) == {a \in Ids : Active(a) /\ agents[a].name = n}

\* Mutant of Recipients: a soft-deleted agent can still be addressed by its path.
RecipientsAway(to) == IF to \in Paths THEN (IF to \in directories THEN {ResolveAny(to)} ELSE {}) \ {NULL}
                      ELSE IF Cardinality(Named(to)) = 1 THEN Named(to) ELSE {}

\* _resolve_recipient: a path must be a directory's, and is no agent's name; a name
\* must be unique.
Recipients(to) == IF to \in Paths THEN {Caller(to)} \ {NULL}
                  ELSE IF Cardinality(Named(to)) = 1 THEN Named(to) ELSE {}

Send(p, to) ==
    /\ Caller(p) # NULL
    /\ \E r \in Recipients(to), k \in Keys \ sent :
         /\ sent' = sent \cup {k}
         /\ inbox' = [inbox EXCEPT ![k] = [from |-> Caller(p), to |-> r,
                                           read |-> FALSE, acked |-> FALSE]]
    /\ UNCHANGED identity
    /\ Waiting

\* Mutants of Acked: the UPDATE does not look at the sender, or leaves read_at.
AckedOfAnySender(a, S, status) ==
    [k \in Keys |-> IF k \in S \cap Of(a)
                    THEN [inbox[k] EXCEPT !.read = TRUE, !.acked = @ \/ status = "acked"]
                    ELSE inbox[k]]
AckedUnread(a, S, status) ==
    [k \in Keys |-> IF k \in S \cap Of(a) /\ Shown(k)
                    THEN [inbox[k] EXCEPT !.read = @ \/ status = "read",
                                          !.acked = @ \/ status = "acked"]
                    ELSE inbox[k]]

\* The UPDATEs of inbox_ack; acked coalesces read_at.
Acked(a, S, status) ==
    [k \in Keys |-> IF k \in S \cap Of(a) /\ Shown(k)
                    THEN [inbox[k] EXCEPT !.read = TRUE, !.acked = @ \/ status = "acked"]
                    ELSE inbox[k]]

Ack(p, S, status) ==
    /\ Caller(p) # NULL
    /\ inbox' = Acked(Caller(p), S, status)
    /\ UNCHANGED <<identity, sent>>
    /\ Waiting

\* Mutant of Rest: only what the purged agent received is deleted.
RestOfReceived(a) == [k \in Keys |-> IF inbox[k] # NULL /\ inbox[k].to = a
                                     THEN NULL ELSE inbox[k]]

\* The hard purge: messages in either direction.
Rest(a) == [k \in Keys |-> IF inbox[k] # NULL /\ a \in {inbox[k].from, inbox[k].to}
                           THEN NULL ELSE inbox[k]]

Purge(p) == /\ HardPurge(p)
            /\ inbox' = Rest(aliases[p])
            /\ UNCHANGED sent
            /\ Waiting

Identity == IdentityStep /\ UNCHANGED <<inbox, sent>> /\ Waiting
-----------------------------------------------------------------------------
(* inbox_check, page by page.                                              *)

\* (sent_at, id)
KeyOf == [k \in Keys |-> <<k>>]

\* A session begins to read its inbox.
Open(p, all) ==
    /\ Caller(p) # NULL /\ reader = NoReader
    /\ reader' = [of |-> Caller(p), all |-> all, due |-> Listed(Caller(p), all)]
    /\ reading' = Unstarted
    /\ UNCHANGED <<identity, inbox, sent>>

Check(p) == /\ reading.more
            /\ reader.of # NULL /\ Caller(p) = reader.of
            /\ reading' = Fetch(reading, Listed(reader.of, reader.all), KeyOf, Limit)
            /\ UNCHANGED <<identity, inbox, sent, reader>>
-----------------------------------------------------------------------------
Next == \/ Identity
        \/ \E p \in Called : \/ \E to \in Called \cup Names : Send(p, to)
                             \/ \E S \in SUBSET Keys, status \in {"read", "acked"} : Ack(p, S, status)
                             \/ Purge(p) \/ Check(p)
                             \/ \E all \in BOOLEAN : Open(p, all)

Spec == Init /\ [][Next]_vars
-----------------------------------------------------------------------------
(* What must hold.                                                         *)

TypeOK == /\ AgentsTypeOK
          /\ inbox \in [Keys -> Message \cup {NULL}]
          /\ sent \subseteq Keys
          /\ reader \in [of : Ids \cup {NULL}, all : BOOLEAN, due : SUBSET Keys]
          /\ reading \in [more : BOOLEAN, cursor : {<<>>} \cup {KeyOf[k] : k \in Keys},
                          got : SUBSET Keys, again : BOOLEAN]

\* Both ends of every message exist, however agents are purged and come back: a
\* new agent at the path of an old one finds nothing of the old one's mail.
NoOrphans == \A k \in Keys : inbox[k] # NULL => Exists(inbox[k].from) /\ Exists(inbox[k].to)

\* agent_describe counts unread messages without looking at acked_at; it agrees
\* with inbox_summary and inbox_check because acking reads.
CountsAgree == \A a \in Ids : /\ DescribedUnread(a) = Unread(a)
                              /\ Unread(a) = Listed(a, FALSE)

\* "Soft-purged rows remain intact until an explicit hard purge" (agent-purge-lifecycle.md):
\* nobody sends to, sends from, reads or acknowledges across a soft-deleted agent,
\* so that agent_unpurge restores the mail of both sides as it was.
Deleted(a) == Exists(a) /\ ~ Active(a)
Across(k, a) == inbox[k] # NULL /\ a \in {inbox[k].from, inbox[k].to}
PurgedMailIsFrozen ==
    [][\A a \in Ids, k \in Keys :
         Deleted(a) /\ Deleted(a)' /\ (Across(k, a) \/ Across(k, a)') /\ inbox'[k] # inbox[k]
             => \E b \in Ids : Across(k, b) /\ agents'[b] = NULL]_vars

\* What a mailbox is made of: the messages nobody has read, who is here, whom a
\* session at each path speaks for, and where there are directories.
Unopened == [k \in Keys |-> IF inbox[k] # NULL /\ ~ inbox[k].read
                            THEN [from |-> inbox[k].from, to |-> inbox[k].to] ELSE NULL]
Standing == [a \in Ids |-> IF Active(a) THEN "here" ELSE IF Exists(a) THEN "away"
                           ELSE IF a \in minted THEN "gone" ELSE "none"]
Boxes == [p \in Paths |-> Caller(Canonical(p))]
Places == {p \in Paths : Canonical(p) \in directories}

Abstract == INSTANCE Mailbox WITH Messages <- Keys, mail <- Unopened, posted <- sent,
                                  status <- Standing, boxes <- Boxes, places <- Places

\* To whoever waits for mail the inbox is a mailbox, whatever goes on with names,
\* aliases, directories, stamps and pages: unread messages wait, and nobody but
\* their own agents and the purges makes one disappear or come to another box.
ImplementsMailbox == Abstract!MailboxSpec

\* The pages of one reading repeat nothing, and when there are no more they have
\* shown every message that was listed all the while, whatever came, was acked,
\* was hidden or came back between two pages.
PagesAreExact == /\ ~ reading.again
                 /\ ~ reading.more => reader.due \subseteq reading.got
=============================================================================
