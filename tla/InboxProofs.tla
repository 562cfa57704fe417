---------------------------- MODULE InboxProofs -----------------------------
(***************************************************************************)
(* Proofs about the inbox, for any agents, paths and names, any number of  *)
(* messages and any page size.                                             *)
(***************************************************************************)
EXTENDS Inbox, CommonProofs

Acking == \A k \in Keys : inbox[k] # NULL /\ inbox[k].acked => inbox[k].read
SentOnce == \A k \in Keys : inbox[k] # NULL => k \in sent
DueIsListed == reader.due \subseteq Listed(reader.of, reader.all)

KeyTuples == {<<k>> : k \in Keys}

\* Every key is a row's, whether or not it has one at the moment.
ReadingInv == Sound(reading, reader.due, Keys, KeyOf, KeyTuples)

IInv == /\ TypeOK /\ IdentitiesHold /\ NoOrphans
        /\ Acking /\ SentOnce /\ DueIsListed /\ ReadingInv

-----------------------------------------------------------------------------
(* Rows and pages.                                                         *)

LEMMA MessageFacts ==
    ASSUME TypeOK, NEW k \in Keys, inbox[k] # NULL
    PROVE  /\ inbox[k] \in Message
           /\ inbox[k].from \in Ids /\ inbox[k].to \in Ids
           /\ inbox[k].read \in BOOLEAN /\ inbox[k].acked \in BOOLEAN
  BY DEF TypeOK, Message

LEMMA MessageIsNotNull == NULL \notin Message
  BY InboxAssumption DEF Message

LEMMA KeysOrdered == Ordered(KeyTuples)
<1>1. Keys \subseteq Int
  BY InboxAssumption DEF Keys
<1> QED
  BY <1>1, OnesOrdered DEF KeyTuples

LEMMA KeysKeyed == Keyed(Keys, KeyOf, KeyTuples)
<1>1. \A k, l \in Keys : KeyOf[k] = <<k>> /\ (KeyOf[k] = KeyOf[l] => k = l)
  BY DEF KeyOf
<1> QED
  BY <1>1 DEF Keyed, KeyTuples

LEMMA ListedFacts ==
    ASSUME NEW a, NEW all
    PROVE  /\ Listed(a, all) \subseteq Keys
           /\ IsFiniteSet(Listed(a, all))
<1>1. Listed(a, all) \in SUBSET Keys
  BY DEF Listed, Of
<1>2. IsFiniteSet(Keys)
  BY FS_Interval, InboxAssumption DEF Keys
<1> QED
  BY <1>1, <1>2, FS_Subset

-----------------------------------------------------------------------------
(* The parts of the invariant that no call but a page touches.             *)

LEMMA WaitingKeeps ==
    ASSUME TypeOK, ReadingInv, Waiting
    PROVE  /\ reader' \in [of : Ids \cup {NULL}, all : BOOLEAN, due : SUBSET Keys]
           /\ reading' = reading
           /\ DueIsListed' /\ ReadingInv'
<1>1. reading' = reading
  BY DEF Waiting
<1>2. PICK a, all : /\ a = reader.of /\ all = reader.all
                    /\ reader' = [reader EXCEPT !.due = @ \cap Listed(a, all)']
  BY DEF Waiting
<1>3. /\ reader'.of = a /\ reader'.all = all
      /\ reader'.due = reader.due \cap Listed(a, all)'
      /\ reader' \in [of : Ids \cup {NULL}, all : BOOLEAN, due : SUBSET Keys]
  BY <1>2 DEF TypeOK
<1>4. DueIsListed'
  BY <1>3 DEF DueIsListed, Listed, Of, Shown, Active, Exists
<1>5. ReadingInv'
  BY <1>1, <1>3 DEF ReadingInv, Sound, KeyOf, KeyTuples
<1> QED
  BY <1>1, <1>3, <1>4, <1>5

\* What holds of the messages alone: a call that leaves the identities, the keys
\* sent and the reading's part in order keeps the whole invariant.
LEMMA MessagesKept ==
    ASSUME IInv, AgentsTypeOK', IdentitiesHold', Waiting,
           inbox' \in [Keys -> Message \cup {NULL}], sent' \subseteq Keys,
           \A k \in Keys : inbox'[k] # NULL =>
              /\ agents'[inbox'[k].from] # NULL /\ agents'[inbox'[k].to] # NULL
              /\ inbox'[k].acked => inbox'[k].read
              /\ k \in sent'
    PROVE  IInv'
<1>1. /\ reader' \in [of : Ids \cup {NULL}, all : BOOLEAN, due : SUBSET Keys]
      /\ reading' = reading /\ DueIsListed' /\ ReadingInv'
  BY WaitingKeeps DEF IInv
<1>2. TypeOK'
  BY <1>1 DEF IInv, TypeOK
<1>3. NoOrphans' /\ Acking' /\ SentOnce'
  BY DEF NoOrphans, Acking, SentOnce, Exists
<1> QED
  BY <1>1, <1>2, <1>3 DEF IInv

LEMMA RecipientFacts ==
    ASSUME TypeOK, IdentitiesHold, NEW to \in Paths \cup Names, NEW r \in Recipients(to)
    PROVE  r \in Ids /\ Active(r)
<1>1. CASE to \in Paths
  BY <1>1, CallerFacts DEF Recipients, TypeOK
<1>2. CASE to \notin Paths
  BY <1>2 DEF Recipients, Named
<1> QED
  BY <1>1, <1>2

LEMMA SendKeeps ==
    ASSUME IInv, NEW p \in Paths, NEW to \in Paths \cup Names, Send(p, to)
    PROVE  IInv'
<1>1. /\ AgentsTypeOK /\ TypeOK /\ IdentitiesHold /\ NoOrphans /\ Acking /\ SentOnce
  BY DEF IInv, TypeOK
<1>2. PICK r \in Recipients(to), k \in Keys \ sent :
         /\ sent' = sent \cup {k}
         /\ inbox' = [inbox EXCEPT ![k] = [from |-> Caller(p), to |-> r,
                                           read |-> FALSE, acked |-> FALSE]]
  BY DEF Send
<1>3. Caller(p) \in Ids /\ Active(Caller(p)) /\ r \in Ids /\ Active(r)
  BY <1>1, CallerFacts, RecipientFacts DEF Send
<1>4. agents' = agents /\ aliases' = aliases
      /\ minted' = minted /\ UNCHANGED <<directories, leads>> /\ Waiting
  BY DEF Send, identity, tables
<1>5. AgentsTypeOK' /\ IdentitiesHold'
  BY <1>1, <1>4, IdentityKept DEF IdentityMoves, identity, tables
<1> DEFINE new == [from |-> Caller(p), to |-> r, read |-> FALSE, acked |-> FALSE]
<1>6. /\ new \in Message /\ new.from = Caller(p) /\ new.to = r /\ new.acked = FALSE
  BY <1>3 DEF Message
<1> HIDE DEF new
<1>7. inbox' = [inbox EXCEPT ![k] = new] /\ inbox'[k] = new
      /\ \A l \in Keys \ {k} : inbox'[l] = inbox[l]
  BY <1>1, <1>2 DEF new, TypeOK
<1>8. inbox' \in [Keys -> Message \cup {NULL}] /\ sent' \subseteq Keys
  BY <1>1, <1>2, <1>6, <1>7 DEF TypeOK
<1>9. ASSUME NEW l \in Keys, inbox'[l] # NULL
      PROVE  /\ agents'[inbox'[l].from] # NULL /\ agents'[inbox'[l].to] # NULL
             /\ inbox'[l].acked => inbox'[l].read
             /\ l \in sent'
  <2>1. CASE l = k
    BY <2>1, <1>2, <1>3, <1>4, <1>6, <1>7 DEF Active, Exists
  <2>2. CASE l # k
    BY <2>2, <1>1, <1>2, <1>4, <1>7, <1>9 DEF NoOrphans, Acking, SentOnce, Exists
  <2> QED
    BY <2>1, <2>2
<1> QED
  BY <1>4, <1>5, <1>8, <1>9, MessagesKept

\* What inbox_ack may do to a row.
AckedRow(old, new, a) ==
    /\ old = NULL => new = NULL
    /\ old # NULL => /\ new \in Message
                     /\ new.from = old.from /\ new.to = old.to
                     /\ new # old => old.to = a /\ Active(old.from) /\ new.read = TRUE

LEMMA AckedFacts ==
    ASSUME TypeOK, NEW a, NEW S, NEW status, NEW k \in Keys
    PROVE  AckedRow(inbox[k], Acked(a, S, status)[k], a)
  BY MessageFacts DEF AckedRow, Acked, Of, Shown, Message

LEMMA AckKeeps ==
    ASSUME IInv, NEW p \in Paths, NEW S \in SUBSET Keys, NEW status \in {"read", "acked"},
           Ack(p, S, status)
    PROVE  IInv'
<1>1. /\ AgentsTypeOK /\ TypeOK /\ IdentitiesHold /\ NoOrphans /\ Acking /\ SentOnce
  BY DEF IInv, TypeOK
<1>2. inbox' = Acked(Caller(p), S, status) /\ sent' = sent /\ Waiting
      /\ agents' = agents /\ aliases' = aliases
      /\ minted' = minted /\ UNCHANGED <<directories, leads>>
  BY DEF Ack, identity, tables
<1>3. AgentsTypeOK' /\ IdentitiesHold'
  BY <1>1, <1>2, IdentityKept DEF IdentityMoves, identity, tables
<1>4. inbox' \in [Keys -> Message \cup {NULL}]
  <2>1. inbox' = [k \in Keys |-> inbox'[k]]
    BY <1>2 DEF Acked
  <2>2. \A k \in Keys : inbox'[k] \in Message \cup {NULL}
    BY <1>1, <1>2, AckedFacts DEF AckedRow
  <2> QED
    BY <2>1, <2>2
<1>5. ASSUME NEW k \in Keys, inbox'[k] # NULL
      PROVE  /\ agents'[inbox'[k].from] # NULL /\ agents'[inbox'[k].to] # NULL
             /\ inbox'[k].acked => inbox'[k].read
             /\ k \in sent'
  <2>1. /\ inbox[k] # NULL
        /\ inbox'[k].from = inbox[k].from /\ inbox'[k].to = inbox[k].to
        /\ inbox'[k] # inbox[k] => inbox'[k].read = TRUE
    <3>1. AckedRow(inbox[k], inbox'[k], Caller(p))
      BY <1>1, <1>2, AckedFacts
    <3> QED
      BY <1>5, <3>1 DEF AckedRow
  <2>2. inbox'[k].acked => inbox'[k].read
    BY <1>1, <2>1 DEF Acking
  <2> QED
    BY <1>1, <1>2, <2>1, <2>2 DEF NoOrphans, SentOnce, Exists
<1> QED
  BY <1>1, <1>2, <1>3, <1>4, <1>5, MessagesKept DEF TypeOK

LEMMA PurgeKeeps ==
    ASSUME IInv, NEW p \in Paths, Purge(p)
    PROVE  IInv'
<1>1. /\ AgentsTypeOK /\ TypeOK /\ IdentitiesHold /\ NoOrphans /\ Acking /\ SentOnce
  BY DEF IInv, TypeOK
<1>2. HardPurge(p) /\ inbox' = Rest(aliases[p]) /\ sent' = sent /\ Waiting
  BY DEF Purge
<1>3. AgentsTypeOK' /\ IdentitiesHold'
  BY <1>1, <1>2, IdentityKept DEF IdentityMoves
<1>4. \A a \in Ids : Exists(a) /\ a # aliases[p] => agents'[a] # NULL
  BY <1>1, <1>2, WhoExists DEF Exists
<1>5. \A k \in Keys : inbox'[k] # NULL => /\ inbox[k] # NULL /\ inbox'[k] = inbox[k]
                                          /\ aliases[p] \notin {inbox[k].from, inbox[k].to}
  BY <1>2 DEF Rest
<1>6. inbox' \in [Keys -> Message \cup {NULL}]
  BY <1>1, <1>2 DEF Rest, TypeOK
<1>7. ASSUME NEW k \in Keys, inbox'[k] # NULL
      PROVE  /\ agents'[inbox'[k].from] # NULL /\ agents'[inbox'[k].to] # NULL
             /\ inbox'[k].acked => inbox'[k].read
             /\ k \in sent'
  <2>1. inbox[k].from \in Ids /\ inbox[k].to \in Ids
    BY <1>1, <1>5, <1>7, MessageFacts
  <2> QED
    BY <1>1, <1>2, <1>4, <1>5, <1>7, <2>1 DEF NoOrphans, Acking, SentOnce
<1> QED
  BY <1>1, <1>2, <1>3, <1>6, <1>7, MessagesKept DEF TypeOK

LEMMA IdentityKeeps ==
    ASSUME IInv, Identity
    PROVE  IInv'
<1>1. /\ AgentsTypeOK /\ TypeOK /\ IdentitiesHold /\ NoOrphans /\ Acking /\ SentOnce
  BY DEF IInv, TypeOK
<1>2. IdentityStep /\ inbox' = inbox /\ sent' = sent /\ Waiting
  BY DEF Identity
<1>3. AgentsTypeOK' /\ IdentitiesHold'
  BY <1>1, <1>2, IdentityKept DEF IdentityMoves
<1>4. \A a \in Ids : Exists(a) => agents'[a] # NULL
  BY <1>1, <1>2, WhoExists DEF Exists
<1>5. ASSUME NEW k \in Keys, inbox'[k] # NULL
      PROVE  /\ agents'[inbox'[k].from] # NULL /\ agents'[inbox'[k].to] # NULL
             /\ inbox'[k].acked => inbox'[k].read
             /\ k \in sent'
  BY <1>1, <1>2, <1>4, <1>5, MessageFacts DEF NoOrphans, Acking, SentOnce
<1> QED
  BY <1>1, <1>2, <1>3, <1>5, MessagesKept DEF TypeOK

-----------------------------------------------------------------------------
(* Reading.                                                                *)

LEMMA OpenKeeps ==
    ASSUME IInv, NEW p \in Paths, NEW all \in BOOLEAN, Open(p, all)
    PROVE  IInv'
<1>1. /\ AgentsTypeOK /\ TypeOK /\ IdentitiesHold /\ NoOrphans /\ Acking /\ SentOnce
  BY DEF IInv, TypeOK
<1>2. /\ agents' = agents /\ aliases' = aliases
      /\ minted' = minted /\ UNCHANGED <<directories, leads>>
      /\ inbox' = inbox /\ sent' = sent
      /\ Caller(p) # NULL /\ reading' = Unstarted
  BY DEF Open, identity, tables
<1>3. PICK a \in Ids, due \in SUBSET Keys :
         /\ due = Listed(a, all)
         /\ reader' = [of |-> a, all |-> all, due |-> due]
  <2>1. Caller(p) \in Ids
    BY <1>1, <1>2, CallerFacts
  <2>2. Listed(Caller(p), all) \in SUBSET Keys
    BY ListedFacts
  <2> QED
    BY <2>1, <2>2 DEF Open
<1>4. AgentsTypeOK' /\ IdentitiesHold'
  BY <1>1, <1>2, IdentityKept DEF IdentityMoves, identity, tables
<1>5. TypeOK'
  BY <1>1, <1>2, <1>3, <1>4 DEF TypeOK, Unstarted
<1>6. NoOrphans' /\ Acking' /\ SentOnce'
  BY <1>1, <1>2 DEF NoOrphans, Acking, SentOnce, Exists
<1>7. DueIsListed'
  BY <1>2, <1>3 DEF DueIsListed, Listed, Of, Shown, Active, Exists
<1>8. ReadingInv'
  BY <1>2 DEF ReadingInv, Sound, Unstarted
<1> QED
  BY <1>4, <1>5, <1>6, <1>7, <1>8 DEF IInv

LEMMA CheckKeeps ==
    ASSUME IInv, NEW p \in Paths, Check(p)
    PROVE  IInv'
<1> DEFINE S == Listed(reader.of, reader.all)
<1>1. /\ AgentsTypeOK /\ TypeOK /\ IdentitiesHold /\ NoOrphans /\ Acking /\ SentOnce
      /\ DueIsListed /\ ReadingInv
  BY DEF IInv, TypeOK
<1>2. /\ agents' = agents /\ aliases' = aliases
      /\ minted' = minted /\ UNCHANGED <<directories, leads>>
      /\ inbox' = inbox /\ sent' = sent /\ reader' = reader
      /\ reading.more
  BY DEF Check, identity, tables
<1>3. PICK next : reading' = next /\ next = Fetch(reading, S, KeyOf, Limit)
  BY DEF Check
<1>4. S \in SUBSET Keys /\ IsFiniteSet(S) /\ reader.due \in SUBSET S
  BY <1>1, ListedFacts DEF DueIsListed
<1> HIDE DEF S
<1>5. /\ Keyed(Keys, KeyOf, KeyTuples) /\ Ordered(KeyTuples) /\ Limit \in Nat \ {0}
      /\ Sound(reading, reader.due, Keys, KeyOf, KeyTuples)
      /\ \A r \in S : KeyOf[r] = KeyOf[r]
  BY <1>1, KeysKeyed, KeysOrdered, InboxAssumption DEF ReadingInv
<1>6. Sound(next, reader.due, Keys, KeyOf, KeyTuples)
  BY <1>2, <1>3, <1>4, <1>5, PageKeepsSound
<1>7. Onward(next, reading, S)
  BY <1>2, <1>3, <1>4, <1>5, <1>6, PageKeepsSound
<1>8. AgentsTypeOK' /\ IdentitiesHold'
  BY <1>1, <1>2, IdentityKept DEF IdentityMoves, identity, tables
<1>9. ReadingInv'
  BY <1>2, <1>3, <1>6 DEF ReadingInv, KeyOf, KeyTuples
<1>10. TypeOK'
  <2>1. next.got \subseteq Keys /\ next.cursor \in KeyTuples \cup {<<>>}
    BY <1>1, <1>4, <1>6, <1>7 DEF TypeOK, Onward, Sound
  <2>2. {KeyOf[k] : k \in Keys} = KeyTuples
    BY DEF KeyOf, KeyTuples
  <2> QED
    BY <1>1, <1>2, <1>3, <1>7, <1>8, <2>1, <2>2 DEF TypeOK, Onward
<1>11. NoOrphans' /\ Acking' /\ SentOnce' /\ DueIsListed'
  BY <1>1, <1>2 DEF NoOrphans, Acking, SentOnce, DueIsListed, Listed, Of, Shown, Active, Exists
<1> QED
  BY <1>8, <1>9, <1>10, <1>11 DEF IInv

-----------------------------------------------------------------------------
(* The theorems.                                                           *)

LEMMA InboxStarts == Init => IInv
<1> SUFFICES ASSUME Init PROVE IInv
  OBVIOUS
<1>1. AgentsTypeOK /\ IdentitiesHold
  BY IdentityStarts DEF Init
<1>2. \A k \in Keys : inbox[k] = NULL
  BY DEF Init
<1>3. TypeOK
  BY <1>1 DEF Init, TypeOK, NoReader, Unstarted
<1>4. NoOrphans /\ Acking /\ SentOnce
  BY <1>2 DEF NoOrphans, Acking, SentOnce
<1>5. DueIsListed /\ ReadingInv
  BY DEF Init, NoReader, Unstarted, DueIsListed, ReadingInv, Sound
<1> QED
  BY <1>1, <1>3, <1>4, <1>5 DEF IInv

LEMMA StutterKeeps == IInv /\ UNCHANGED vars => IInv'
<1> SUFFICES ASSUME IInv, UNCHANGED vars PROVE IInv'
  OBVIOUS
<1>1. /\ agents' = agents /\ aliases' = aliases
      /\ minted' = minted /\ UNCHANGED <<directories, leads>>
      /\ inbox' = inbox /\ sent' = sent /\ reader' = reader /\ reading' = reading
  BY DEF vars, identity, tables
<1>2. AgentsTypeOK' /\ IdentitiesHold'
  BY <1>1, IdentityKept DEF IInv, TypeOK, IdentityMoves, identity, tables
<1>3. TypeOK' /\ NoOrphans' /\ Acking' /\ SentOnce' /\ DueIsListed' /\ ReadingInv'
  BY <1>1, <1>2 DEF IInv, TypeOK, NoOrphans, Acking, SentOnce, DueIsListed, ReadingInv,
                    Listed, Of, Shown, Active, Exists
<1> QED
  BY <1>2, <1>3 DEF IInv

LEMMA InboxStep == IInv /\ [Next]_vars => IInv'
<1> SUFFICES ASSUME IInv, [Next]_vars PROVE IInv'
  OBVIOUS
<1>1. CASE Identity
  BY <1>1, IdentityKeeps
<1>2. CASE \E p \in Paths, to \in Paths \cup Names : Send(p, to)
  BY <1>2, SendKeeps
<1>3. CASE \E p \in Paths, S \in SUBSET Keys, status \in {"read", "acked"} : Ack(p, S, status)
  BY <1>3, AckKeeps
<1>4. CASE \E p \in Paths : Purge(p)
  BY <1>4, PurgeKeeps
<1>5. CASE \E p \in Paths : Check(p)
  BY <1>5, CheckKeeps
<1>6. CASE \E p \in Paths, all \in BOOLEAN : Open(p, all)
  BY <1>6, OpenKeeps
<1>7. CASE UNCHANGED vars
  BY <1>7, StutterKeeps
<1>8. Called \subseteq Paths
  BY CalledArePaths DEF IInv, TypeOK
<1> QED
  BY <1>8, <1>1, <1>2, <1>3, <1>4, <1>5, <1>6, <1>7 DEF Next

\* Every reachable state of the inbox satisfies the inductive invariant.
THEOREM InboxInductive == Spec => []IInv
  BY InboxStarts, InboxStep, PTL DEF Spec

\* The tables and the reading keep their types.
THEOREM InboxTyped == Spec => []TypeOK
<1>1. IInv => TypeOK
  BY DEF IInv
<1> QED
  BY <1>1, InboxInductive, PTL

\* One directory, one agent, both ways (agents.py).
THEOREM InboxIdentities == Spec => []IdentitiesHold
<1>1. IInv => IdentitiesHold
  BY DEF IInv
<1> QED
  BY <1>1, InboxInductive, PTL

\* Both ends of every message exist (purge_agent deletes in both directions).
THEOREM MailHasEnds == Spec => []NoOrphans
<1>1. IInv => NoOrphans
  BY DEF IInv
<1> QED
  BY <1>1, InboxInductive, PTL

\* The three queries for unread messages agree, since acknowledging reads.
THEOREM UnreadAgrees == Spec => []CountsAgree
<1>1. IInv => CountsAgree
  BY DEF IInv, Acking, CountsAgree, DescribedUnread, Unread, Listed, Of
<1> QED
  BY <1>1, InboxInductive, PTL

\* The pages of a reading repeat nothing and, at the end, have skipped nothing
\* that was listed all the while.
THEOREM ReadingIsExact == Spec => []PagesAreExact
<1>1. IInv => PagesAreExact
  BY DEF IInv, ReadingInv, Sound, PagesAreExact
<1> QED
  BY <1>1, InboxInductive, PTL

\* A path changes hands only over the hard purge of its agent.
THEOREM InboxPathsKept == Spec => PathsKeepTheirAgent
<1> DEFINE A == \A p \in Paths : aliases[p] # NULL /\ aliases'[p] # aliases[p]
                    => agents'[aliases[p]] = NULL
<1>1. IInv /\ [Next]_vars => A
  <2> SUFFICES ASSUME IInv, [Next]_vars PROVE A
    OBVIOUS
  <2>1. IdentityMoves
    BY CalledArePaths DEF IInv, TypeOK, IdentityMoves, Next, Identity, Send, Ack, Purge, Check, Open, vars
  <2> QED
    BY <2>1, PathsKept DEF IInv, TypeOK
<1>2. IInv /\ [Next]_vars => [A]_tables
  BY <1>1
<1> QED
  BY <1>2, InboxInductive, PTL DEF Spec, PathsKeepTheirAgent

\* Mail across a soft-deleted agent stays as it was, but for hard purges.
THEOREM MailIsFrozen == Spec => PurgedMailIsFrozen
<1> DEFINE A == \A a \in Ids, k \in Keys :
                   Deleted(a) /\ Deleted(a)' /\ (Across(k, a) \/ Across(k, a)') /\ inbox'[k] # inbox[k]
                       => \E b \in Ids : Across(k, b) /\ agents'[b] = NULL
<1>1. ASSUME IInv, [Next]_vars PROVE A
  <2> SUFFICES ASSUME NEW a \in Ids, NEW k \in Keys, Deleted(a), Deleted(a)',
                      Across(k, a) \/ Across(k, a)', inbox'[k] # inbox[k]
               PROVE  \E b \in Ids : Across(k, b) /\ agents'[b] = NULL
    OBVIOUS
  <2>1. /\ AgentsTypeOK /\ TypeOK /\ IdentitiesHold /\ SentOnce
    BY <1>1 DEF IInv, TypeOK
  <2>2. ASSUME NEW p \in Paths, NEW to \in Paths \cup Names, Send(p, to)
        PROVE  FALSE
    <3>1. PICK r \in Recipients(to), l \in Keys \ sent :
             inbox' = [inbox EXCEPT ![l] = [from |-> Caller(p), to |-> r,
                                            read |-> FALSE, acked |-> FALSE]]
      BY <2>2 DEF Send
    <3>2. k = l /\ inbox[k] = NULL
      BY <2>1, <3>1 DEF TypeOK, SentOnce
    <3>3. inbox'[k].from = Caller(p) /\ inbox'[k].to = r
      BY <2>1, <3>1, <3>2 DEF TypeOK
    <3>4. Active(Caller(p)) /\ Active(r) /\ agents' = agents
      BY <2>1, <2>2, CallerFacts, RecipientFacts DEF Send, identity, tables
    <3> QED
      BY <3>2, <3>3, <3>4 DEF Across, Deleted, Active, Exists
  <2>3. ASSUME NEW p \in Paths, NEW S \in SUBSET Keys, NEW status \in {"read", "acked"},
               Ack(p, S, status)
        PROVE  FALSE
    <3>1. AckedRow(inbox[k], inbox'[k], Caller(p)) /\ Active(Caller(p)) /\ agents' = agents
      BY <2>1, <2>3, AckedFacts, CallerFacts DEF Ack, identity, tables
    <3>2. /\ inbox[k] # NULL /\ Active(inbox[k].from) /\ Active(inbox[k].to)
          /\ inbox'[k].from = inbox[k].from /\ inbox'[k].to = inbox[k].to
      BY <3>1 DEF AckedRow
    <3> QED
      BY <3>1, <3>2 DEF Across, Deleted, Active, Exists
  <2>4. ASSUME NEW p \in Paths, Purge(p)
        PROVE  \E b \in Ids : Across(k, b) /\ agents'[b] = NULL
    <3>1. inbox[k] # NULL /\ aliases[p] \in {inbox[k].from, inbox[k].to}
      BY <2>1, <2>4 DEF Purge, Rest, TypeOK
    <3>2. aliases[p] \in Ids /\ agents'[aliases[p]] = NULL
      BY <2>1, <2>4 DEF Purge, HardPurge, ResolveAny, AgentsTypeOK
    <3> QED
      BY <3>1, <3>2 DEF Across
  <2>5. CASE Identity \/ (\E p \in Paths : Check(p) \/ \E all \in BOOLEAN : Open(p, all))
             \/ UNCHANGED vars
    BY <2>5 DEF Identity, Check, Open, vars
  <2> QED
    BY <1>1, <2>1, CalledArePaths, <2>2, <2>3, <2>4, <2>5 DEF Next
<1>2. IInv /\ [Next]_vars => [A]_vars
  BY <1>1
<1> QED
  BY <1>2, InboxInductive, PTL DEF Spec, PurgedMailIsFrozen

\* No agent is stranded by directories that went away (agent_add_alias and agent_unpurge
\* look a path up without asking for its directory), unless a link took their place.
THEOREM AgentsGoOn == Spec => []AgentsCanMove
<1>1. IInv => AgentsCanMove
  BY NobodyIsStranded DEF IInv, TypeOK
<1> QED
  BY <1>1, InboxInductive, PTL

-----------------------------------------------------------------------------
(* The inbox is a mailbox.                                                 *)

\* What a step that changes no row leaves as it was.
LEMMA MailSame == inbox' = inbox => Unopened' = Unopened
  BY DEF Unopened

LEMMA AgentsSame ==
    ASSUME UNCHANGED identity
    PROVE  Standing' = Standing /\ Boxes' = Boxes /\ Places' = Places
  BY DEF identity, tables, Standing, Boxes, Places, Canonical, Caller, Resolve, Active, Exists

\* A session at a path calls with the canonical one.
LEMMA BoxFacts ==
    ASSUME AgentsTypeOK, NEW p \in Paths
    PROVE  Canonical(p) \in Paths /\ Boxes[p] = Caller(Canonical(p))
  BY DEF AgentsTypeOK, PathsLead, Called, Canonical, Boxes

LEMMA PlacesStay ==
    ASSUME UNCHANGED <<directories, leads>>
    PROVE  Places' = Places /\ \A p \in Paths : Canonical(p)' = Canonical(p)
  BY DEF Places, Canonical

\* Whoever keeps deleted_at, aliases and directory keeps status and boxes.
LEMMA BoxKept ==
    ASSUME NEW p \in Paths, aliases'[p] = aliases[p], p \in directories' <=> p \in directories,
           aliases[p] # NULL => (Active(aliases[p])' <=> Active(aliases[p]))
    PROVE  Caller(p)' = Caller(p)
  BY DEF Caller, Resolve, Active, Exists

LEMMA RegisterSettles ==
    ASSUME IInv, NEW p \in Called, NEW n \in Names, Register(p, n), UNCHANGED <<inbox, sent>>
    PROVE  \E P \in SUBSET Paths, a \in Ids : Abstract!Settle(P, a)
<1>1. AgentsTypeOK /\ IdentitiesHold /\ p \in Paths
  BY CalledArePaths DEF IInv, TypeOK
<1>2. PICK a \in Ids \ minted :
         /\ agents' = [agents EXCEPT ![a] = [name |-> n, home |-> p, deleted |-> FALSE]]
         /\ aliases' = [aliases EXCEPT ![p] = a]
         /\ minted' = minted \cup {a} /\ UNCHANGED <<directories, leads>>
  BY DEF Register
<1>3. /\ ~ Exists(a) /\ aliases[p] = NULL /\ p \in directories /\ a # NULL
      /\ Active(a)' /\ aliases'[p] = a
      /\ \A b \in Ids \ {a} : agents'[b] = agents[b]
      /\ \A q \in Paths \ {p} : aliases'[q] = aliases[q] /\ aliases[q] # a
  <2>1. ~ Exists(a) /\ aliases[p] = NULL /\ p \in directories /\ a # NULL
    BY <1>1, AgentsAssumption DEF Register, ResolveAny, IdentitiesHold, Exists
  <2>2. [name |-> n, home |-> p, deleted |-> FALSE] \in [name : Names, home : Paths, deleted : BOOLEAN]
    BY <1>1
  <2>3. [name |-> n, home |-> p, deleted |-> FALSE] # NULL
    BY <2>2, AgentsAssumption
  <2> QED
    BY <1>1, <1>2, <2>1, <2>3 DEF AgentsTypeOK, IdentitiesHold, Active, Exists
<1>4. Caller(p) = NULL /\ Caller(p)' = a
  BY <1>2, <1>3 DEF Caller, Resolve
<1>5. \A q \in Paths \ {p} : Caller(q)' = Caller(q)
  <2> SUFFICES ASSUME NEW q \in Paths \ {p} PROVE Caller(q)' = Caller(q)
    OBVIOUS
  <2>1. aliases[q] # NULL => aliases[q] \in Ids \ {a}
    BY <1>1, <1>3 DEF AgentsTypeOK
  <2>2. aliases[q] # NULL => (Active(aliases[q])' <=> Active(aliases[q]))
    BY <1>3, <2>1 DEF Active, Exists
  <2> QED
    BY <1>2, <1>3, <2>2, BoxKept
<1>6. PICK P \in SUBSET Paths : /\ P = {r \in Paths : Canonical(r) = p} /\ P # {}
                               /\ P \subseteq {r \in Places : Boxes[r] = NULL}
  BY <1>1, <1>3, <1>4, BoxFacts DEF Called, Places
<1>8. Boxes' = Abstract!BoxesWith(P, a) /\ Places' = Places
  BY <1>1, <1>2, <1>4, <1>5, <1>6, BoxFacts, PlacesStay DEF Boxes, Abstract!BoxesWith
<1>7. Standing' = [Standing EXCEPT ![a] = "here"] /\ Standing[a] = "none"
  BY <1>2, <1>3 DEF Standing, Active, Exists
<1> QED
  BY <1>6, <1>7, <1>8, MailSame DEF Abstract!Settle

LEMMA AddAliasSettles ==
    ASSUME IInv, NEW p \in Called, NEW q \in Called, AddAlias(p, q), UNCHANGED <<inbox, sent>>
    PROVE  \E P \in SUBSET Paths, a \in Ids : Abstract!Settle(P, a)
<1>1. AgentsTypeOK /\ IdentitiesHold /\ p \in Paths /\ q \in Paths
  BY CalledArePaths DEF IInv, TypeOK
<1>2. PICK a \in Ids : /\ a = Resolve(p) /\ Active(a) /\ a # NULL
                       /\ aliases[q] = NULL /\ q \in directories
                       /\ aliases' = [aliases EXCEPT ![q] = a]
                       /\ agents' = agents /\ minted' = minted /\ UNCHANGED <<directories, leads>>
  BY <1>1, ResolveFacts DEF AddAlias, CanAddAlias, ResolveAny
<1>3. Standing' = Standing /\ Standing[a] = "here"
  BY <1>2 DEF Standing, Active, Exists
<1>4. Standing = [Standing EXCEPT ![a] = "here"]
  BY <1>3 DEF Standing
<1>5. /\ Caller(q) = NULL /\ Caller(q)' = a
      /\ \A r \in Paths \ {q} : Caller(r)' = Caller(r)
  BY <1>1, <1>2 DEF Caller, Resolve, Active, Exists, AgentsTypeOK
<1>6. PICK P \in SUBSET Paths : /\ P = {r \in Paths : Canonical(r) = q} /\ P # {}
                               /\ P \subseteq {r \in Places : Boxes[r] = NULL}
  BY <1>1, <1>2, <1>5, BoxFacts DEF Called, Places
<1>7. Boxes' = Abstract!BoxesWith(P, a) /\ Places' = Places
  BY <1>1, <1>2, <1>5, <1>6, BoxFacts, PlacesStay DEF Boxes, Abstract!BoxesWith
<1> QED
  BY <1>2, <1>3, <1>4, <1>6, <1>7, MailSame DEF Abstract!Settle

LEMMA RenameStutters ==
    ASSUME IInv, NEW p \in Paths, NEW n \in Names, Rename(p, n)
    PROVE  Standing' = Standing /\ Boxes' = Boxes /\ Places' = Places
<1>1. AgentsTypeOK /\ IdentitiesHold
  BY DEF IInv, TypeOK
<1>2. PICK a \in Ids : Exists(a) /\ agents' = [agents EXCEPT ![a].name = n]
                       /\ UNCHANGED <<aliases, minted, directories, leads>>
  BY <1>1, ResolveFacts DEF Rename, Active
<1>3. agents[a] \in Row /\ NULL \notin Row
  BY <1>1, <1>2, AgentsAssumption DEF AgentsTypeOK, Exists, Row
<1>4. [agents[a] EXCEPT !.name = n] \in Row /\ [agents[a] EXCEPT !.name = n].deleted = agents[a].deleted
  BY <1>3 DEF Row
<1>5. \A b \in Ids : (Exists(b)' <=> Exists(b)) /\ (Active(b)' <=> Active(b))
  BY <1>1, <1>2, <1>3, <1>4 DEF AgentsTypeOK, Active, Exists
<1>6. \A q \in Paths : Caller(q)' = Caller(q)
  BY <1>1, <1>2, <1>5, BoxKept DEF AgentsTypeOK
<1> QED
  BY <1>1, <1>2, <1>5, <1>6, BoxFacts, PlacesStay DEF Standing, Boxes

\* A purge sets deleted_at of one agent, its reversal clears it.
LEMMA DeletedMoves ==
    ASSUME AgentsTypeOK, IdentitiesHold, NEW a \in Ids, NEW deleted \in BOOLEAN,
           Exists(a), agents' = [agents EXCEPT ![a].deleted = deleted],
           UNCHANGED <<aliases, minted, directories, leads>>
    PROVE  /\ Exists(a)' /\ (Active(a)' <=> ~ deleted)
           /\ \A b \in Ids \ {a} : (Exists(b)' <=> Exists(b)) /\ (Active(b)' <=> Active(b))
           /\ \A p \in Paths : aliases[p] # a => Caller(p)' = Caller(p)
<1>1. agents[a] \in Row /\ NULL \notin Row
  BY AgentsAssumption DEF AgentsTypeOK, Exists, Row
<1>2. [agents[a] EXCEPT !.deleted = deleted] \in Row /\ [agents[a] EXCEPT !.deleted = deleted].deleted = deleted
  BY <1>1 DEF Row
<1>3. /\ Exists(a)' /\ (Active(a)' <=> ~ deleted)
      /\ \A b \in Ids \ {a} : (Exists(b)' <=> Exists(b)) /\ (Active(b)' <=> Active(b))
  BY <1>1, <1>2 DEF AgentsTypeOK, Active, Exists
<1>4. ASSUME NEW p \in Paths, aliases[p] # a PROVE Caller(p)' = Caller(p)
  BY <1>3, <1>4, BoxKept DEF AgentsTypeOK
<1> QED
  BY <1>3, <1>4

LEMMA SoftPurgeLeaves ==
    ASSUME IInv, NEW p \in Paths, SoftPurge(p), UNCHANGED <<inbox, sent>>
    PROVE  \E a \in Ids : Abstract!Leave(a)
<1>1. AgentsTypeOK /\ IdentitiesHold
  BY DEF IInv, TypeOK
<1>2. PICK a \in Ids : /\ Active(a) /\ Exists(a) /\ a # NULL
                       /\ agents' = [agents EXCEPT ![a].deleted = TRUE]
                       /\ UNCHANGED <<aliases, minted, directories, leads>>
  BY <1>1, ResolveFacts DEF SoftPurge, Active
<1>3. /\ Exists(a)' /\ ~ Active(a)'
      /\ \A b \in Ids \ {a} : (Exists(b)' <=> Exists(b)) /\ (Active(b)' <=> Active(b))
      /\ \A q \in Paths : aliases[q] # a => Caller(q)' = Caller(q)
  BY <1>1, <1>2, DeletedMoves
<1>4. Standing[a] = "here" /\ Standing' = [Standing EXCEPT ![a] = "away"]
  BY <1>2, <1>3 DEF Standing
<1>5. \A q \in Paths : Caller(q)' = IF Caller(q) = a THEN NULL ELSE Caller(q)
  <2> SUFFICES ASSUME NEW q \in Paths
               PROVE  Caller(q)' = IF Caller(q) = a THEN NULL ELSE Caller(q)
    OBVIOUS
  <2>1. CASE aliases[q] = a
    BY <1>2, <1>3, <2>1 DEF Caller, Resolve
  <2>2. CASE aliases[q] # a
    BY <1>2, <1>3, <2>2 DEF Caller, Resolve
  <2> QED
    BY <2>1, <2>2
<1>6. Boxes' = Abstract!BoxesBut(a) /\ Places' = Places
  BY <1>1, <1>2, <1>5, BoxFacts, PlacesStay DEF Boxes, Abstract!BoxesBut
<1> QED
  BY <1>4, <1>6, MailSame DEF Abstract!Leave

LEMMA UnpurgeReturns ==
    ASSUME IInv, NEW p \in Paths, Unpurge(p), UNCHANGED <<inbox, sent>>
    PROVE  \E a \in Ids : Abstract!Return(a)
<1>1. AgentsTypeOK /\ IdentitiesHold
  BY DEF IInv, TypeOK
<1>2. PICK a \in Ids : /\ ~ Active(a) /\ Exists(a) /\ a # NULL
                       /\ agents' = [agents EXCEPT ![a].deleted = FALSE]
                       /\ UNCHANGED <<aliases, minted, directories, leads>>
  BY <1>1, ResolveFacts DEF Unpurge, CanUnpurge, ResolveAny
<1>3. /\ Exists(a)' /\ Active(a)'
      /\ \A b \in Ids \ {a} : (Exists(b)' <=> Exists(b)) /\ (Active(b)' <=> Active(b))
      /\ \A q \in Paths : aliases[q] # a => Caller(q)' = Caller(q)
  BY <1>1, <1>2, DeletedMoves
<1>4. Standing[a] = "away" /\ Standing' = [Standing EXCEPT ![a] = "here"]
  BY <1>2, <1>3 DEF Standing
<1>5. \A q \in Paths : /\ aliases[q] = a => Caller(q) = NULL
                       /\ Caller(q)' = IF aliases[q] = a /\ q \in directories
                                       THEN a ELSE Caller(q)
  <2> SUFFICES ASSUME NEW q \in Paths
               PROVE  /\ aliases[q] = a => Caller(q) = NULL
                      /\ Caller(q)' = IF aliases[q] = a /\ q \in directories
                                      THEN a ELSE Caller(q)
    OBVIOUS
  <2>1. CASE aliases[q] = a
    BY <1>2, <1>3, <2>1 DEF Caller, Resolve
  <2>2. CASE aliases[q] # a
    BY <1>3, <2>2
  <2> QED
    BY <2>1, <2>2
<1>6. PICK P \in SUBSET Paths :
         P = {r \in Paths : aliases[Canonical(r)] = a /\ Canonical(r) \in directories}
  OBVIOUS
<1>7. P \in SUBSET {r \in Places : Boxes[r] = NULL}
  BY <1>1, <1>5, <1>6, BoxFacts DEF Places
<1>8. Boxes' = Abstract!BoxesWith(P, a) /\ Places' = Places
  BY <1>1, <1>2, <1>5, <1>6, BoxFacts, PlacesStay DEF Boxes, Abstract!BoxesWith
<1> QED
  BY <1>4, <1>7, <1>8, MailSame DEF Abstract!Return

\* Whatever the user puts at a path, it is there under all paths that lead to it.
LEMMA MoveMoves ==
    ASSUME IInv, NEW p \in Paths, UNCHANGED <<tables, inbox, sent>>,
           MoveDirectory(p) \/ \E q \in Paths : LinkDirectory(p, q)
    PROVE  \E P \in SUBSET Paths, a \in Ids \cup {NULL}, there \in BOOLEAN : Abstract!Move(P, a, there)
<1>1. AgentsTypeOK /\ IdentitiesHold /\ leads \in [Paths -> Paths]
  BY DEF IInv, TypeOK, AgentsTypeOK, PathsLead
<1>2. agents' = agents /\ aliases' = aliases /\ minted' = minted
  BY DEF tables
<1>3. Standing' = Standing
  BY <1>2 DEF Standing, Active, Exists
\* What stands at the paths of P, which alone change.
<1>4. ASSUME NEW q \in Paths, NEW P \in SUBSET Paths, leads' \in [Paths -> Paths],
             \A r \in P : leads'[r] = q,
             \A r \in Paths \ P : /\ leads'[r] = leads[r]
                                  /\ leads[r] \in directories' <=> leads[r] \in directories
      PROVE  \E a \in Ids \cup {NULL}, there \in BOOLEAN : Abstract!Move(P, a, there)
  <2> DEFINE a == Caller(q)'
             there == q \in directories'
  <2>1. ASSUME NEW r \in Paths \ P
        PROVE  Boxes'[r] = Boxes[r] /\ (r \in Places' <=> r \in Places)
    <3>1. leads'[r] = leads[r] /\ (leads[r] \in directories' <=> leads[r] \in directories)
      BY <1>4, <2>1
    <3>2. Boxes[r] = (IF leads[r] \in directories THEN Resolve(leads[r]) ELSE NULL)
      BY <2>1 DEF Boxes, Canonical, Caller
    <3>3. Boxes'[r] = (IF leads[r] \in directories' THEN Resolve(leads[r]) ELSE NULL)
      BY <1>2, <2>1, <3>1 DEF Boxes, Canonical, Caller, Resolve, Active, Exists
    <3>4. r \in Places' <=> r \in Places
      BY <2>1, <3>1 DEF Places, Canonical
    <3> QED
      BY <3>1, <3>2, <3>3, <3>4
  <2>2. \A r \in P : Boxes'[r] = a
    BY <1>4 DEF Boxes, Canonical, Caller, Resolve
  <2>7. Boxes' = [r \in Paths |-> Boxes'[r]]
    BY DEF Boxes
  <2>8. Boxes' = Abstract!BoxesWith(P, a)
    BY <2>1, <2>2, <2>7 DEF Abstract!BoxesWith
  <2>9. /\ \A r \in P : r \in Places' <=> there
        /\ Places \subseteq Paths /\ Places' \subseteq Paths
    BY <1>4 DEF Places, Canonical
  <2>3. Places' = IF there THEN Places \cup P ELSE Places \ P
    <3> HIDE DEF there
    <3> QED
      BY <2>1, <2>9
  <2>4. a = NULL \/ (there /\ a = Resolve(q))
    BY <1>2 DEF Caller, Resolve, Active, Exists
  <2>5. a = NULL \/ (there /\ a \in Ids /\ Standing[a] = "here")
    BY <1>1, <2>4, ResolveFacts DEF Standing
  <2>6. a \in Ids \cup {NULL} /\ there \in BOOLEAN
    BY <2>5
  <2> HIDE DEF a, there
  <2> QED
    BY <1>3, <2>3, <2>5, <2>6, <2>8, MailSame DEF Abstract!Move
<1>5. CASE MoveDirectory(p)
  <2>1. /\ leads' = [leads EXCEPT ![p] = p]
        /\ directories' \in {directories \ {p}, directories \cup {p}}
    BY <1>5 DEF MoveDirectory
  <2>2. PICK P \in SUBSET Paths : P = {r \in Paths : leads'[r] = p}
    OBVIOUS
  <2>3. leads' \in [Paths -> Paths] /\ \A r \in Paths \ P : leads'[r] = leads[r] /\ leads[r] # p
    BY <1>1, <2>1, <2>2
  <2> QED
    BY <1>4, <2>1, <2>2, <2>3
<1>6. CASE \E q \in Paths : LinkDirectory(p, q)
  <2>1. PICK q \in Paths : LinkDirectory(p, q)
    BY <1>6
  <2>2. /\ leads' = [leads EXCEPT ![p] = q] /\ directories' = directories \ {p}
        /\ \A r \in Paths \ {p} : leads[r] # p
    BY <2>1 DEF LinkDirectory, Canonical
  <2>3. /\ leads' \in [Paths -> Paths] /\ \A r \in {p} : leads'[r] = q
        /\ \A r \in Paths \ {p} : leads'[r] = leads[r]
    BY <1>1, <2>2
  <2>4. \E a \in Ids \cup {NULL}, there \in BOOLEAN : Abstract!Move({p}, a, there)
    BY <1>4, <2>2, <2>3
  <2> QED
    BY <2>4
<1> QED
  BY <1>5, <1>6

LEMMA PurgeDeparts ==
    ASSUME IInv, NEW p \in Paths, Purge(p)
    PROVE  \E a \in Ids : Abstract!Depart(a)
<1>1. AgentsTypeOK /\ IdentitiesHold /\ TypeOK
  BY DEF IInv, TypeOK
<1>2. PICK a \in Ids : /\ a = aliases[p] /\ Exists(a) /\ a \in minted /\ a # NULL
                       /\ agents' = [agents EXCEPT ![a] = NULL]
                       /\ aliases' = [q \in Paths |-> IF aliases[q] = a THEN NULL ELSE aliases[q]]
                       /\ minted' = minted /\ UNCHANGED <<directories, leads>>
                       /\ inbox' = Rest(a) /\ sent' = sent
  BY <1>1, ResolveFacts DEF Purge, HardPurge, ResolveAny, IdentitiesHold
<1>3. /\ ~ Exists(a)' /\ ~ Active(a)'
      /\ \A b \in Ids \ {a} : (Exists(b)' <=> Exists(b)) /\ (Active(b)' <=> Active(b))
  BY <1>1, <1>2 DEF AgentsTypeOK, Active, Exists
<1>4. Standing[a] \in {"here", "away"} /\ Standing' = [Standing EXCEPT ![a] = "gone"]
  BY <1>2, <1>3 DEF Standing
<1>5. \A q \in Paths : Caller(q)' = IF Caller(q) = a THEN NULL ELSE Caller(q)
  <2> SUFFICES ASSUME NEW q \in Paths
               PROVE  Caller(q)' = IF Caller(q) = a THEN NULL ELSE Caller(q)
    OBVIOUS
  <2>1. CASE aliases[q] = a
    BY <1>2, <1>3, <2>1 DEF Caller, Resolve
  <2>2. CASE aliases[q] # a
    <3>1. Caller(q)' = Caller(q)
      BY <1>1, <1>2, <1>3, <2>2, BoxKept DEF AgentsTypeOK
    <3> QED
      BY <2>2, <3>1 DEF Caller, Resolve
  <2> QED
    BY <2>1, <2>2
<1>6. Boxes' = Abstract!BoxesBut(a) /\ Places' = Places
  BY <1>1, <1>2, <1>5, BoxFacts, PlacesStay DEF Boxes, Abstract!BoxesBut
<1>7. Unopened' = Abstract!MailBut(Abstract!Between(a))
  <2>1. \A k \in Keys : Unopened[k] # NULL =>
          /\ inbox[k] # NULL /\ ~ inbox[k].read
          /\ Unopened[k].from = inbox[k].from /\ Unopened[k].to = inbox[k].to
    BY DEF Unopened
  <2>3. \A k \in Keys : Unopened'[k] =
           IF k \in Abstract!Between(a) THEN NULL ELSE Unopened[k]
    <3> SUFFICES ASSUME NEW k \in Keys
                 PROVE  Unopened'[k] = IF k \in Abstract!Between(a) THEN NULL ELSE Unopened[k]
      OBVIOUS
    <3>1. CASE inbox[k] = NULL
      BY <1>2, <3>1 DEF Unopened, Rest, Abstract!Between
    <3>2. CASE inbox[k] # NULL /\ a \in {inbox[k].from, inbox[k].to}
      <4>1. Unopened'[k] = NULL
        BY <1>2, <3>2 DEF Unopened, Rest
      <4>2. k \in Abstract!Between(a) \/ Unopened[k] = NULL
        BY <2>1, <3>2 DEF Abstract!Between
      <4> QED
        BY <4>1, <4>2
    <3>3. CASE inbox[k] # NULL /\ a \notin {inbox[k].from, inbox[k].to}
      <4>1. inbox'[k] = inbox[k]
        BY <1>2, <3>3 DEF Rest
      <4>2. k \notin Abstract!Between(a)
        BY <2>1, <3>3 DEF Abstract!Between
      <4> QED
        BY <4>1, <4>2 DEF Unopened
    <3> QED
      BY <3>1, <3>2, <3>3
  <2> QED
    BY <2>3 DEF Unopened, Abstract!MailBut
<1> QED
  BY <1>2, <1>4, <1>6, <1>7 DEF Abstract!Depart

LEMMA SendDelivers ==
    ASSUME IInv, NEW s \in Paths, NEW to \in Paths \cup Names, Send(Canonical(s), to)
    PROVE  /\ \E k \in Keys, b \in Ids : Abstract!Deliver(k, s, b)
           /\ UNCHANGED <<Standing, Boxes, Places>>
<1> DEFINE p == Canonical(s)
<1>0. p \in Paths /\ Boxes[s] = Caller(p)
  BY BoxFacts DEF IInv, TypeOK
<1> HIDE DEF p
<1>9. Send(p, to)
  BY DEF p
<1>1. AgentsTypeOK /\ IdentitiesHold /\ TypeOK
  BY DEF IInv, TypeOK
<1>2. PICK r \in Recipients(to), k \in Keys \ sent :
         /\ sent' = sent \cup {k}
         /\ inbox' = [inbox EXCEPT ![k] = [from |-> Caller(p), to |-> r,
                                           read |-> FALSE, acked |-> FALSE]]
  BY <1>9 DEF Send
<1>3. r \in Ids /\ Standing[r] = "here" /\ Boxes[s] = Caller(p) /\ Boxes[s] # NULL
  BY <1>0, <1>1, <1>9, RecipientFacts DEF Standing, Send
<1>4. Caller(p) \in Ids /\ UNCHANGED identity
  BY <1>0, <1>1, <1>9, CallerFacts DEF Send
<1>5. Standing' = Standing /\ Boxes' = Boxes /\ Places' = Places
  BY <1>4, AgentsSame
<1> DEFINE new == [from |-> Caller(p), to |-> r, read |-> FALSE, acked |-> FALSE]
<1>6. /\ new # NULL /\ new.from = Caller(p) /\ new.to = r /\ new.read = FALSE
  <2>1. new \in [from : Ids, to : Ids, read : BOOLEAN, acked : BOOLEAN]
    BY <1>3, <1>4
  <2> QED
    BY <2>1, InboxAssumption
<1> HIDE DEF new
<1>7. inbox'[k] = new /\ \A l \in Keys \ {k} : inbox'[l] = inbox[l]
  BY <1>1, <1>2 DEF new, TypeOK
<1>8. Unopened' = [Unopened EXCEPT ![k] = [from |-> Boxes[s], to |-> r]]
  BY <1>3, <1>6, <1>7 DEF Unopened
<1> QED
  BY <1>2, <1>3, <1>5, <1>8 DEF Abstract!Deliver

LEMMA AckTakes ==
    ASSUME IInv, NEW r \in Paths, NEW S \in SUBSET Keys, NEW status \in {"read", "acked"},
           Ack(Canonical(r), S, status)
    PROVE  Abstract!Take(r, S) /\ UNCHANGED <<Standing, Boxes, Places>>
<1>1. AgentsTypeOK /\ IdentitiesHold /\ TypeOK
  BY DEF IInv, TypeOK
<1>0. Canonical(r) \in Paths /\ Boxes[r] = Caller(Canonical(r))
  BY <1>1, BoxFacts
<1>2. PICK a \in Ids : a = Caller(Canonical(r)) /\ a # NULL /\ inbox' = Acked(a, S, status)
                       /\ sent' = sent /\ UNCHANGED identity
  BY <1>0, <1>1, CallerFacts DEF Ack
<1>3. Standing' = Standing /\ Boxes' = Boxes /\ Places' = Places /\ Boxes[r] = a
  BY <1>0, <1>2, AgentsSame
<1>4. \A k \in Keys : k \in Abstract!WaitingFor(a) <=> k \in Of(a) /\ Shown(k) /\ ~ inbox[k].read
  <2> SUFFICES ASSUME NEW k \in Keys
               PROVE  k \in Abstract!WaitingFor(a) <=> k \in Of(a) /\ Shown(k) /\ ~ inbox[k].read
    OBVIOUS
  <2>1. CASE inbox[k] = NULL
    BY <2>1 DEF Abstract!WaitingFor, Unopened, Of
  <2>2. CASE inbox[k] # NULL
    <3>1. /\ inbox[k].from \in Ids
          /\ [from |-> inbox[k].from, to |-> inbox[k].to] \in [from : Ids, to : Ids]
      BY <1>1, <2>2, MessageFacts
    <3>2. [from |-> inbox[k].from, to |-> inbox[k].to] # NULL
      BY <3>1, InboxAssumption
    <3>3. Standing[inbox[k].from] = "here" <=> Shown(k)
      BY <3>1 DEF Standing, Shown
    <3> QED
      BY <2>2, <3>2, <3>3 DEF Abstract!WaitingFor, Unopened, Of
  <2> QED
    BY <2>1, <2>2
<1>5. \A k \in Keys : Unopened'[k] =
         IF k \in S \cap Abstract!WaitingFor(a) THEN NULL ELSE Unopened[k]
  <2> SUFFICES ASSUME NEW k \in Keys
               PROVE  Unopened'[k] = IF k \in S \cap Abstract!WaitingFor(a) THEN NULL ELSE Unopened[k]
    OBVIOUS
  <2>1. AckedRow(inbox[k], inbox'[k], a)
    BY <1>1, <1>2, AckedFacts
  <2>2. CASE k \in S \cap Of(a) /\ Shown(k)
    <3>1. inbox[k] # NULL /\ inbox'[k].read = TRUE
      BY <1>1, <1>2, <2>2, MessageFacts DEF Acked, Of, Message
    <3>2. Unopened'[k] = NULL
      BY <3>1 DEF Unopened
    <3> QED
      BY <1>4, <2>2, <3>1, <3>2 DEF Unopened
  <2>3. CASE ~ (k \in S \cap Of(a) /\ Shown(k))
    <3>1. inbox'[k] = inbox[k]
      BY <1>2, <2>3 DEF Acked
    <3> QED
      BY <1>4, <2>3, <3>1 DEF Unopened
  <2> QED
    BY <2>2, <2>3
<1>6. Unopened' = Abstract!MailBut(S \cap Abstract!WaitingFor(a))
  BY <1>5 DEF Unopened, Abstract!MailBut
<1> QED
  BY <1>2, <1>3, <1>6 DEF Abstract!Take

\* The inbox implements the mailbox: agent by agent and message by message, every
\* step of it is one a mailbox takes, or changes nothing that waits.
THEOREM InboxIsMailbox == Spec => ImplementsMailbox
<1>1. Init => Abstract!MailboxInit
  BY DEF Init, AgentsInit, Abstract!MailboxInit, Unopened, Standing, Boxes, Places, Canonical,
         Caller, Resolve, Active, Exists
<1>2. ASSUME IInv, [Next]_vars
      PROVE  [Abstract!MailStep \/ Abstract!AgentStep]_(Abstract!mailbox)
  <2>6. Called \subseteq Paths
    BY <1>2, CalledArePaths DEF IInv, TypeOK
  <2>1. CASE Identity
    <3>1. IdentityStep /\ UNCHANGED <<inbox, sent>>
      BY <2>1 DEF Identity
    <3>2. ASSUME NEW p \in Called, NEW n \in Names, Register(p, n)
          PROVE  Abstract!AgentStep
      BY <1>2, <3>1, <3>2, RegisterSettles DEF Abstract!AgentStep
    <3>3. ASSUME NEW p \in Called, NEW q \in Called, AddAlias(p, q)
          PROVE  Abstract!AgentStep
      BY <1>2, <3>1, <3>3, AddAliasSettles DEF Abstract!AgentStep
    <3>4. ASSUME NEW p \in Paths, NEW n \in Names, Rename(p, n)
          PROVE  UNCHANGED Abstract!mailbox
      BY <1>2, <3>1, <3>4, RenameStutters, MailSame DEF Abstract!mailbox
    <3>5. ASSUME NEW p \in Paths, SoftPurge(p)
          PROVE  Abstract!AgentStep
      BY <1>2, <3>1, <3>5, SoftPurgeLeaves DEF Abstract!AgentStep
    <3>6. ASSUME NEW p \in Paths, Unpurge(p)
          PROVE  Abstract!AgentStep
      BY <1>2, <3>1, <3>6, UnpurgeReturns DEF Abstract!AgentStep
    <3>7. ASSUME NEW p \in Paths, MoveDirectory(p) \/ \E q \in Paths : LinkDirectory(p, q)
          PROVE  Abstract!AgentStep
      <4>1. UNCHANGED tables
        BY <3>7 DEF MoveDirectory, LinkDirectory
      <4> QED
        BY <1>2, <3>1, <3>7, <4>1, MoveMoves DEF Abstract!AgentStep
    <3> QED
      BY <2>6, <3>1, <3>2, <3>3, <3>4, <3>5, <3>6, <3>7 DEF IdentityStep
  <2>2. ASSUME NEW p \in Called, NEW to \in Called \cup Names, Send(p, to)
        PROVE  Abstract!MailStep
    <3>1. PICK r \in Paths : p = Canonical(r)
      BY DEF Called
    <3> QED
      BY <1>2, <2>2, <2>6, <3>1, SendDelivers DEF Abstract!MailStep
  <2>3. ASSUME NEW p \in Called, NEW S \in SUBSET Keys, NEW status \in {"read", "acked"},
               Ack(p, S, status)
        PROVE  Abstract!MailStep
    <3>1. PICK r \in Paths : p = Canonical(r)
      BY DEF Called
    <3> QED
      BY <1>2, <2>3, <3>1, AckTakes DEF Abstract!MailStep
  <2>4. ASSUME NEW p \in Paths, Purge(p)
        PROVE  Abstract!AgentStep
    BY <1>2, <2>4, PurgeDeparts DEF Abstract!AgentStep
  <2>5. ASSUME (\E p \in Paths : Check(p) \/ \E all \in BOOLEAN : Open(p, all)) \/ UNCHANGED vars
        PROVE  UNCHANGED Abstract!mailbox
    <3>1. UNCHANGED identity /\ inbox' = inbox /\ sent' = sent
      BY <2>5 DEF Check, Open, vars
    <3> QED
      BY <3>1, MailSame, AgentsSame DEF Abstract!mailbox
  <2> QED
    BY <1>2, <2>1, <2>2, <2>3, <2>4, <2>5, <2>6 DEF Next
<1> QED
  BY <1>1, <1>2, InboxInductive, PTL DEF Spec, ImplementsMailbox, Abstract!MailboxSpec
=============================================================================
