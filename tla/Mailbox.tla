------------------------------ MODULE Mailbox -------------------------------
(***************************************************************************)
(* What the inbox promises, for whoever waits for mail: a message waits    *)
(* from its delivery until an agent it is for takes it, or until one of    *)
(* its two agents is purged.  While either of them is away it stays where  *)
(* it is.  Aliases, names, rows, pages and stamps are Inbox's affair.      *)
(***************************************************************************)
CONSTANTS Ids,       \* the agents there may ever be
          Paths,     \* where sessions may work
          Messages,
          NULL

VARIABLES mail,    \* the sender and the recipient of each message that waits, else NULL
          posted,  \* the messages ever delivered
          status,  \* of each agent: "none", "here", "away" (soft-deleted) or "gone"
          boxes,   \* the agent that a session at each path speaks for, or NULL
          places   \* the paths at which there is a directory

mailbox == <<mail, posted, status, boxes, places>>

Letter == [from : Ids, to : Ids]

ASSUME MailboxAssumption == NULL \notin Ids /\ NULL \notin Letter

MailboxInit == /\ mail = [m \in Messages |-> NULL] /\ posted = {}
               /\ status = [a \in Ids |-> "none"]
               /\ boxes = [p \in Paths |-> NULL] /\ places = Paths

\* What a reader is shown: the sender must not be away.
WaitingFor(a) == {m \in Messages : /\ mail[m] # NULL
                                   /\ mail[m].to = a /\ status[mail[m].from] = "here"}

\* Without the mail that S has, without the boxes that an agent has.
MailBut(S) == [m \in Messages |-> IF m \in S THEN NULL ELSE mail[m]]
BoxesWith(P, a) == [p \in Paths |-> IF p \in P THEN a ELSE boxes[p]]
BoxesBut(a) == [p \in Paths |-> IF boxes[p] = a THEN NULL ELSE boxes[p]]
Between(a) == {m \in Messages : mail[m] # NULL /\ a \in {mail[m].from, mail[m].to}}

\* A session of one agent sends to another one.
Deliver(m, p, b) == /\ m \notin posted /\ boxes[p] # NULL /\ status[b] = "here"
                    /\ mail' = [mail EXCEPT ![m] = [from |-> boxes[p], to |-> b]]
                    /\ posted' = posted \cup {m}

\* A session marks some of what waits for its agent as read.
Take(p, S) == /\ boxes[p] # NULL
              /\ mail' = MailBut(S \cap WaitingFor(boxes[p]))
              /\ UNCHANGED posted

\* Directories nobody answers in, one under all its paths, become a new agent's, or
\* more of an old agent's.
Settle(P, a) == /\ P # {} /\ P \subseteq {p \in places : boxes[p] = NULL}
                /\ status[a] \in {"none", "here"}
                /\ boxes' = BoxesWith(P, a)
                /\ status' = [status EXCEPT ![a] = "here"]
                /\ UNCHANGED <<mail, posted, places>>

\* Directories come, go or are replaced: at these paths there is one now, which may
\* be an agent's, or none.  No agent leaves.
Move(P, a, there) == /\ a # NULL => there /\ status[a] = "here"
                     /\ places' = IF there THEN places \cup P ELSE places \ P
                     /\ boxes' = BoxesWith(P, a)
                     /\ UNCHANGED <<mail, posted, status>>

\* A soft purge, and its reversal, which finds the mail as it was.
Leave(a) == /\ status[a] = "here"
            /\ status' = [status EXCEPT ![a] = "away"]
            /\ boxes' = BoxesBut(a)
            /\ UNCHANGED <<mail, posted, places>>
Return(a) == /\ status[a] = "away"
             /\ status' = [status EXCEPT ![a] = "here"]
             /\ \E P \in SUBSET {p \in places : boxes[p] = NULL} : boxes' = BoxesWith(P, a)
             /\ UNCHANGED <<mail, posted, places>>

\* A hard purge.  Nobody is that agent again.
Depart(a) == /\ status[a] \in {"here", "away"}
             /\ status' = [status EXCEPT ![a] = "gone"]
             /\ boxes' = BoxesBut(a)
             /\ mail' = MailBut(Between(a))
             /\ UNCHANGED <<posted, places>>

MailStep == /\ UNCHANGED <<status, boxes, places>>
            /\ \E p \in Paths : \/ \E m \in Messages, b \in Ids : Deliver(m, p, b)
                                \/ \E S \in SUBSET Messages : Take(p, S)
AgentStep == \/ \E a \in Ids : Leave(a) \/ Return(a) \/ Depart(a)
             \/ \E P \in SUBSET Paths : \/ \E a \in Ids : Settle(P, a)
                                       \/ \E a \in Ids \cup {NULL}, there \in BOOLEAN : Move(P, a, there)

MailboxSpec == MailboxInit /\ [][MailStep \/ AgentStep]_mailbox
=============================================================================
