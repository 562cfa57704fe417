--------------------------- MODULE NotifierProofs ---------------------------
(***************************************************************************)
(* Proofs about the session inbox notifier, for any agents, paths and      *)
(* directories, any messages, any window, and any situation a session may  *)
(* begin in: what the interleaving of hooks, ticks, polls and starts may   *)
(* never break.                                                            *)
(***************************************************************************)
EXTENDS Notifier, FiniteSetTheorems, WellFoundedInduction, TLAPS

-----------------------------------------------------------------------------
(* The invariant.                                                          *)

InboxOK == /\ posted \subseteq Messages /\ mail \in [Messages -> Letter \cup {NULL}]
           /\ status \in [Ids -> {"none", "here", "away", "gone"}]
           /\ boxes \in [Paths -> Ids \cup {NULL}] /\ places \subseteq Paths
           /\ settings \in Settings

Starts == {"none", "settings", "polling", "settling", "failing"}

SessionOK == /\ active \in BOOLEAN /\ idle \in BOOLEAN /\ hasObservedWork \in BOOLEAN
             /\ retryRequested \in BOOLEAN /\ restartRequested \in BOOLEAN
             /\ pollingDisabled \in BOOLEAN /\ hasSessionStart \in BOOLEAN
             /\ timer \in BOOLEAN /\ lapsed \in BOOLEAN /\ stalled \in BOOLEAN
             /\ workingDirectory \in Directories \cup {NULL} /\ cwd \in Directories \cup {NULL}
             /\ warned \subseteq {"registration", "configuration"}
             /\ start \in Starts /\ hooks \subseteq {"metadata", "register"}

Poll == [pc : PollPoints, owner : {"tick", "start"}, dir : Directories \cup {NULL},
         moved : BOOLEAN, registeredSince : BOOLEAN, known : BOOLEAN,
         unread : SUBSET Messages, new : SUBSET Messages]

PollOK == poll \in Poll

MessagesOK == /\ announced \subseteq Messages /\ prompted \subseteq Messages
              /\ dropped \subseteq Messages
              /\ seenMessageIds \subseteq Messages /\ Cardinality(seenMessageIds) <= WindowSize
              /\ pendingPrompt = NULL \/ pendingPrompt \subseteq Messages

\* What a poll is about to log is unread, and so is all that counts as seen then: the
\* prompt that may follow counts it.
LogCounts == At("log") => seenMessageIds \cup poll.new \subseteq poll.unread

SeenOK == SeenIsAnnounced /\ LogCounts

IInv == InboxOK /\ SessionOK /\ PollOK /\ MessagesOK /\ IntervalsAreOwned /\ SeenOK

-----------------------------------------------------------------------------
(* The window.                                                             *)

LEMMA Oldest ==
    ASSUME NEW S, S \subseteq Nat, S # {}
    PROVE  \E m \in S : \A n \in S : m <= n
<1> DEFINE R == OpToRel(<, Nat)
<1>1. IsWellFoundedOn(R, Nat)
  BY NatLessThanWellFounded
<1>2. \A x, y \in Nat : y < x => <<y, x>> \in R
  BY DEF OpToRel
<1> HIDE DEF R
<1>3. PICK m \in S : \A n \in S : <<n, m>> \notin R
  BY <1>1, WFMin
<1>4. \A n \in S : ~ (n < m)
  BY <1>2, <1>3
<1> QED
  BY <1>4

\* LIMIT keeps its word: of any messages, the newest are no more than the window.
LEMMA WindowIsBounded ==
    ASSUME NEW S \in SUBSET Messages
    PROVE  /\ Newest(S) \in SUBSET Messages
           /\ Cardinality(Newest(S)) <= WindowSize
<1> DEFINE N == Newest(S)
<1>1. /\ S \subseteq Nat /\ IsFiniteSet(S) /\ WindowSize \in Nat \ {0}
  BY NotifierAssumption, FS_Subset
<1>2. N \in SUBSET S /\ IsFiniteSet(N) /\ N \subseteq Nat
  <2>1. N \in SUBSET S
    BY DEF Newest
  <2> QED
    BY <1>1, <2>1, FS_Subset
<1>3. \A m \in N : Cardinality({n \in S : n > m}) < WindowSize
  BY DEF Newest
<1> HIDE DEF N
<1>4. CASE N = {}
  <2>1. Cardinality(N) = 0
    BY <1>4, FS_EmptySet
  <2> QED
    BY <1>1, <1>2, <2>1 DEF N
<1>5. CASE N # {}
  <2>1. PICK m \in N : \A n \in N : m <= n
    BY <1>2, <1>5, Oldest
  <2> DEFINE after == {n \in S : n > m}
  <2>2. N \ {m} \in SUBSET after /\ after \in SUBSET S
    BY <1>1, <1>2, <2>1
  <2>3. Cardinality(after) < WindowSize
    BY <1>3, <2>1
  <2> HIDE DEF after
  <2>4. IsFiniteSet(after) /\ Cardinality(after) \in Nat
    BY <1>1, <2>2, FS_Subset, FS_CardinalityType
  <2>5. Cardinality(N \ {m}) <= Cardinality(after) /\ Cardinality(N \ {m}) \in Nat
    BY <2>2, <2>4, FS_Subset, FS_CardinalityType
  <2>6. Cardinality(N \ {m}) = Cardinality(N) - 1 /\ Cardinality(N) \in Nat
    BY <1>2, <2>1, FS_RemoveElement, FS_CardinalityType
  <2>7. Cardinality(N) <= WindowSize
    BY <1>1, <2>3, <2>4, <2>5, <2>6
  <2> QED
    BY <1>2, <2>7 DEF N
<1> QED
  BY <1>4, <1>5

-----------------------------------------------------------------------------
(* The pieces that run without an await.                                   *)

LEMMA UnreadIsMail ==
    ASSUME NEW d
    PROVE  Unread(d) \in SUBSET Messages /\ Known(d) \in BOOLEAN
  BY DEF Unread, Known, WaitingFor

LEMMA NewPollFacts ==
    ASSUME SessionOK, NEW owner \in {"tick", "start"}
    PROVE  NewPoll(owner) \in Poll /\ NewPoll(owner).pc = "process"
  BY DEF SessionOK, NewPoll, NoPoll, Poll, PollPoints

LEMMA NoPollFacts == NoPoll \in Poll /\ NoPoll.pc = "none"
  BY DEF NoPoll, Poll, PollPoints

\* No log is being written once a poll is over, whether it ends or is rejected.
LEMMA EndPollKeeps ==
    ASSUME SessionOK, PollOK, NEW disabled, NEW retry, EndPoll(disabled, retry)
    PROVE  retryRequested' \in BOOLEAN /\ PollOK' /\ ~ At("log")'
  BY NewPollFacts, NoPollFacts DEF EndPoll, SessionOK, PollOK, At

LEMMA FinishKeeps ==
    ASSUME SessionOK, PollOK, NEW disabled, NEW retry, Finish(disabled, retry)
    PROVE  /\ retryRequested' \in BOOLEAN /\ start' \in Starts
           /\ PollOK' /\ ~ At("log")'
  BY EndPollKeeps DEF Finish, SessionOK, Starts

LEMMA PollGoesToKeeps ==
    ASSUME SessionOK, PollOK, NEW point \in PollPoints, PollGoesTo(point)
    PROVE  /\ retryRequested' \in BOOLEAN /\ start' \in Starts
           /\ PollOK' /\ poll'.pc = point /\ poll'.new = poll.new
  BY DEF PollGoesTo, SessionOK, PollOK, Poll

\* A step that only sets a flag of the poll in flight.
FlagsPoll == /\ poll' \in Poll /\ poll'.pc = poll.pc
             /\ poll'.new = poll.new /\ poll'.unread = poll.unread

LEMMA SetWorkingDirectoryKeeps ==
    ASSUME SessionOK, PollOK, NEW d \in Directories, NEW authoritative \in BOOLEAN,
           SetWorkingDirectory(d, authoritative)
    PROVE  /\ hasSessionStart' \in BOOLEAN /\ pollingDisabled' \in BOOLEAN /\ lapsed' \in BOOLEAN
           /\ workingDirectory' \in Directories \cup {NULL} /\ cwd' \in Directories \cup {NULL}
           /\ FlagsPoll
<1>1. CASE UNCHANGED <<workingDirectory, pollingDisabled, poll, lapsed>>
  BY <1>1 DEF SetWorkingDirectory, SessionOK, PollOK, FlagsPoll
<1>2. CASE /\ workingDirectory' = d /\ lapsed' = (cwd' \in Unanswered) /\ pollingDisabled' = FALSE
           /\ poll' = IF Busy THEN [poll EXCEPT !.moved = TRUE] ELSE poll
  <2>1. lapsed' \in BOOLEAN
    BY <1>2
  <2>2. FlagsPoll
    BY <1>2 DEF PollOK, Poll, FlagsPoll
  <2> QED
    BY <1>2, <2>1, <2>2 DEF SetWorkingDirectory, SessionOK
<1> QED
  BY <1>1, <1>2 DEF SetWorkingDirectory

LEMMA StartPollingKeeps ==
    ASSUME SessionOK, StartPolling
    PROVE  start' \in Starts /\ restartRequested' \in BOOLEAN /\ stalled' \in BOOLEAN
  BY DEF StartPolling, SessionOK, Starts

LEMMA SendsKeeps ==
    ASSUME MessagesOK, NEW messages \in SUBSET Messages, Sends(messages)
    PROVE  /\ prompted' \subseteq Messages /\ dropped' \subseteq Messages
           /\ dropped \subseteq dropped' /\ prompted \subseteq prompted'
           /\ messages \subseteq prompted' \cup dropped'
  BY DEF Sends, MessagesOK

\* What counts as seen stays accounted for while it stays and no log ends.
LEMMA SeenStays ==
    ASSUME SeenOK, seenMessageIds' = seenMessageIds,
           announced \subseteq announced', dropped \subseteq dropped',
           prompted \subseteq prompted', Queued \subseteq prompted' \cup dropped' \cup Queued',
           At("log")' <=> At("log"),
           At("log") => poll'.new = poll.new /\ poll'.unread = poll.unread
    PROVE  SeenOK'
  BY DEF SeenOK, SeenIsAnnounced, LogCounts, Logging

LEMMA SeenFlagged ==
    ASSUME SeenOK, FlagsPoll,
           UNCHANGED <<seenMessageIds, pendingPrompt, announced, prompted, dropped>>
    PROVE  SeenOK'
<1>1. Queued' = Queued /\ (At("log")' <=> At("log"))
  BY DEF Queued, FlagsPoll, At
<1> QED
  BY <1>1, SeenStays DEF FlagsPoll

LEMMA IntervalsStay ==
    ASSUME IntervalsAreOwned, active' = active, timer' = timer, intervals' = intervals
    PROVE  IntervalsAreOwned'
  BY DEF IntervalsAreOwned

-----------------------------------------------------------------------------
(* The inbox, hooks, events and the user.                                  *)

LEMMA MailStepKeeps ==
    ASSUME InboxOK, NEW p \in Paths,
           \/ \E m \in Messages, b \in Ids : Deliver(m, p, b)
           \/ \E S \in SUBSET Messages : Take(p, S),
           UNCHANGED <<status, boxes, places>>
    PROVE  /\ posted' \subseteq Messages /\ mail' \in [Messages -> Letter \cup {NULL}]
           /\ status' = status /\ boxes' = boxes /\ places' = places
<1>1. ASSUME NEW m \in Messages, NEW b \in Ids, Deliver(m, p, b)
      PROVE  /\ posted' \subseteq Messages /\ mail' \in [Messages -> Letter \cup {NULL}]
             /\ status' = status /\ boxes' = boxes /\ places' = places
  <2>1. boxes[p] \in Ids
    BY <1>1 DEF Deliver, InboxOK
  <2>2. [from |-> boxes[p], to |-> b] \in Letter
    BY <2>1 DEF Letter
  <2> QED
    BY <1>1, <2>2 DEF Deliver, InboxOK
<1>2. ASSUME NEW S \in SUBSET Messages, Take(p, S)
      PROVE  /\ posted' \subseteq Messages /\ mail' \in [Messages -> Letter \cup {NULL}]
             /\ status' = status /\ boxes' = boxes /\ places' = places
  BY <1>2 DEF Take, MailBut, InboxOK
<1> QED
  BY <1>1, <1>2

\* Whoever gets which boxes, they are boxes still.
LEMMA BoxesKeep ==
    ASSUME InboxOK, NEW P \in SUBSET Paths, NEW a \in Ids \cup {NULL}, boxes' = BoxesWith(P, a)
    PROVE  boxes' \in [Paths -> Ids \cup {NULL}]
  BY DEF BoxesWith, InboxOK

LEMMA SettleKeeps ==
    ASSUME InboxOK, NEW p \in Paths, NEW a \in Ids, Settle({p}, a), settings' = settings
    PROVE  InboxOK'
<1>1. boxes' \in [Paths -> Ids \cup {NULL}]
  BY BoxesKeep DEF Settle
<1> QED
  BY <1>1 DEF Settle, InboxOK

LEMMA AgentsKeep ==
    ASSUME InboxOK, Agents, settings' = settings
    PROVE  InboxOK'
<1>1. ASSUME NEW a \in Ids, Leave(a) PROVE InboxOK'
  BY <1>1 DEF Leave, BoxesBut, InboxOK
<1>2. ASSUME NEW a \in Ids, Return(a) PROVE InboxOK'
  <2>1. PICK P \in SUBSET Paths : boxes' = BoxesWith(P, a)
    BY <1>2 DEF Return, InboxOK
  <2>2. boxes' \in [Paths -> Ids \cup {NULL}]
    BY <2>1, BoxesKeep
  <2> QED
    BY <1>2, <2>2 DEF Return, InboxOK
<1>3. ASSUME NEW a \in Ids, Depart(a) PROVE InboxOK'
  BY <1>3 DEF Depart, BoxesBut, MailBut, InboxOK
<1>4. ASSUME NEW p \in Paths, NEW a \in Ids, Settle({p}, a) PROVE InboxOK'
  BY <1>4, SettleKeeps
<1>5. ASSUME NEW p \in Paths, NEW a \in Ids \cup {NULL}, NEW there \in BOOLEAN, Move({p}, a, there)
      PROVE  InboxOK'
  <2>1. boxes' \in [Paths -> Ids \cup {NULL}]
    BY <1>5, BoxesKeep DEF Move
  <2> QED
    BY <1>5, <2>1 DEF Move, InboxOK
<1>6. Movable \subseteq Paths
  BY NotifierAssumption
<1> QED
  BY <1>1, <1>2, <1>3, <1>4, <1>5, <1>6 DEF Agents

\* A step that leaves the poll and what counts as seen alone.
LEMMA MessagesStay ==
    ASSUME PollOK, MessagesOK, SeenOK, poll' = poll, seenMessageIds' = seenMessageIds,
           announced' = announced, prompted' = prompted, dropped' = dropped,
           pendingPrompt' = pendingPrompt
    PROVE  PollOK' /\ MessagesOK' /\ SeenOK'
  BY DEF PollOK, MessagesOK, SeenOK, SeenIsAnnounced, LogCounts, Logging, Queued, At

LEMMA InboxKeeps == IInv /\ Inbox => IInv'
<1> SUFFICES ASSUME IInv, Inbox PROVE IInv'
  OBVIOUS
<1>1. /\ InboxOK /\ SessionOK /\ PollOK /\ MessagesOK /\ IntervalsAreOwned /\ SeenOK
  BY DEF IInv
<1>2. /\ settings' = settings /\ UNCHANGED session
      /\ lapsed' = (lapsed \/ cwd \in Unanswered')
      /\ UNCHANGED <<retryRequested, restartRequested, pollingDisabled, hasSessionStart,
                     workingDirectory, warned, seenMessageIds, pendingPrompt, timer, intervals,
                     poll, start, hooks, announced, prompted, dropped, cwd, stalled>>
  BY DEF Inbox
<1>3. InboxOK'
  <2>1. CASE Mails
    <3>1. \E p \in Paths : \/ \E m \in Messages, b \in Ids : Deliver(m, p, b)
                           \/ \E S \in SUBSET Messages : Take(p, S)
      <4>1. \A r \in Routes : r[1] \in Paths /\ r[2] \in Ids
        BY NotifierAssumption
      <4> QED
        BY <2>1, <4>1 DEF Mails
    <3> QED
      BY <1>1, <1>2, <2>1, <3>1, MailStepKeeps DEF Mails, InboxOK
  <2>2. CASE Agents
    BY <1>1, <1>2, <2>2, AgentsKeep
  <2> QED
    BY <2>1, <2>2 DEF Inbox
<1>4. SessionOK'
  BY <1>1, <1>2 DEF SessionOK, session
<1>5. IntervalsAreOwned'
  BY <1>1, <1>2, IntervalsStay DEF session
<1> QED
  BY <1>1, <1>2, <1>3, <1>4, <1>5, MessagesStay DEF IInv

LEMMA MetadataKeeps ==
    ASSUME IInv, NEW d \in Directories, Metadata(d)
    PROVE  IInv'
<1>1. /\ InboxOK /\ SessionOK /\ PollOK /\ MessagesOK /\ IntervalsAreOwned /\ SeenOK
  BY DEF IInv
<1>2. /\ UNCHANGED <<inbox, active, idle, hasObservedWork, retryRequested, warned, seenMessageIds,
                     pendingPrompt, timer, intervals, announced, prompted, dropped>>
      /\ hooks' \subseteq hooks
  BY DEF Metadata
<1>3. /\ hasSessionStart' \in BOOLEAN /\ pollingDisabled' \in BOOLEAN /\ lapsed' \in BOOLEAN
      /\ workingDirectory' \in Directories \cup {NULL} /\ cwd' \in Directories \cup {NULL}
      /\ FlagsPoll /\ start' \in Starts /\ restartRequested' \in BOOLEAN /\ stalled' \in BOOLEAN
  <2>1. CASE SetWorkingDirectory(d, FALSE) /\ StartPolling
    BY <1>1, <2>1, SetWorkingDirectoryKeeps, StartPollingKeeps
  <2>2. CASE UNCHANGED <<hasSessionStart, workingDirectory, pollingDisabled, poll, lapsed, cwd,
                         stalled, start, restartRequested>>
    BY <1>1, <2>2 DEF SessionOK, PollOK, FlagsPoll
  <2> QED
    BY <2>1, <2>2 DEF Metadata
<1>4. InboxOK' /\ MessagesOK'
  BY <1>1, <1>2 DEF InboxOK, MessagesOK, inbox, mailbox
<1>5. SessionOK'
  BY <1>1, <1>2, <1>3 DEF SessionOK
<1>6. PollOK' /\ SeenOK'
  BY <1>1, <1>2, <1>3, SeenFlagged DEF FlagsPoll, PollOK
<1>7. IntervalsAreOwned'
  BY <1>1, <1>2, IntervalsStay
<1> QED
  BY <1>4, <1>5, <1>6, <1>7 DEF IInv

LEMMA OnSessionStartKeeps ==
    ASSUME IInv, NEW d \in Directories, OnSessionStart(d)
    PROVE  IInv'
<1>1. /\ InboxOK /\ SessionOK /\ PollOK /\ MessagesOK /\ IntervalsAreOwned /\ SeenOK
  BY DEF IInv
<1>2. /\ UNCHANGED <<inbox, active, idle, hasObservedWork, retryRequested, warned, seenMessageIds,
                     pendingPrompt, timer, intervals, hooks, announced, prompted, dropped>>
  BY DEF OnSessionStart
<1>3. /\ hasSessionStart' \in BOOLEAN /\ pollingDisabled' \in BOOLEAN /\ lapsed' \in BOOLEAN
      /\ workingDirectory' \in Directories \cup {NULL} /\ cwd' \in Directories \cup {NULL}
      /\ FlagsPoll /\ start' \in Starts /\ restartRequested' \in BOOLEAN /\ stalled' \in BOOLEAN
  BY <1>1, SetWorkingDirectoryKeeps, StartPollingKeeps DEF OnSessionStart
<1>4. InboxOK' /\ MessagesOK'
  BY <1>1, <1>2 DEF InboxOK, MessagesOK, inbox, mailbox
<1>5. SessionOK'
  BY <1>1, <1>2, <1>3 DEF SessionOK
<1>6. PollOK' /\ SeenOK'
  BY <1>1, <1>2, <1>3, SeenFlagged DEF FlagsPoll, PollOK
<1>7. IntervalsAreOwned'
  BY <1>1, <1>2, IntervalsStay
<1> QED
  BY <1>4, <1>5, <1>6, <1>7 DEF IInv

LEMMA OnUserPromptSubmittedKeeps == IInv /\ OnUserPromptSubmitted => IInv'
<1> SUFFICES ASSUME IInv, OnUserPromptSubmitted PROVE IInv'
  OBVIOUS
<1>1. /\ InboxOK /\ SessionOK /\ PollOK /\ MessagesOK /\ IntervalsAreOwned /\ SeenOK
  BY DEF IInv
<1>2. /\ hasObservedWork' = TRUE /\ idle' = FALSE
      /\ UNCHANGED <<inbox, active, retryRequested, restartRequested, pollingDisabled,
                     hasSessionStart, workingDirectory, warned, seenMessageIds, pendingPrompt,
                     timer, intervals, poll, start, hooks, history>>
  BY DEF OnUserPromptSubmitted
<1>3. InboxOK' /\ SessionOK'
  BY <1>1, <1>2 DEF InboxOK, SessionOK, inbox, mailbox, history
<1>4. IntervalsAreOwned'
  BY <1>1, <1>2, IntervalsStay
<1> QED
  BY <1>1, <1>2, <1>3, <1>4, MessagesStay DEF IInv, history

LEMMA RegisterKeeps == IInv /\ Register => IInv'
<1> SUFFICES ASSUME IInv, Register PROVE IInv'
  OBVIOUS
<1>1. /\ InboxOK /\ SessionOK /\ PollOK /\ MessagesOK /\ IntervalsAreOwned /\ SeenOK
  BY DEF IInv
<1>2. /\ UNCHANGED <<settings, session, retryRequested, restartRequested, pollingDisabled,
                     hasSessionStart, workingDirectory, warned, seenMessageIds, pendingPrompt,
                     timer, intervals, poll, start, announced, prompted, dropped, cwd, stalled>>
      /\ hooks' = hooks \cup {"register"} /\ lapsed' = (cwd \in Unanswered')
      /\ workingDirectory \in Paths
  BY <1>1, NotifierAssumption DEF Register, SessionOK
<1>3. InboxOK'
  BY <1>1, <1>2, SettleKeeps DEF Register, InboxOK, mailbox
<1>4. SessionOK'
  BY <1>1, <1>2 DEF SessionOK, session
<1>5. IntervalsAreOwned'
  BY <1>1, <1>2, IntervalsStay DEF session
<1> QED
  BY <1>1, <1>2, <1>3, <1>4, <1>5, MessagesStay DEF IInv

LEMMA OnPostToolUseKeeps == IInv /\ OnPostToolUse => IInv'
<1> SUFFICES ASSUME IInv, OnPostToolUse PROVE IInv'
  OBVIOUS
<1>1. /\ InboxOK /\ SessionOK /\ PollOK /\ MessagesOK /\ IntervalsAreOwned /\ SeenOK
  BY DEF IInv
<1>2. /\ UNCHANGED <<inbox, active, workingDirectory, idle, hasObservedWork, retryRequested,
                     hasSessionStart, seenMessageIds, pendingPrompt, timer, intervals,
                     announced, prompted, dropped, cwd, lapsed>>
      /\ hooks' \subseteq hooks /\ pollingDisabled' = FALSE /\ warned' = {}
  BY DEF OnPostToolUse
<1>3. FlagsPoll
  BY <1>1 DEF OnPostToolUse, FlagsPoll, PollOK, Poll
<1>4. start' \in Starts /\ restartRequested' \in BOOLEAN /\ stalled' \in BOOLEAN
  BY <1>1, StartPollingKeeps DEF OnPostToolUse
<1>5. InboxOK' /\ MessagesOK'
  BY <1>1, <1>2 DEF InboxOK, MessagesOK, inbox, mailbox
<1>6. SessionOK'
  BY <1>1, <1>2, <1>4 DEF SessionOK
<1>7. PollOK' /\ SeenOK'
  BY <1>1, <1>2, <1>3, SeenFlagged DEF FlagsPoll, PollOK
<1>8. IntervalsAreOwned'
  BY <1>1, <1>2, IntervalsStay
<1> QED
  BY <1>5, <1>6, <1>7, <1>8 DEF IInv

\* The end of the session takes the interval with it, and nobody's after it.
LEMMA OnSessionEndKeeps == IInv /\ OnSessionEnd => IInv'
<1> SUFFICES ASSUME IInv, OnSessionEnd PROVE IInv'
  OBVIOUS
<1>1. /\ InboxOK /\ SessionOK /\ PollOK /\ MessagesOK /\ IntervalsAreOwned /\ SeenOK
  BY DEF IInv
<1>2. /\ active' = FALSE /\ ClearInterval /\ active
      /\ UNCHANGED <<inbox, idle, hasObservedWork, retryRequested, restartRequested,
                     pollingDisabled, hasSessionStart, workingDirectory, warned, seenMessageIds,
                     pendingPrompt, timer, poll, start, hooks, history>>
  BY DEF OnSessionEnd
<1>3. InboxOK' /\ SessionOK'
  BY <1>1, <1>2 DEF InboxOK, SessionOK, inbox, mailbox, history
<1>4. IntervalsAreOwned'
  BY <1>1, <1>2 DEF IntervalsAreOwned, ClearInterval
<1> QED
  BY <1>1, <1>2, <1>3, <1>4, MessagesStay DEF IInv, history

LEMMA SessionIdleKeeps == IInv /\ SessionIdle => IInv'
<1> SUFFICES ASSUME IInv, SessionIdle PROVE IInv'
  OBVIOUS
<1>1. /\ InboxOK /\ SessionOK /\ PollOK /\ MessagesOK /\ IntervalsAreOwned /\ SeenOK
  BY DEF IInv
<1>2. UNCHANGED <<inbox, active, hasObservedWork, retryRequested, restartRequested,
                  pollingDisabled, hasSessionStart, workingDirectory, warned, seenMessageIds,
                  timer, intervals, poll, start, hooks, announced, cwd, lapsed, stalled>>
  BY DEF SessionIdle
<1>3. /\ idle' \in BOOLEAN /\ prompted' \subseteq Messages /\ dropped' \subseteq Messages
      /\ dropped \subseteq dropped' /\ prompted \subseteq prompted'
      /\ pendingPrompt' = NULL \/ pendingPrompt' \subseteq Messages
      /\ Queued \subseteq prompted' \cup dropped' \cup Queued'
  <2>1. CASE pendingPrompt # NULL
    <3>1. pendingPrompt \in SUBSET Messages /\ Sends(pendingPrompt)
      BY <1>1, <2>1 DEF SessionIdle, MessagesOK
    <3> QED
      BY <1>1, <2>1, <3>1, SendsKeeps DEF SessionIdle, SessionOK, Queued
  <2>2. CASE pendingPrompt = NULL
    BY <1>1, <2>2 DEF SessionIdle, MessagesOK, Queued
  <2> QED
    BY <2>1, <2>2
<1>4. InboxOK' /\ SessionOK'
  BY <1>1, <1>2, <1>3 DEF InboxOK, SessionOK, inbox, mailbox
<1>5. MessagesOK' /\ PollOK'
  BY <1>1, <1>2, <1>3 DEF MessagesOK, PollOK
<1>6. SeenOK'
  BY <1>1, <1>2, <1>3, SeenStays DEF At
<1>7. IntervalsAreOwned'
  BY <1>1, <1>2, IntervalsStay
<1> QED
  BY <1>4, <1>5, <1>6, <1>7 DEF IInv

-----------------------------------------------------------------------------
(* startPolling and the interval.                                          *)

\* No action of the extension's own writes to the inbox.
LEMMA InboxStays ==
    ASSUME InboxOK, UNCHANGED inbox
    PROVE  InboxOK'
  BY DEF InboxOK, inbox, mailbox

\* A step that writes no log and sends no prompt.
LEMMA SeenAndMessagesStay ==
    ASSUME MessagesOK, SeenOK,
           UNCHANGED <<seenMessageIds, pendingPrompt, announced, prompted, dropped>>,
           poll' = poll \/ (~ At("log") /\ ~ At("log")')
    PROVE  MessagesOK' /\ SeenOK'
<1>1. MessagesOK'
  BY DEF MessagesOK
<1>2. SeenOK'
  BY DEF SeenOK, SeenIsAnnounced, LogCounts, Logging, Queued, At
<1> QED
  BY <1>1, <1>2

\* An interval starts only where none ticks: nobody else set the timer meanwhile.
LEMMA StartLoadedKeeps == IInv /\ StartLoaded => IInv'
<1> SUFFICES ASSUME IInv, StartLoaded PROVE IInv'
  OBVIOUS
<1>1. /\ InboxOK /\ SessionOK /\ PollOK /\ MessagesOK /\ IntervalsAreOwned /\ SeenOK
  BY DEF IInv
<1>2. UNCHANGED <<inbox, session, retryRequested, restartRequested, pollingDisabled,
                  hasSessionStart, workingDirectory, warned, seenMessageIds, pendingPrompt,
                  hooks, history>>
  BY DEF StartLoaded
<1>3. /\ start' \in Starts /\ timer' \in BOOLEAN
      /\ IntervalsAreOwned' /\ PollOK' /\ (poll' = poll \/ (~ At("log") /\ ~ At("log")'))
  <2>1. start' \in Starts /\ timer' \in BOOLEAN
    BY <1>1 DEF StartLoaded, Starts, SessionOK
  <2>2. IntervalsAreOwned'
    BY <1>1, <1>2 DEF StartLoaded, IntervalsAreOwned, SessionOK, session
  <2>3. \/ poll' = poll
        \/ ~ Busy /\ poll' = NewPoll("start")
    BY DEF StartLoaded
  <2>4. PollOK' /\ (poll' = poll \/ (~ At("log") /\ ~ At("log")'))
    BY <1>1, <2>3, NewPollFacts DEF PollOK, Busy, At
  <2> QED
    BY <2>1, <2>2, <2>4
<1>4. SessionOK'
  BY <1>1, <1>2, <1>3 DEF SessionOK, session, history
<1>5. MessagesOK' /\ SeenOK'
  BY <1>1, <1>2, <1>3, SeenAndMessagesStay DEF history
<1> QED
  BY <1>1, <1>2, <1>3, <1>4, <1>5, InboxStays DEF IInv

\* A step of the start in flight that sets no timer and begins no poll.
LEMMA StartKeeps ==
    ASSUME IInv, start' \in Starts, restartRequested' \in BOOLEAN, stalled' \in BOOLEAN,
           UNCHANGED <<inbox, session, retryRequested, pollingDisabled, hasSessionStart,
                       workingDirectory, warned, seenMessageIds, pendingPrompt, timer, intervals,
                       poll, hooks, announced, prompted, dropped, cwd, lapsed>>
    PROVE  IInv'
<1>1. /\ InboxOK /\ SessionOK /\ PollOK /\ MessagesOK /\ IntervalsAreOwned /\ SeenOK
  BY DEF IInv
<1>2. SessionOK'
  BY <1>1 DEF SessionOK, session
<1>3. IntervalsAreOwned'
  BY <1>1, IntervalsStay DEF session
<1> QED
  BY <1>1, <1>2, <1>3, InboxStays, MessagesStay DEF IInv

LEMMA StartSettlesKeeps == IInv /\ StartSettles => IInv'
<1> SUFFICES ASSUME IInv, StartSettles PROVE IInv'
  OBVIOUS
<1>1. start' \in Starts /\ restartRequested' \in BOOLEAN /\ stalled' \in BOOLEAN
  BY DEF StartSettles, Starts, IInv, SessionOK
<1> QED
  BY <1>1, StartKeeps DEF StartSettles

LEMMA StartRejectedKeeps == IInv /\ StartRejected => IInv'
<1> SUFFICES ASSUME IInv, StartRejected PROVE IInv'
  OBVIOUS
<1>1. start' \in Starts /\ restartRequested' \in BOOLEAN /\ stalled' \in BOOLEAN
  BY DEF StartRejected, Starts, IInv, SessionOK, history
<1> QED
  BY <1>1, StartKeeps DEF StartRejected, history

LEMMA StartFailsKeeps == IInv /\ StartFails => IInv'
<1> SUFFICES ASSUME IInv, StartFails PROVE IInv'
  OBVIOUS
<1>1. start' \in Starts /\ restartRequested' \in BOOLEAN /\ stalled' \in BOOLEAN
  BY DEF StartFails, Starts, IInv, SessionOK
<1> QED
  BY <1>1, StartKeeps DEF StartFails

LEMMA TickKeeps == IInv /\ Tick => IInv'
<1> SUFFICES ASSUME IInv, Tick PROVE IInv'
  OBVIOUS
<1>1. /\ InboxOK /\ SessionOK /\ PollOK /\ MessagesOK /\ IntervalsAreOwned /\ SeenOK
  BY DEF IInv
<1>2. /\ UNCHANGED <<inbox, session, retryRequested, restartRequested, pollingDisabled,
                     hasSessionStart, workingDirectory, warned, seenMessageIds, pendingPrompt,
                     timer, intervals, start, hooks, history>>
      /\ poll' = NewPoll("tick") /\ ~ Busy
  BY DEF Tick
<1>3. PollOK' /\ ~ At("log") /\ ~ At("log")'
  BY <1>1, <1>2, NewPollFacts DEF PollOK, At, Busy
<1>4. SessionOK'
  BY <1>1, <1>2 DEF SessionOK, session, history
<1>5. MessagesOK' /\ SeenOK'
  BY <1>1, <1>2, <1>3, SeenAndMessagesStay DEF history
<1>6. IntervalsAreOwned'
  BY <1>1, <1>2, IntervalsStay DEF session
<1> QED
  BY <1>1, <1>2, <1>3, <1>4, <1>5, <1>6, InboxStays DEF IInv

-----------------------------------------------------------------------------
(* pollInbox after its first await.                                        *)

\* disablePolling clears the one interval there can be, and forgets its handle.
LEMMA DisablePollingKeeps ==
    ASSUME SessionOK, PollOK, IntervalsAreOwned, active' = active,
           NEW reason \in {"registration", "configuration"}, DisablePolling(reason)
    PROVE  /\ pollingDisabled' \in BOOLEAN /\ timer' \in BOOLEAN /\ retryRequested' \in BOOLEAN
           /\ warned' \subseteq {"registration", "configuration"} /\ start' \in Starts
           /\ PollOK' /\ ~ At("log")' /\ IntervalsAreOwned'
<1>1. /\ pollingDisabled' \in BOOLEAN /\ timer' \in BOOLEAN
      /\ warned' \subseteq {"registration", "configuration"}
  BY DEF DisablePolling, SessionOK
<1>2. IntervalsAreOwned'
  BY DEF DisablePolling, ClearInterval, IntervalsAreOwned
<1>3. retryRequested' \in BOOLEAN /\ start' \in Starts /\ PollOK' /\ ~ At("log")'
  <2>1. CASE Finish(TRUE, retryRequested)
    BY <2>1, FinishKeeps
  <2>2. CASE PollGoesTo("warning")
    <3>1. "warning" \in PollPoints
      BY DEF PollPoints
    <3> QED
      BY <2>2, <3>1, PollGoesToKeeps DEF At
  <2> QED
    BY <2>1, <2>2 DEF DisablePolling
<1> QED
  BY <1>1, <1>2, <1>3

\* What a step of a poll that logs nothing may change.
PollStepOK == /\ pollingDisabled' \in BOOLEAN /\ timer' \in BOOLEAN /\ retryRequested' \in BOOLEAN
              /\ warned' \subseteq {"registration", "configuration"} /\ start' \in Starts
              /\ PollOK' /\ ~ At("log")' /\ IntervalsAreOwned'

\* ... and then everything else stays as it was.
LEMMA PollStepKeeps ==
    ASSUME InboxOK, SessionOK, PollOK, MessagesOK, IntervalsAreOwned, SeenOK,
           PollStepOK, ~ At("log"),
           UNCHANGED <<inbox, session, restartRequested, hasSessionStart, workingDirectory,
                       seenMessageIds, pendingPrompt, hooks, history>>
    PROVE  IInv'
<1>1. InboxOK'
  BY InboxStays
<1>2. SessionOK'
  BY DEF SessionOK, PollStepOK, session, history
<1>3. MessagesOK' /\ SeenOK'
  BY SeenAndMessagesStay DEF PollStepOK, history
<1> QED
  BY <1>1, <1>2, <1>3 DEF IInv, PollStepOK

\* Steps that leave the timer and the warnings alone: the poll is over, or goes on
\* to its warning.
LEMMA EndPollIsPollStep ==
    ASSUME SessionOK, PollOK, IntervalsAreOwned, active' = active,
           NEW disabled, NEW retry, EndPoll(disabled, retry), start' \in Starts,
           UNCHANGED <<pollingDisabled, timer, intervals, warned>>
    PROVE  PollStepOK
<1>1. IntervalsAreOwned'
  BY IntervalsStay
<1> QED
  BY <1>1, EndPollKeeps DEF PollStepOK, SessionOK

LEMMA FinishIsPollStep ==
    ASSUME SessionOK, PollOK, IntervalsAreOwned, active' = active,
           NEW disabled, NEW retry, Finish(disabled, retry),
           UNCHANGED <<pollingDisabled, timer, intervals, warned>>
    PROVE  PollStepOK
  BY FinishKeeps, EndPollIsPollStep DEF Finish

LEMMA WarningIsPollStep ==
    ASSUME SessionOK, PollOK, IntervalsAreOwned, active' = active, PollGoesTo("warning"),
           UNCHANGED <<pollingDisabled, timer, intervals, warned>>
    PROVE  PollStepOK
<1>1. retryRequested' \in BOOLEAN /\ start' \in Starts /\ PollOK' /\ ~ At("log")'
  BY PollGoesToKeeps DEF PollPoints, At
<1>2. IntervalsAreOwned'
  BY IntervalsStay
<1> QED
  BY <1>1, <1>2 DEF PollStepOK, SessionOK

LEMMA DisablePollingIsPollStep ==
    ASSUME SessionOK, PollOK, IntervalsAreOwned, active' = active,
           NEW reason \in {"registration", "configuration"}, DisablePolling(reason)
    PROVE  PollStepOK
  BY DisablePollingKeeps DEF PollStepOK

LEMMA PollSettingsKeeps == IInv /\ PollSettings => IInv'
<1> SUFFICES ASSUME IInv, PollSettings PROVE IInv'
  OBVIOUS
<1>1. /\ InboxOK /\ SessionOK /\ PollOK /\ MessagesOK /\ IntervalsAreOwned /\ SeenOK
  BY DEF IInv
<1>2. /\ UNCHANGED <<inbox, session, restartRequested, hasSessionStart, workingDirectory,
                     seenMessageIds, pendingPrompt, hooks, history>>
      /\ ~ At("log") /\ active' = active
  BY DEF PollSettings, At, session
<1>3. PollStepOK
  <2>1. CASE /\ Finish(pollingDisabled, retryRequested)
             /\ UNCHANGED <<pollingDisabled, timer, intervals, warned>>
    BY <1>1, <1>2, <2>1, FinishIsPollStep
  <2>2. CASE DisablePolling("configuration")
    BY <1>1, <1>2, <2>2, DisablePollingIsPollStep
  <2> QED
    BY <2>1, <2>2 DEF PollSettings
<1> QED
  BY <1>1, <1>2, <1>3, PollStepKeeps

LEMMA NotRegisteredKeeps == IInv /\ NotRegistered => IInv'
<1> SUFFICES ASSUME IInv, NotRegistered PROVE IInv'
  OBVIOUS
<1>1. /\ InboxOK /\ SessionOK /\ PollOK /\ MessagesOK /\ IntervalsAreOwned /\ SeenOK
  BY DEF IInv
<1>2. /\ UNCHANGED <<inbox, session, restartRequested, hasSessionStart, workingDirectory,
                     seenMessageIds, pendingPrompt, hooks, history>>
      /\ ~ At("log") /\ active' = active
  BY DEF NotRegistered, At, session
<1>3. PollStepOK
  <2>1. CASE /\ Finish(pollingDisabled, TRUE)
             /\ UNCHANGED <<pollingDisabled, timer, intervals, warned>>
    BY <1>1, <1>2, <2>1, FinishIsPollStep
  <2>2. CASE DisablePolling("registration")
    BY <1>1, <1>2, <2>2, DisablePollingIsPollStep
  <2> QED
    BY <2>1, <2>2 DEF NotRegistered
<1> QED
  BY <1>1, <1>2, <1>3, PollStepKeeps

LEMMA PollEndsKeeps == IInv /\ PollEnds => IInv'
<1> SUFFICES ASSUME IInv, PollEnds PROVE IInv'
  OBVIOUS
<1>1. /\ InboxOK /\ SessionOK /\ PollOK /\ MessagesOK /\ IntervalsAreOwned /\ SeenOK
  BY DEF IInv
<1>2. /\ UNCHANGED <<inbox, session, restartRequested, hasSessionStart, workingDirectory,
                     seenMessageIds, pendingPrompt, hooks, history>>
      /\ ~ At("log") /\ active' = active
  BY DEF PollEnds, At, session
<1>3. PollStepOK
  BY <1>1, <1>2, FinishIsPollStep DEF PollEnds
<1> QED
  BY <1>1, <1>2, <1>3, PollStepKeeps

LEMMA PollQueryKeeps == IInv /\ PollQuery => IInv'
<1> SUFFICES ASSUME IInv, PollQuery PROVE IInv'
  OBVIOUS
<1>1. /\ InboxOK /\ SessionOK /\ PollOK /\ MessagesOK /\ IntervalsAreOwned /\ SeenOK
  BY DEF IInv
<1>2. /\ UNCHANGED <<inbox, session, restartRequested, hasSessionStart, workingDirectory,
                     seenMessageIds, pendingPrompt, hooks, history>>
      /\ UNCHANGED <<pollingDisabled, timer, intervals, warned, retryRequested, start>>
      /\ ~ At("log") /\ active' = active
  BY DEF PollQuery, At, session
<1>3. PollOK' /\ ~ At("log")'
  BY <1>1, UnreadIsMail DEF PollQuery, PollOK, Poll, PollPoints, At
<1>4. IntervalsAreOwned'
  BY <1>1, <1>2, IntervalsStay
<1>5. PollStepOK
  BY <1>1, <1>2, <1>3, <1>4 DEF PollStepOK, SessionOK
<1> QED
  BY <1>1, <1>2, <1>5, PollStepKeeps

LEMMA DirectoryMissingKeeps == IInv /\ DirectoryMissing => IInv'
<1> SUFFICES ASSUME IInv, DirectoryMissing PROVE IInv'
  OBVIOUS
<1>1. /\ InboxOK /\ SessionOK /\ PollOK /\ MessagesOK /\ IntervalsAreOwned /\ SeenOK
  BY DEF IInv
<1>2. /\ UNCHANGED <<inbox, session, restartRequested, hasSessionStart, workingDirectory,
                     seenMessageIds, pendingPrompt, hooks, history>>
      /\ UNCHANGED <<pollingDisabled, timer, intervals, warned>>
      /\ ~ At("log") /\ active' = active
  BY DEF DirectoryMissing, At, session
<1>3. PollStepOK
  BY <1>1, <1>2, WarningIsPollStep DEF DirectoryMissing
<1> QED
  BY <1>1, <1>2, <1>3, PollStepKeeps

LEMMA PollBreaksKeeps == IInv /\ PollBreaks => IInv'
<1> SUFFICES ASSUME IInv, PollBreaks PROVE IInv'
  OBVIOUS
<1>1. /\ InboxOK /\ SessionOK /\ PollOK /\ MessagesOK /\ IntervalsAreOwned /\ SeenOK
  BY DEF IInv
<1>2. /\ UNCHANGED <<inbox, session, restartRequested, hasSessionStart, workingDirectory,
                     seenMessageIds, pendingPrompt, hooks, history>>
      /\ UNCHANGED <<pollingDisabled, timer, intervals, warned>>
      /\ ~ At("log") /\ active' = active
  BY DEF PollBreaks, At, session
<1>3. PollStepOK
  BY <1>1, <1>2, WarningIsPollStep DEF PollBreaks
<1> QED
  BY <1>1, <1>2, <1>3, PollStepKeeps

LEMMA FlushRejectedKeeps == IInv /\ FlushRejected => IInv'
<1> SUFFICES ASSUME IInv, FlushRejected PROVE IInv'
  OBVIOUS
<1>1. /\ InboxOK /\ SessionOK /\ PollOK /\ MessagesOK /\ IntervalsAreOwned /\ SeenOK
  BY DEF IInv
<1>2. /\ UNCHANGED <<inbox, session, restartRequested, hasSessionStart, workingDirectory,
                     seenMessageIds, pendingPrompt, hooks, history>>
      /\ UNCHANGED <<pollingDisabled, timer, intervals, warned>>
      /\ ~ At("log") /\ active' = active
  BY DEF FlushRejected, At, session
<1>3. PollStepOK
  BY <1>1, <1>2, WarningIsPollStep DEF FlushRejected
<1> QED
  BY <1>1, <1>2, <1>3, PollStepKeeps

LEMMA PollFailsKeeps == IInv /\ PollFails => IInv'
<1> SUFFICES ASSUME IInv, PollFails PROVE IInv'
  OBVIOUS
<1>1. /\ InboxOK /\ SessionOK /\ PollOK /\ MessagesOK /\ IntervalsAreOwned /\ SeenOK
  BY DEF IInv
<1>2. /\ UNCHANGED <<inbox, session, restartRequested, hasSessionStart, workingDirectory,
                     seenMessageIds, pendingPrompt, hooks, history>>
      /\ UNCHANGED <<pollingDisabled, timer, intervals, warned>>
      /\ ~ At("log") /\ active' = active
  BY DEF PollFails, At, session
<1>3. start' \in Starts
  BY <1>1 DEF PollFails, SessionOK, Starts
<1>4. PollStepOK
  BY <1>1, <1>2, <1>3, EndPollIsPollStep DEF PollFails
<1> QED
  BY <1>1, <1>2, <1>4, PollStepKeeps

-----------------------------------------------------------------------------
(* What a poll found out, and what becomes of it.                          *)

\* What counts as seen from now on is what was announced before, or what this poll
\* is about to log.
LEMMA SummaryKeeps == IInv /\ Summary => IInv'
<1> SUFFICES ASSUME IInv, Summary PROVE IInv'
  OBVIOUS
<1>1. /\ InboxOK /\ SessionOK /\ PollOK /\ MessagesOK /\ IntervalsAreOwned /\ SeenOK
  BY DEF IInv
<1>2. /\ UNCHANGED <<inbox, session, restartRequested, pollingDisabled, hasSessionStart,
                     workingDirectory, warned, pendingPrompt, timer, intervals, hooks, history>>
      /\ ~ At("log") /\ active' = active
  BY DEF Summary, At, session
<1> DEFINE window == Newest(poll.unread)
           new == window \ seenMessageIds
<1>3. window \in SUBSET Messages /\ Cardinality(window) <= WindowSize
  BY <1>1, WindowIsBounded DEF PollOK, Poll
<1>4. \/ Finish(pollingDisabled, TRUE) /\ seenMessageIds' = seenMessageIds
      \/ Finish(pollingDisabled, retryRequested) /\ seenMessageIds' = window /\ new = {}
      \/ /\ poll' = [poll EXCEPT !.pc = "log", !.new = new] /\ seenMessageIds' = window
         /\ UNCHANGED <<start, retryRequested>>
  BY DEF Summary
<1> HIDE DEF window
<1>5. retryRequested' \in BOOLEAN /\ start' \in Starts /\ PollOK'
  <2>1. CASE \E retry : Finish(pollingDisabled, retry)
    BY <1>1, <2>1, FinishKeeps
  <2>2. CASE /\ poll' = [poll EXCEPT !.pc = "log", !.new = new]
             /\ UNCHANGED <<start, retryRequested>>
    BY <1>1, <1>3, <2>2 DEF PollOK, Poll, PollPoints, SessionOK
  <2> QED
    BY <1>4, <2>1, <2>2
<1>6. /\ UNCHANGED <<announced, prompted, dropped, cwd, lapsed, stalled>>
  BY <1>2 DEF history
<1>7. seenMessageIds' = seenMessageIds \/ seenMessageIds' = window
  BY <1>4
<1>8. MessagesOK'
  BY <1>1, <1>2, <1>3, <1>6, <1>7 DEF MessagesOK
<1>9. SeenOK'
  <2>1. /\ seenMessageIds \subseteq announced \cup dropped
        /\ seenMessageIds \cap Urgent \subseteq prompted \cup dropped \cup Queued
        /\ Queued' = Queued
    BY <1>1, <1>2 DEF SeenOK, SeenIsAnnounced, Logging, Queued
  <2>2. CASE /\ \E retry : Finish(pollingDisabled, retry)
             /\ \/ seenMessageIds' = seenMessageIds
                \/ seenMessageIds' = window /\ new = {}
    <3>1. ~ At("log")' /\ seenMessageIds' \subseteq seenMessageIds
      BY <1>1, <2>2, FinishKeeps
    <3> QED
      BY <1>6, <2>1, <3>1 DEF SeenOK, SeenIsAnnounced, LogCounts, Logging
  <2>3. CASE poll' = [poll EXCEPT !.pc = "log", !.new = new] /\ seenMessageIds' = window
    <3>1. At("log")' /\ poll'.new = new /\ poll'.unread = poll.unread
      BY <1>1, <2>3 DEF PollOK, Poll, At
    <3>2. window \subseteq poll.unread
      BY DEF window, Newest
    <3> QED
      BY <1>6, <2>1, <2>3, <3>1, <3>2 DEF SeenOK, SeenIsAnnounced, LogCounts, Logging
  <2> QED
    BY <1>4, <2>2, <2>3
<1>10. InboxOK' /\ IntervalsAreOwned'
  BY <1>1, <1>2, InboxStays, IntervalsStay
<1>11. SessionOK'
  BY <1>1, <1>2, <1>5, <1>6 DEF SessionOK, session
<1> QED
  BY <1>5, <1>8, <1>9, <1>10, <1>11 DEF IInv

\* What a poll logs leaves it announced; the prompt is sent, rejected or queued.
LEMMA LoggedKeeps == IInv /\ Logged => IInv'
<1> SUFFICES ASSUME IInv, Logged PROVE IInv'
  OBVIOUS
<1>1. /\ InboxOK /\ SessionOK /\ PollOK /\ MessagesOK /\ IntervalsAreOwned /\ SeenOK
  BY DEF IInv
<1>2. /\ UNCHANGED <<inbox, active, hasObservedWork, restartRequested, pollingDisabled,
                     hasSessionStart, workingDirectory, warned, seenMessageIds, timer, intervals,
                     hooks, cwd, lapsed, stalled>>
      /\ announced' = announced \cup poll.new /\ At("log")
  BY DEF Logged
<1>3. poll.new \subseteq Messages /\ poll.unread \in SUBSET Messages
  BY <1>1 DEF PollOK, Poll
<1>4. retryRequested' \in BOOLEAN /\ start' \in Starts /\ PollOK'
  <2>1. CASE Finish(pollingDisabled, retryRequested)
    BY <1>1, <2>1, FinishKeeps
  <2>2. CASE PollGoesTo("sent") \/ PollGoesTo("flush")
    BY <1>1, <2>2, PollGoesToKeeps DEF PollPoints
  <2> QED
    BY <2>1, <2>2 DEF Logged
<1>5. /\ idle' \in BOOLEAN
      /\ prompted' \subseteq Messages /\ dropped' \subseteq Messages
      /\ dropped \subseteq dropped' /\ prompted \subseteq prompted'
      /\ pendingPrompt' = NULL \/ pendingPrompt' \subseteq Messages
      /\ \/ poll.new \cap Urgent = {} /\ Queued' = Queued
         \/ poll.unread \subseteq prompted' \cup dropped' \cup Queued'
  <2>1. CASE UNCHANGED <<idle, pendingPrompt, prompted, dropped>> /\ poll.new \cap Urgent = {}
    BY <1>1, <2>1 DEF SessionOK, MessagesOK, Queued
  <2>2. CASE Sends(poll.unread) /\ pendingPrompt' = NULL /\ idle' = FALSE
    BY <1>1, <1>3, <2>2, SendsKeeps
  <2>3. CASE pendingPrompt' = poll.unread /\ UNCHANGED <<idle, prompted, dropped>>
    <3>1. Queued' = poll.unread
      BY <1>3, <2>3, NotifierAssumption DEF Queued
    <3> QED
      BY <1>1, <1>3, <2>3, <3>1 DEF SessionOK, MessagesOK
  <2> QED
    BY <2>1, <2>2, <2>3 DEF Logged
<1>6. MessagesOK'
  BY <1>1, <1>2, <1>3, <1>5 DEF MessagesOK
<1>7. SeenOK'
  <2>1. ~ At("log")'
    BY <1>1, FinishKeeps, PollGoesToKeeps DEF Logged, At, PollPoints
  <2> QED
    BY <1>1, <1>2, <1>5, <2>1 DEF SeenOK, SeenIsAnnounced, LogCounts, Logging
<1>8. InboxOK' /\ IntervalsAreOwned'
  BY <1>1, <1>2, InboxStays, IntervalsStay
<1>9. SessionOK'
  BY <1>1, <1>2, <1>4, <1>5 DEF SessionOK
<1> QED
  BY <1>4, <1>6, <1>7, <1>8, <1>9 DEF IInv

LEMMA LogRejectedKeeps == IInv /\ LogRejected => IInv'
<1> SUFFICES ASSUME IInv, LogRejected PROVE IInv'
  OBVIOUS
<1>1. /\ InboxOK /\ SessionOK /\ PollOK /\ MessagesOK /\ IntervalsAreOwned /\ SeenOK
  BY DEF IInv
<1>2. /\ UNCHANGED <<inbox, session, restartRequested, pollingDisabled, hasSessionStart,
                     workingDirectory, warned, seenMessageIds, pendingPrompt, timer, intervals,
                     hooks, announced, prompted, cwd, lapsed, stalled>>
      /\ dropped' = dropped \cup poll.new /\ PollGoesTo("warning") /\ active' = active
  BY DEF LogRejected, session
<1>3. retryRequested' \in BOOLEAN /\ start' \in Starts /\ PollOK'
  BY <1>1, <1>2, PollGoesToKeeps DEF PollPoints
<1>4. MessagesOK'
  BY <1>1, <1>2 DEF MessagesOK, PollOK, Poll
<1>5. SeenOK'
  <2>1. ~ At("log")' /\ Queued' = Queued
    BY <1>1, <1>2, PollGoesToKeeps DEF At, PollPoints, Queued
  <2> QED
    BY <1>1, <1>2, <2>1 DEF SeenOK, SeenIsAnnounced, LogCounts, Logging
<1>6. InboxOK' /\ IntervalsAreOwned'
  BY <1>1, <1>2, InboxStays, IntervalsStay
<1>7. SessionOK'
  BY <1>1, <1>2, <1>3 DEF SessionOK, session
<1> QED
  BY <1>3, <1>4, <1>5, <1>6, <1>7 DEF IInv

-----------------------------------------------------------------------------
(* The theorems.                                                           *)

LEMMA SessionBegins == Init => IInv
<1> SUFFICES ASSUME Init PROVE IInv
  OBVIOUS
<1>1. PICK s \in Situations : status = s.status /\ boxes = s.boxes /\ settings = s.settings
  BY DEF Init
<1>2. s \in Situation
  BY NotifierAssumption
<1>3. InboxOK
  BY <1>1, <1>2 DEF Init, InboxOK, Situation
<1>4. SessionOK
  BY DEF Init, SessionOK, Starts
<1>5. PollOK
  BY NoPollFacts DEF Init, PollOK
<1>6. MessagesOK
  BY FS_EmptySet, NotifierAssumption DEF Init, MessagesOK
<1>7. IntervalsAreOwned /\ SeenOK
  BY NoPollFacts DEF Init, IntervalsAreOwned, SeenOK, SeenIsAnnounced, LogCounts, Logging, Queued, At
<1> QED
  BY <1>3, <1>4, <1>5, <1>6, <1>7 DEF IInv

LEMMA StutterKeeps == IInv /\ UNCHANGED vars => IInv'
<1> SUFFICES ASSUME IInv, UNCHANGED vars PROVE IInv'
  OBVIOUS
<1>1. /\ InboxOK /\ SessionOK /\ PollOK /\ MessagesOK /\ IntervalsAreOwned /\ SeenOK
  BY DEF IInv
<1>2. UNCHANGED <<inbox, session, retryRequested, restartRequested, pollingDisabled,
                  hasSessionStart, workingDirectory, warned, seenMessageIds, pendingPrompt,
                  timer, intervals, poll, start, hooks, history>>
  BY DEF vars
<1>3. SessionOK'
  BY <1>1, <1>2 DEF SessionOK, session, history
<1>4. IntervalsAreOwned'
  BY <1>1, <1>2, IntervalsStay DEF session
<1>5. PollOK'
  BY <1>1, <1>2 DEF PollOK
<1> QED
  BY <1>1, <1>2, <1>3, <1>4, <1>5, InboxStays, SeenAndMessagesStay DEF IInv, history

LEMMA NotifierStep == IInv /\ [Next]_vars => IInv'
<1> SUFFICES ASSUME IInv, [Next]_vars PROVE IInv'
  OBVIOUS
<1>1. ASSUME NEW d \in Directories, Metadata(d) \/ OnSessionStart(d) PROVE IInv'
  BY <1>1, MetadataKeeps, OnSessionStartKeeps
<1>2. CASE Inbox
  BY <1>2, InboxKeeps
<1>3. CASE OnUserPromptSubmitted \/ Register \/ OnPostToolUse \/ OnSessionEnd \/ SessionIdle
  BY <1>3, OnUserPromptSubmittedKeeps, RegisterKeeps, OnPostToolUseKeeps, OnSessionEndKeeps,
     SessionIdleKeeps
<1>4. CASE Continue
  BY <1>4, StartLoadedKeeps, StartSettlesKeeps, StartFailsKeeps, PollSettingsKeeps, PollQueryKeeps,
     DirectoryMissingKeeps, NotRegisteredKeeps, SummaryKeeps, LoggedKeeps, PollEndsKeeps
  DEF Continue
<1>5. CASE Tick \/ Fails
  BY <1>5, TickKeeps, PollBreaksKeeps, LogRejectedKeeps, FlushRejectedKeeps, PollFailsKeeps,
     StartRejectedKeeps
  DEF Fails
<1>6. CASE UNCHANGED vars
  BY <1>6, StutterKeeps
<1> QED
  BY <1>1, <1>2, <1>3, <1>4, <1>5, <1>6 DEF Next

\* Every step of hooks, ticks, polls and starts, in any order, keeps the invariant.
THEOREM NotifierInductive == Spec => []IInv
<1> QED
  BY SessionBegins, NotifierStep, PTL DEF Spec

\* What the session holds is of the kind the code takes it to be, and the messages that
\* count as seen never outgrow the window of inbox_summary, whatever arrives.
THEOREM NotifierTyped == Spec => []TypeOK
<1>1. IInv => TypeOK
  BY DEF IInv, InboxOK, SessionOK, PollOK, Poll, MessagesOK, IntervalsAreOwned, TypeOK, Starts
<1> QED
  BY <1>1, NotifierInductive, PTL

\* However starts, failed registrations and the end of the session overlap, the session
\* has one interval exactly while it is active and holds its handle.
THEOREM IntervalsOwned == Spec => []IntervalsAreOwned
<1>1. IInv => IntervalsAreOwned
  BY DEF IInv
<1> QED
  BY <1>1, NotifierInductive, PTL

\* A message counts as seen only if it was logged, is being logged, or the session
\* rejected it: a late, moved or failed poll swallows none.
THEOREM SeenAnnounced == Spec => []SeenIsAnnounced
<1>1. IInv => SeenIsAnnounced
  BY DEF IInv, SeenOK
<1> QED
  BY <1>1, NotifierInductive, PTL

-----------------------------------------------------------------------------
(* Whose mail counts as seen.                                              *)

\* A poll that was not told of a move asks about the directory the session works in.
PollIsLocal == Busy /\ ~ poll.moved => poll.dir = workingDirectory

\* A summary moves what counts as seen only if it is of the session's own directory.
SeenIsLocal == [][seenMessageIds' # seenMessageIds => poll.dir = workingDirectory]_vars

\* A poll that ends leaves none, or one that begins where the session is.
LEMMA EndPollIsLocal ==
    ASSUME NEW disabled, NEW retry, EndPoll(disabled, retry), workingDirectory' = workingDirectory
    PROVE  PollIsLocal'
  BY DEF EndPoll, PollIsLocal, Busy, NewPoll, NoPoll

\* A poll that goes on does not forget that the session moved.
LEMMA GoingOnIsLocal ==
    ASSUME PollIsLocal, workingDirectory' = workingDirectory,
           poll'.dir = poll.dir, poll'.moved = poll.moved, Busy
    PROVE  PollIsLocal'
  BY DEF PollIsLocal

LEMMA MoveIsLocal ==
    ASSUME PollOK, PollIsLocal, NEW d, NEW authoritative, SetWorkingDirectory(d, authoritative)
    PROVE  PollIsLocal'
<1>1. CASE UNCHANGED <<workingDirectory, poll>>
  BY <1>1 DEF PollIsLocal, Busy
<1>2. CASE ~ Busy /\ poll' = poll
  BY <1>2 DEF PollIsLocal, Busy
<1>3. CASE poll' = [poll EXCEPT !.moved = TRUE]
  <2>1. poll'.moved = TRUE
    BY <1>3 DEF PollOK, Poll
  <2> QED
    BY <2>1 DEF PollIsLocal
<1> QED
  BY <1>1, <1>2, <1>3 DEF SetWorkingDirectory

LEMMA PollStepIsLocal ==
    ASSUME PollOK, PollIsLocal, workingDirectory' = workingDirectory, Busy,
           \/ \E disabled, retry : EndPoll(disabled, retry)
           \/ \E point : PollGoesTo(point)
    PROVE  PollIsLocal'
<1>1. CASE \E disabled, retry : EndPoll(disabled, retry)
  BY <1>1, EndPollIsLocal
<1>2. CASE \E point : PollGoesTo(point)
  BY <1>2, GoingOnIsLocal DEF PollGoesTo, PollOK, Poll
<1> QED
  BY <1>1, <1>2

LEMMA LocalStep ==
    ASSUME IInv, PollIsLocal, [Next]_vars
    PROVE  PollIsLocal'
<1>1. PollOK
  BY DEF IInv
<1>2. CASE UNCHANGED <<workingDirectory, poll>>
  BY <1>2 DEF PollIsLocal, Busy
<1>3. CASE Inbox \/ OnUserPromptSubmitted \/ Register \/ OnSessionEnd \/ SessionIdle \/ StartSettles
           \/ StartRejected \/ StartFails
  BY <1>2, <1>3
  DEF Inbox, OnUserPromptSubmitted, Register, OnSessionEnd, SessionIdle, StartSettles, StartRejected,
      StartFails
<1>4. ASSUME NEW d \in Directories, Metadata(d) \/ OnSessionStart(d) PROVE PollIsLocal'
  BY <1>1, <1>2, <1>4, MoveIsLocal DEF Metadata, OnSessionStart
<1>5. CASE OnPostToolUse
  <2>1. workingDirectory' = workingDirectory
    BY <1>5 DEF OnPostToolUse
  <2>2. CASE Busy /\ poll' = [poll EXCEPT !.registeredSince = TRUE]
    BY <1>1, <2>1, <2>2, GoingOnIsLocal DEF PollOK, Poll
  <2> QED
    BY <1>2, <1>5, <2>1, <2>2 DEF OnPostToolUse
<1>6. CASE StartLoaded \/ Tick
  <2>1. workingDirectory' = workingDirectory
    BY <1>6 DEF StartLoaded, Tick
  <2>2. CASE \E owner : poll' = NewPoll(owner)
    BY <2>1, <2>2 DEF PollIsLocal, NewPoll, NoPoll
  <2> QED
    BY <1>2, <1>6, <2>1, <2>2 DEF StartLoaded, Tick
<1>7. CASE \/ PollSettings \/ DirectoryMissing \/ NotRegistered \/ PollBreaks \/ Logged
           \/ LogRejected \/ FlushRejected \/ PollEnds \/ PollFails
  <2>1. workingDirectory' = workingDirectory /\ Busy
    BY <1>7
    DEF PollSettings, DirectoryMissing, NotRegistered, PollBreaks, Logged, LogRejected, FlushRejected,
        PollEnds, PollFails, Busy, At
  <2>2. \/ \E disabled, retry : EndPoll(disabled, retry)
        \/ \E point : PollGoesTo(point)
    <3>1. ASSUME NEW reason, DisablePolling(reason)
          PROVE  Finish(TRUE, retryRequested) \/ PollGoesTo("warning")
      BY <3>1 DEF DisablePolling
    <3>2. ASSUME NEW disabled, NEW retry, Finish(disabled, retry)
          PROVE  EndPoll(disabled, retry)
      BY <3>2 DEF Finish
    <3>3. CASE PollSettings \/ NotRegistered \/ Logged \/ PollEnds
      BY <3>1, <3>2, <3>3 DEF PollSettings, NotRegistered, Logged, PollEnds
    <3>4. CASE DirectoryMissing \/ PollBreaks \/ LogRejected \/ FlushRejected \/ PollFails
      BY <3>4 DEF DirectoryMissing, PollBreaks, LogRejected, FlushRejected, PollFails
    <3> QED
      BY <1>7, <3>3, <3>4
  <2> QED
    BY <1>1, <2>1, <2>2, PollStepIsLocal
<1>8. CASE PollQuery
  BY <1>1, <1>8, GoingOnIsLocal DEF PollQuery, PollOK, Poll, Busy, At
<1>9. CASE Summary
  <2>1. workingDirectory' = workingDirectory /\ Busy
    BY <1>9 DEF Summary, Busy, At
  <2>2. CASE \E disabled, retry : Finish(disabled, retry)
    BY <2>1, <2>2, EndPollIsLocal DEF Finish
  <2>3. CASE \E new : poll' = [poll EXCEPT !.pc = "log", !.new = new]
    BY <1>1, <2>1, <2>3, GoingOnIsLocal DEF PollOK, Poll
  <2> QED
    BY <1>9, <2>2, <2>3 DEF Summary
<1>10. CASE UNCHANGED vars
  BY <1>2, <1>10 DEF vars
<1> QED
  BY <1>3, <1>4, <1>5, <1>6, <1>7, <1>8, <1>9, <1>10 DEF Next, Continue, Fails

LEMMA OnlySummariesAreSeen ==
    ASSUME PollIsLocal, [Next]_vars, seenMessageIds' # seenMessageIds
    PROVE  poll.dir = workingDirectory
<1>1. Summary
  BY DEF Next, Continue, Fails, vars, Inbox, Metadata, OnSessionStart, OnUserPromptSubmitted, Register,
         OnPostToolUse, OnSessionEnd, SessionIdle, StartLoaded, StartSettles, StartFails,
         PollSettings, PollQuery, DirectoryMissing, NotRegistered, Logged, PollEnds, Tick,
         PollBreaks, LogRejected, FlushRejected, PollFails, StartRejected
<1>2. ~ poll.moved /\ Busy
  BY <1>1 DEF Summary, Busy, At
<1> QED
  BY <1>2 DEF PollIsLocal

\* "It checks only that session's workingDirectory" (session-inbox-notifier.md): however
\* hooks move the session while a summary is under way, no summary of another directory
\* ever counts as seen.  Of prompts this is not true (PromptsAreLocal).
THEOREM SummariesAreLocal == Spec => SeenIsLocal
<1>1. Init => PollIsLocal
  BY DEF Init, PollIsLocal, Busy, NoPoll
<1>2. IInv /\ PollIsLocal /\ [Next]_vars => PollIsLocal'
  BY LocalStep
<1>3. PollIsLocal /\ [Next]_vars => [seenMessageIds' # seenMessageIds => poll.dir = workingDirectory]_vars
  BY OnlySummariesAreSeen
<1> QED
  BY <1>1, <1>2, <1>3, NotifierInductive, PTL DEF Spec, SeenIsLocal
=============================================================================
