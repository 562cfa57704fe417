------------------------------ MODULE Notifier ------------------------------
(***************************************************************************)
(* The session inbox notifier (np-agent-memory-inbox/extension.mjs): one   *)
(* JavaScript thread per session, so an action is what runs between two    *)
(* awaits, and everything else may happen in between: hooks, events, timer *)
(* ticks, and the database the inbox-summary process reads.                *)
(*                                                                         *)
(* The two epoch counters are only compared with the value a poll copied   *)
(* when it began, so a poll carries a flag instead: has it changed since?  *)
(* The server, the session and the user are external.                      *)
(***************************************************************************)
EXTENDS Integers, FiniteSets, Mailbox

CONSTANTS
    Directories,    \* the paths the session may work in
    Urgent,         \* the messages that call for a prompt under the session's promptMode
    WindowSize,     \* _SUMMARY_MESSAGE_LIMIT of inbox_summary
    Routes,         \* bound: from which paths to which agents messages are sent
    Movable,        \* bound: those whose directory may be moved away and back, or replaced
    Situations      \* bounds: in which situations a session may begin, and how much happens

\* What settings.json says.  Settings that cannot be read are warned of and replaced by
\* the default ones, which work as well.
Settings == {"ok", "invalid", "disabled", "unconfigured"}
Working == {"ok", "invalid"}

Situation == [status : [Ids -> {"none", "here", "away", "gone"}], boxes : [Paths -> Ids \cup {NULL}],
              settings : Settings,
              sessionStarts : Nat, registrations : Nat, faults : Nat, changes : Nat, letters : Nat]

ASSUME NotifierAssumption ==
    /\ Messages \subseteq Nat /\ IsFiniteSet(Messages)
    /\ Directories \subseteq Paths /\ Movable \subseteq Paths
    /\ Urgent \subseteq Messages
    /\ WindowSize \in Nat \ {0}
    /\ Routes \subseteq Paths \X Ids
    /\ Situations \subseteq Situation
    /\ NULL \notin Paths /\ \A S \in SUBSET Messages : S # NULL

VARIABLES
    settings,
    active, idle, hasObservedWork, retryRequested, restartRequested,
    pollingDisabled, hasSessionStart, workingDirectory,
    warned,                 \* registrationWarningLogged, configurationWarningLogged
    seenMessageIds,
    pendingPrompt,          \* the unread messages a queued prompt counts, or NULL
    timer,                  \* is state.timer set?
    intervals,              \* how many intervals tick
    poll,                   \* the poll in flight
    start,                  \* how far the startPolling in flight is, or "none"
    hooks,                  \* callbacks on their way: "metadata", "register"
    announced, prompted,    \* history: the messages logged, and counted in a sent prompt
    dropped,                \* history: those whose log or prompt the session rejected
    cwd,                    \* history: the directory the session really is in
    lapsed,                 \* history: has that directory been nobody's since the session
                            \* came to it or registered in it?
    stalled,                \* history: was the last start rejected, and left no interval?
    sessionStarts, registrations, faults, changes, letters   \* how much may still happen

inbox == <<mailbox, settings>>
session == <<active, idle, hasObservedWork>>
history == <<announced, prompted, dropped, cwd, lapsed, stalled>>
bounds == <<sessionStarts, registrations, faults, changes, letters>>
vars == <<inbox, session, retryRequested, restartRequested, pollingDisabled, hasSessionStart,
          workingDirectory, warned, seenMessageIds, pendingPrompt, timer, intervals, poll, start,
          hooks, history, bounds>>

\* What inbox_summary counts; "not registered" if nobody answers in a directory.
Known(d) == boxes[d] # NULL
Unread(d) == IF Known(d) THEN WaitingFor(boxes[d]) ELSE {}
Unanswered == {d \in places : ~ Known(d)}

\* Mutant of Newest: the summary without its LIMIT.
NewestAll(S) == S

\* ORDER BY sent_at DESC LIMIT
Newest(S) == {m \in S : Cardinality({n \in S : n > m}) < WindowSize}

\* No poll is in flight.
NoPoll == [pc |-> "none", owner |-> "tick", dir |-> NULL, moved |-> FALSE,
           registeredSince |-> FALSE, known |-> FALSE, unread |-> {}, new |-> {}]

Init == /\ mail = [m \in Messages |-> NULL] /\ posted = {} /\ places = Paths
        /\ \E s \in Situations :
             /\ status = s.status /\ boxes = s.boxes /\ settings = s.settings
             /\ sessionStarts = s.sessionStarts /\ registrations = s.registrations
             /\ faults = s.faults /\ changes = s.changes /\ letters = s.letters
        /\ active = TRUE /\ idle = FALSE /\ hasObservedWork = FALSE
        /\ retryRequested = FALSE /\ restartRequested = FALSE
        /\ pollingDisabled = FALSE /\ hasSessionStart = FALSE /\ workingDirectory = NULL
        /\ warned = {} /\ seenMessageIds = {} /\ pendingPrompt = NULL
        /\ timer = FALSE /\ intervals = 0
        /\ poll = NoPoll /\ start = "none" /\ hooks = {"metadata"}
        /\ announced = {} /\ prompted = {} /\ dropped = {}
        /\ cwd = NULL /\ lapsed = FALSE /\ stalled = FALSE
-----------------------------------------------------------------------------
(* The inbox: a Mailbox that other processes fill, empty and move about in *)
(* as long as it matters.                                                  *)

Mails == /\ \/ /\ letters > 0 /\ letters' = letters - 1
               /\ \E m \in Messages, r \in Routes : Deliver(m, r[1], r[2])
            \/ /\ \E p \in Paths, S \in SUBSET Messages : Take(p, S)
               /\ UNCHANGED letters
         /\ UNCHANGED <<status, boxes, places, changes>>

Agents == /\ changes > 0 /\ changes' = changes - 1
          /\ \/ \E a \in Ids : \/ Leave(a) \/ Return(a) \/ Depart(a)
                               \/ \E p \in Paths : Settle({p}, a)
             \/ \E p \in Movable, a \in Ids \cup {NULL}, there \in BOOLEAN : Move({p}, a, there)
          /\ UNCHANGED letters

Inbox == /\ active
         /\ Mails \/ Agents
         /\ lapsed' = (lapsed \/ cwd \in Unanswered')
         /\ UNCHANGED <<settings, session, retryRequested, restartRequested, pollingDisabled,
                        hasSessionStart, workingDirectory, warned, seenMessageIds, pendingPrompt,
                        timer, intervals, poll, start, hooks, announced, prompted, dropped,
                        cwd, stalled, sessionStarts, registrations, faults>>
-----------------------------------------------------------------------------
(* Pieces of the extension that run without an await.                      *)

Busy == poll.pc # "none"

\* The guards of pollInbox and startPolling, in the state the handler leaves behind.
MayPoll == active /\ workingDirectory # NULL /\ ~ pollingDisabled
MayStart == active' /\ workingDirectory' # NULL /\ ~ pollingDisabled'

\* pollInbox up to its first await; the settings it then waits for do not change, so
\* the next step is what it does with them.
NewPoll(owner) == [NoPoll EXCEPT !.pc = "process", !.owner = owner, !.dir = workingDirectory]

\* startPolling up to its first await; a start in flight is asked to start again.
StartPolling ==
    IF ~ MayStart THEN UNCHANGED <<start, restartRequested, stalled>>
    ELSE IF start # "none" THEN restartRequested' = TRUE /\ UNCHANGED <<start, stalled>>
    ELSE start' = "settings" /\ stalled' = FALSE /\ UNCHANGED restartRequested

\* setWorkingDirectory, and what it means for the poll in flight.
SetWorkingDirectory(d, authoritative) ==
    /\ hasSessionStart' = (hasSessionStart \/ authoritative)
    /\ cwd' = IF hasSessionStart /\ ~ authoritative THEN cwd ELSE d
    /\ IF (hasSessionStart /\ ~ authoritative) \/ workingDirectory = d
       THEN UNCHANGED <<workingDirectory, pollingDisabled, poll, lapsed>>
       ELSE /\ workingDirectory' = d
            /\ lapsed' = (cwd' \in Unanswered)
            /\ pollingDisabled' = FALSE
            /\ poll' = IF Busy THEN [poll EXCEPT !.moved = TRUE] ELSE poll

\* The session takes a prompt that counts these messages, or rejects it.
Sends(messages) ==
    \/ /\ prompted' = prompted \cup messages
       /\ UNCHANGED <<dropped, faults>>
    \/ /\ faults > 0
       /\ faults' = faults - 1
       /\ dropped' = dropped \cup messages
       /\ UNCHANGED prompted

\* clearInterval(state.timer), which the end of the session may have done before.
ClearInterval == intervals' = IF timer /\ active THEN intervals - 1 ELSE intervals

\* The finally of pollInbox: a retry asked for meanwhile begins at once.
EndPoll(disabled, retry) ==
    /\ retryRequested' = FALSE
    /\ poll' = IF retry /\ active /\ workingDirectory # NULL /\ ~ disabled
               THEN NewPoll("tick") ELSE NoPoll

\* A poll is over, and the startPolling that awaited it goes on.
Finish(disabled, retry) ==
    /\ EndPoll(disabled, retry)
    /\ start' = IF poll.owner = "start" THEN "settling" ELSE start
-----------------------------------------------------------------------------
(* Hooks, events and the user.                                             *)

\* session.rpc.metadata.snapshot() answers, or fails.
Metadata(d) ==
    /\ "metadata" \in hooks
    /\ hooks' = hooks \ {"metadata"}
    /\ \/ /\ SetWorkingDirectory(d, FALSE)
          /\ UNCHANGED active
          /\ StartPolling
          /\ UNCHANGED faults
       \/ /\ faults > 0
          /\ faults' = faults - 1
          /\ UNCHANGED <<hasSessionStart, workingDirectory, pollingDisabled, poll, cwd, lapsed,
                         stalled, active, start, restartRequested>>
    /\ UNCHANGED <<inbox, idle, hasObservedWork, retryRequested, warned, seenMessageIds,
                   pendingPrompt, timer, intervals, announced, prompted, dropped,
                   sessionStarts, registrations, changes, letters>>

OnSessionStart(d) ==
    /\ active /\ sessionStarts > 0
    /\ sessionStarts' = sessionStarts - 1
    /\ SetWorkingDirectory(d, TRUE)
    /\ UNCHANGED active
    /\ StartPolling
    /\ UNCHANGED <<inbox, idle, hasObservedWork, retryRequested, warned, seenMessageIds,
                   pendingPrompt, timer, intervals, hooks, announced, prompted, dropped,
                   registrations, faults, changes, letters>>

OnUserPromptSubmitted ==
    /\ active
    /\ hasObservedWork' = TRUE
    /\ idle' = FALSE
    /\ UNCHANGED <<inbox, active, retryRequested, restartRequested, pollingDisabled,
                   hasSessionStart, workingDirectory, warned, seenMessageIds, pendingPrompt,
                   timer, intervals, poll, start, hooks, history, bounds>>

\* The agent calls agent_register for the directory it works in: a new identity, one
\* it had, or an error.  The hook follows and does not look at the result.
Register ==
    /\ active /\ workingDirectory # NULL
    /\ registrations > 0
    /\ registrations' = registrations - 1
    /\ UNCHANGED mailbox \/ \E a \in Ids : status[a] = "none" /\ Settle({workingDirectory}, a)
    /\ lapsed' = (cwd \in Unanswered')
    /\ hooks' = hooks \cup {"register"}
    /\ UNCHANGED <<settings, session, retryRequested, restartRequested, pollingDisabled,
                   hasSessionStart, workingDirectory, warned, seenMessageIds, pendingPrompt, timer,
                   intervals, poll, start, announced, prompted, dropped, cwd, stalled, sessionStarts,
                   faults, changes, letters>>

OnPostToolUse ==
    /\ active /\ "register" \in hooks
    /\ hooks' = hooks \ {"register"}
    /\ poll' = IF Busy THEN [poll EXCEPT !.registeredSince = TRUE] ELSE poll
    /\ pollingDisabled' = FALSE
    /\ warned' = {}
    /\ UNCHANGED <<active, workingDirectory>>
    /\ StartPolling
    /\ UNCHANGED <<inbox, idle, hasObservedWork, retryRequested, hasSessionStart, seenMessageIds,
                   pendingPrompt, timer, intervals, announced, prompted, dropped, cwd, lapsed,
                   bounds>>

OnSessionEnd ==
    /\ active
    /\ active' = FALSE
    /\ ClearInterval
    /\ UNCHANGED <<inbox, idle, hasObservedWork, retryRequested, restartRequested,
                   pollingDisabled, hasSessionStart, workingDirectory, warned, seenMessageIds,
                   pendingPrompt, timer, poll, start, hooks, history, bounds>>

\* session.idle: the event flushes a pending prompt, which starts a new turn.
SessionIdle ==
    /\ active /\ ~ idle
    /\ IF pendingPrompt # NULL
       THEN Sends(pendingPrompt) /\ pendingPrompt' = NULL /\ UNCHANGED idle
       ELSE idle' = TRUE /\ UNCHANGED <<pendingPrompt, prompted, dropped, faults>>
    /\ UNCHANGED <<inbox, active, hasObservedWork, retryRequested, restartRequested,
                   pollingDisabled, hasSessionStart, workingDirectory, warned, seenMessageIds,
                   timer, intervals, poll, start, hooks, announced, cwd, lapsed, stalled,
                   sessionStarts, registrations, changes, letters>>
-----------------------------------------------------------------------------
(* startPolling after its first await.                                     *)

\* Mutant of StartLoaded: it trusts what it checked before the await.
StartLoadedUnchecked ==
    /\ start = "settings"
    /\ IF timer \/ settings = "disabled"
       THEN start' = "settling" /\ UNCHANGED <<timer, intervals, poll>>
       ELSE /\ timer' = TRUE
            /\ intervals' = intervals + 1
            /\ IF MayPoll /\ ~ Busy THEN poll' = NewPoll("start") /\ start' = "polling"
               ELSE start' = "settling" /\ UNCHANGED poll
    /\ UNCHANGED <<inbox, session, retryRequested, restartRequested, pollingDisabled,
                   hasSessionStart, workingDirectory, warned, seenMessageIds, pendingPrompt,
                   hooks, history, bounds>>

\* The settings are there: set the timer and poll once.
StartLoaded ==
    /\ start = "settings"
    /\ IF ~ active \/ workingDirectory = NULL \/ timer \/ settings = "disabled"
       THEN start' = "settling" /\ UNCHANGED <<timer, intervals, poll>>
       ELSE /\ timer' = TRUE
            /\ intervals' = intervals + 1
            /\ IF MayPoll /\ ~ Busy THEN poll' = NewPoll("start") /\ start' = "polling"
               ELSE start' = "settling" /\ UNCHANGED poll
    /\ UNCHANGED <<inbox, session, retryRequested, restartRequested, pollingDisabled,
                   hasSessionStart, workingDirectory, warned, seenMessageIds, pendingPrompt,
                   hooks, history, bounds>>

\* It goes on after its poll, and starts again if it was asked to.
StartSettles ==
    /\ start = "settling"
    /\ restartRequested' = FALSE
    /\ IF restartRequested /\ MayPoll THEN start' = "settings" /\ stalled' = FALSE
       ELSE start' = "none" /\ UNCHANGED stalled
    /\ UNCHANGED <<inbox, session, retryRequested, pollingDisabled, hasSessionStart,
                   workingDirectory, warned, seenMessageIds, pendingPrompt, timer, intervals, poll,
                   hooks, announced, prompted, dropped, cwd, lapsed, bounds>>

\* session.log rejects the warning of loadSettings.
StartRejected ==
    /\ start = "settings" /\ settings = "invalid"
    /\ faults > 0
    /\ faults' = faults - 1
    /\ start' = "failing"
    /\ UNCHANGED <<inbox, session, retryRequested, restartRequested, pollingDisabled,
                   hasSessionStart, workingDirectory, warned, seenMessageIds, pendingPrompt, timer,
                   intervals, poll, hooks, history, sessionStarts, registrations, changes, letters>>

\* The start is rejected: it does not come to look at restartRequested.
StartFails ==
    /\ start = "failing"
    /\ start' = "none"
    /\ stalled' = ~ timer
    /\ UNCHANGED <<inbox, session, retryRequested, restartRequested, pollingDisabled,
                   hasSessionStart, workingDirectory, warned, seenMessageIds, pendingPrompt, timer,
                   intervals, poll, hooks, announced, prompted, dropped, cwd, lapsed, bounds>>

\* The interval fires.
Tick == /\ intervals > 0 /\ MayPoll /\ ~ Busy
        /\ poll' = NewPoll("tick")
        /\ UNCHANGED <<inbox, session, retryRequested, restartRequested, pollingDisabled,
                       hasSessionStart, workingDirectory, warned, seenMessageIds, pendingPrompt,
                       timer, intervals, start, hooks, history, bounds>>
-----------------------------------------------------------------------------
(* pollInbox after its first await.                                        *)

At(point) == poll.pc = point
PollGoesTo(point) == poll' = [poll EXCEPT !.pc = point] /\ UNCHANGED <<start, retryRequested>>

\* Polling stops, with one warning per reason until the agent registers.
DisablePolling(reason) ==
    /\ pollingDisabled' = TRUE
    /\ ClearInterval
    /\ timer' = FALSE
    /\ warned' = warned \cup {reason}
    /\ IF reason \in warned THEN Finish(TRUE, retryRequested) ELSE PollGoesTo("warning")

PollSettings ==
    /\ At("process")
    /\ \/ /\ settings = "disabled"
          /\ Finish(pollingDisabled, retryRequested)
          /\ UNCHANGED <<pollingDisabled, timer, intervals, warned>>
       \/ settings = "unconfigured" /\ DisablePolling("configuration")
    /\ UNCHANGED <<inbox, session, restartRequested, hasSessionStart, workingDirectory,
                   seenMessageIds, pendingPrompt, hooks, history, bounds>>

\* The inbox-summary process reads the database.
PollQuery ==
    /\ At("process") /\ settings \in Working /\ poll.dir \in places
    /\ poll' = [poll EXCEPT !.pc = "reply", !.known = Known(poll.dir),
                            !.unread = Unread(poll.dir)]
    /\ UNCHANGED <<inbox, session, retryRequested, restartRequested, pollingDisabled,
                   hasSessionStart, workingDirectory, warned, seenMessageIds, pendingPrompt,
                   timer, intervals, start, hooks, history, bounds>>

\* It finds no directory: a failed check, and polling goes on.
DirectoryMissing ==
    /\ At("process") /\ settings \in Working /\ poll.dir \notin places
    /\ PollGoesTo("warning")
    /\ UNCHANGED <<inbox, session, restartRequested, pollingDisabled, hasSessionStart,
                   workingDirectory, warned, seenMessageIds, pendingPrompt, timer, intervals,
                   hooks, history, bounds>>

\* The process fails or takes longer than 15 seconds; or session.log rejects the
\* warning of loadSettings before it.
PollBreaks ==
    /\ settings \in Working /\ (At("process") \/ At("reply"))
    /\ faults > 0
    /\ faults' = faults - 1
    /\ PollGoesTo("warning")
    /\ UNCHANGED <<inbox, session, restartRequested, pollingDisabled, hasSessionStart,
                   workingDirectory, warned, seenMessageIds, pendingPrompt, timer, intervals,
                   hooks, history, sessionStarts, registrations, changes, letters>>

\* Mutant of NotRegistered: the answer counts even if the agent registered since.
NotRegisteredEver ==
    /\ At("reply") /\ ~ poll.known
    /\ DisablePolling("registration")
    /\ UNCHANGED <<inbox, session, restartRequested, hasSessionStart, workingDirectory,
                   seenMessageIds, pendingPrompt, hooks, history, bounds>>

\* The agent of that directory is not registered, or was not when it was asked.
NotRegistered ==
    /\ At("reply") /\ ~ poll.known
    /\ IF poll.registeredSince \/ poll.moved
       THEN /\ Finish(pollingDisabled, TRUE)
            /\ UNCHANGED <<pollingDisabled, timer, intervals, warned>>
       ELSE DisablePolling("registration")
    /\ UNCHANGED <<inbox, session, restartRequested, hasSessionStart, workingDirectory,
                   seenMessageIds, pendingPrompt, hooks, history, bounds>>

\* Mutant of Summary: what it saw counts as seen before the directory is compared.
SummarySeenFirst ==
    /\ At("reply") /\ poll.known
    /\ seenMessageIds' = Newest(poll.unread)
    /\ LET new == Newest(poll.unread) \ seenMessageIds
       IN  IF poll.moved THEN Finish(pollingDisabled, TRUE)
           ELSE IF new = {} THEN Finish(pollingDisabled, retryRequested)
           ELSE /\ poll' = [poll EXCEPT !.pc = "log", !.new = new]
                /\ UNCHANGED <<start, retryRequested>>
    /\ UNCHANGED <<inbox, session, restartRequested, pollingDisabled, hasSessionStart,
                   workingDirectory, warned, pendingPrompt, timer, intervals, hooks, history,
                   bounds>>

\* The summary arrives: it is thrown away if the session moved, else compared with
\* the window seen last.
Summary ==
    /\ At("reply") /\ poll.known
    /\ LET new == Newest(poll.unread) \ seenMessageIds
       IN  \/ poll.moved /\ Finish(pollingDisabled, TRUE) /\ UNCHANGED seenMessageIds
           \/ /\ ~ poll.moved
              /\ seenMessageIds' = Newest(poll.unread)
              /\ IF new = {} THEN Finish(pollingDisabled, retryRequested)
                 ELSE /\ poll' = [poll EXCEPT !.pc = "log", !.new = new]
                      /\ UNCHANGED <<start, retryRequested>>
    /\ UNCHANGED <<inbox, session, restartRequested, pollingDisabled, hasSessionStart,
                   workingDirectory, warned, pendingPrompt, timer, intervals, hooks, history,
                   bounds>>

\* session.log succeeded: queue a prompt for new urgent messages and send it at
\* once unless the session is at work.
Logged ==
    /\ At("log")
    /\ announced' = announced \cup poll.new
    /\ IF poll.new \cap Urgent = {}
       THEN /\ Finish(pollingDisabled, retryRequested)
            /\ UNCHANGED <<idle, pendingPrompt, prompted, dropped, faults>>
       ELSE IF active /\ (hasObservedWork => idle)
       THEN /\ Sends(poll.unread)
            /\ pendingPrompt' = NULL
            /\ idle' = FALSE
            /\ PollGoesTo(IF faults' = faults THEN "sent" ELSE "flush")
       ELSE /\ pendingPrompt' = poll.unread
            /\ Finish(pollingDisabled, retryRequested)
            /\ UNCHANGED <<idle, prompted, dropped, faults>>
    /\ UNCHANGED <<inbox, active, hasObservedWork, restartRequested, pollingDisabled,
                   hasSessionStart, workingDirectory, warned, seenMessageIds, timer, intervals,
                   hooks, cwd, lapsed, stalled, sessionStarts, registrations, changes, letters>>

\* session.log was rejected: the catch reports it, and the messages count as seen.
LogRejected ==
    /\ At("log")
    /\ faults > 0
    /\ faults' = faults - 1
    /\ dropped' = dropped \cup poll.new
    /\ PollGoesTo("warning")
    /\ UNCHANGED <<inbox, session, restartRequested, pollingDisabled, hasSessionStart,
                   workingDirectory, warned, seenMessageIds, pendingPrompt, timer, intervals,
                   hooks, announced, prompted, cwd, lapsed, stalled, sessionStarts, registrations,
                   changes, letters>>

\* session.log rejects the warning of flushPrompt: the catch of pollInbox reports that.
FlushRejected ==
    /\ At("flush")
    /\ faults > 0
    /\ faults' = faults - 1
    /\ PollGoesTo("warning")
    /\ UNCHANGED <<inbox, session, restartRequested, pollingDisabled, hasSessionStart,
                   workingDirectory, warned, seenMessageIds, pendingPrompt, timer, intervals,
                   hooks, history, sessionStarts, registrations, changes, letters>>

\* The last await of a poll is over: the answer to session.send or to its warning, or a
\* warning of the catch.
PollEnds ==
    /\ At("sent") \/ At("flush") \/ At("warning")
    /\ Finish(pollingDisabled, retryRequested)
    /\ UNCHANGED <<inbox, session, restartRequested, pollingDisabled, hasSessionStart,
                   workingDirectory, warned, seenMessageIds, pendingPrompt, timer, intervals,
                   hooks, history, bounds>>

\* session.log rejects the warning of the catch: the poll is rejected, and with it the
\* startPolling that awaited it.
PollFails ==
    /\ At("warning")
    /\ faults > 0
    /\ faults' = faults - 1
    /\ EndPoll(pollingDisabled, retryRequested)
    /\ start' = IF poll.owner = "start" THEN "failing" ELSE start
    /\ UNCHANGED <<inbox, session, restartRequested, pollingDisabled, hasSessionStart,
                   workingDirectory, warned, seenMessageIds, pendingPrompt, timer, intervals,
                   hooks, history, sessionStarts, registrations, changes, letters>>
-----------------------------------------------------------------------------
\* What the event loop goes on with once an await is over.
Continue == \/ StartLoaded \/ StartSettles \/ StartFails \/ PollSettings \/ PollQuery
            \/ DirectoryMissing \/ NotRegistered \/ Summary \/ Logged \/ PollEnds

\* session.log and the inbox-summary process may fail whoever awaits them.
Fails == PollBreaks \/ LogRejected \/ FlushRejected \/ PollFails \/ StartRejected

Next == \/ Inbox
        \/ \E d \in Directories : Metadata(d) \/ OnSessionStart(d)
        \/ OnUserPromptSubmitted \/ Register \/ OnPostToolUse \/ OnSessionEnd \/ SessionIdle
        \/ Continue \/ Tick \/ Fails

Spec == Init /\ [][Next]_vars

\* Awaits end, ticks come, hooks are called, and a turn of the model ends.
FairSpec == /\ Spec
            /\ WF_vars(StartLoaded) /\ WF_vars(StartSettles) /\ WF_vars(StartFails)
            /\ WF_vars(Tick) /\ WF_vars(PollSettings) /\ WF_vars(PollQuery)
            /\ WF_vars(DirectoryMissing) /\ WF_vars(NotRegistered)
            /\ WF_vars(Summary) /\ WF_vars(Logged) /\ WF_vars(PollEnds)
            /\ WF_vars(OnPostToolUse) /\ WF_vars(SessionIdle)
            /\ WF_vars(\E d \in Directories : Metadata(d))
-----------------------------------------------------------------------------
(* What must hold.                                                         *)

PollPoints == {"none", "process", "reply", "log", "sent", "flush", "warning"}

\* seenMessageIds is bounded by the window, however many messages come and go.
TypeOK == /\ posted \cup announced \cup prompted \cup dropped \subseteq Messages
          /\ mail \in [Messages -> Letter \cup {NULL}]
          /\ status \in [Ids -> {"none", "here", "away", "gone"}]
          /\ boxes \in [Paths -> Ids \cup {NULL}]
          /\ places \subseteq Paths
          /\ settings \in Settings
          /\ {active, idle, hasObservedWork, retryRequested, restartRequested, pollingDisabled,
              hasSessionStart, timer, lapsed, stalled} \subseteq BOOLEAN
          /\ {workingDirectory, cwd} \subseteq Directories \cup {NULL}
          /\ warned \subseteq {"registration", "configuration"}
          /\ seenMessageIds \subseteq Messages /\ Cardinality(seenMessageIds) <= WindowSize
          /\ pendingPrompt = NULL \/ pendingPrompt \subseteq Messages
          /\ intervals \in Nat
          /\ poll.pc \in PollPoints
          /\ start \in {"none", "settings", "polling", "settling", "failing"}
          /\ hooks \subseteq {"metadata", "register"}

\* No interval leaks: whatever started, stopped and ended while others awaited,
\* one interval ticks exactly if the live session has its handle.
IntervalsAreOwned == intervals = IF timer /\ active THEN 1 ELSE 0

\* No message is swallowed: what counts as seen was logged, is about to be, or was
\* rejected by the session; and if it is urgent a prompt has counted it too, or is
\* queued that will, whichever polls failed, were late or replaced the queued prompt.
Logging == IF At("log") THEN poll.new ELSE {}
Queued == IF pendingPrompt = NULL THEN {} ELSE pendingPrompt
SeenIsAnnounced ==
    /\ seenMessageIds \subseteq announced \cup dropped \cup Logging
    /\ seenMessageIds \cap Urgent \subseteq prompted \cup dropped \cup Logging \cup Queued

\* An urgent message of the session's own inbox leads to a prompt, through every
\* late registration, late metadata, move, failed poll, directory that goes and comes
\* back, busy session, purge and restored sender.  Unless the message is read, hidden
\* or pushed out of the window; the session ends or moves away, or rejected the log or
\* the prompt; its agent was gone meanwhile (what brings an agent back elsewhere, no
\* hook of the session reports); or the session rejected the warning with which a
\* start would have ended, and no interval is left (a restart asked for meanwhile is
\* then forgotten until the next hook).
Waiting(m) == /\ active /\ settings \in Working /\ ~ lapsed /\ ~ stalled
              /\ cwd # NULL
              /\ m \in Newest(Unread(cwd))
              /\ m \notin prompted \cup dropped
UrgentIsPrompted == \A m \in Urgent : Waiting(m) ~> ~ Waiting(m)

\* session-inbox-notifier.md: "It checks only that session's `workingDirectory`".  What
\* a prompt counts, as far as it is still unread, waits for the agent of the directory
\* the session works in when it is sent.
PromptsAreLocal ==
    [][\A m \in prompted' \ prompted : mail[m] = NULL \/ mail[m].to = boxes[workingDirectory]]_vars
=============================================================================
