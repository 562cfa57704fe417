---------------------------- MODULE MCNotifier ----------------------------
(* A session that begins in one of two directories, and a sender that works *)
(* in a third one; two messages compete for a window of one, the first one  *)
(* urgent.  Each situation spends its bounds on other trouble: the session  *)
(* moves, registers late and meets failures; or the agents leave, return,   *)
(* are purged and are registered by other sessions meanwhile.               *)
EXTENDS Notifier
CONSTANTS a1, a2, d1, d2, s1

At1(a) == [p \in Paths |-> IF p = s1 THEN a2 ELSE IF p = d1 THEN a ELSE NULL]
Here(S) == [a \in Ids |-> IF a \in S THEN "here" ELSE "none"]
Quiet == [status |-> Here({a1, a2}), boxes |-> At1(a1), settings |-> "ok",
          sessionStarts |-> 0, registrations |-> 0, faults |-> 0, changes |-> 0,
          letters |-> 2]
Unregistered == [Quiet EXCEPT !.status = Here({a2}), !.boxes = At1(NULL), !.registrations = 1]

Restless == {[Unregistered EXCEPT !.settings = how, !.sessionStarts = 1, !.faults = 1, !.letters = 1] :
                how \in {"ok", "disabled", "unconfigured"}}
            \cup {[Unregistered EXCEPT !.settings = "invalid", !.faults = 1, !.letters = 1],
                 [Quiet EXCEPT !.sessionStarts = 1], [Quiet EXCEPT !.faults = 2],
                 [Quiet EXCEPT !.faults = 3, !.letters = 1]}
Moving == {[Quiet EXCEPT !.changes = 1], [Quiet EXCEPT !.changes = 2, !.letters = 1],
           [Unregistered EXCEPT !.changes = 1, !.letters = 1]}
AllSituations == Restless \cup Moving
Visits == {[Quiet EXCEPT !.sessionStarts = 1]}
FromElsewhere == {<<s1, a1>>}
=============================================================================
