---------------------------- MODULE MCRunLiveness ----------------------------
(***************************************************************************)
(* Small instances of RunLiveness.                                         *)
(***************************************************************************)
EXTENDS RunLiveness, TLC

CONSTANTS h1, h2, r1, r2, s1, s2

HandlerSymmetry == Permutations({h1, h2})

Event(run, kind, occurred, at, scope) ==
  [run |-> run, kind |-> kind, occurred |-> occurred, at |-> at, scope |-> scope]

(* A run that starts twice with different scopes and has two ends, one     *)
(* dated after the end it reports; and a later run without a start.         *)
OtherStart == Event(r1, "started", 0, 0, s2)
LaterEnd   == Event(r2, "failed", 1, 1, s1)

TwoRuns ==
  { Event(r1, "started", 0, 0, s1), OtherStart,
    Event(r1, "completed", 1, 0, s1), Event(r1, "partial", 0, 0, s1), LaterEnd }

Seen(d) == receipts[d] # "absent" \/ \E h \in Handler : pc[h] # "idle" /\ job[h] = d

(* Bound: the other start and the end of the later run are not both seen.  *)
OtherStartOrLaterEnd == ~ (Seen(OtherStart) /\ Seen(LaterEnd))

(* Two completed runs.                                                     *)
TwoCompleted ==
  { Event(r1, "completed", 0, 0, s1), Event(r2, "completed", 1, 1, s1) }

(* One run, whose start and end may be in flight together.                 *)
OneRun ==
  { Event(r1, "started", 0, 0, s1), Event(r1, "completed", 1, 1, s1) }

(* The same when everything happens at once.                               *)
QuickRun ==
  { Event(r1, "started", 0, 0, s1), Event(r1, "completed", 0, 0, s1) }
==============================================================================
