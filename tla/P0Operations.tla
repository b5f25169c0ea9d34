---------------------------- MODULE P0Operations ----------------------------
(***************************************************************************)
(* The resumable P0 driver (packages/p0-source-operations) and the import  *)
(* of terminal runs with their checkpoints (p0-terminal-import.ts over     *)
(* db/0013 and db/0017), for the targets of one work unit.                 *)
(*                                                                         *)
(* A worker prepares a worklist from the progress it reads, an external    *)
(* producer works on it and signs a terminal event, and the import stores  *)
(* receipt, run and checkpoints in one transaction.  Imports are serial:   *)
(* each holds the advisory lock of the manifest, and its run is its own.   *)
(* What other workers import between a preparation and its import is what  *)
(* the worker does not know.                                               *)
(***************************************************************************)
EXTENDS Integers, FiniteSets

CONSTANTS
  Run,       \* run_id: one invocation of the producer
  Target,    \* target_id of the work unit
  Input,     \* input_sha256
  Zone,      \* offsets from UTC, in ticks, that producers write observed_at in
  Cadence,   \* cadence_seconds of every target, in ticks
  MaxClock,  \* bound on the clock
  MaxEvents, \* bound on the terminal events signed for one run
  Ends,      \* [status, scope, outcome]: how producers end runs, the targets
             \* they sign as checked ({}: no valid scope), the outcomes reported
  NoWork     \* a run that has no worklist or no report

Ended   == {"completed", "partial", "failed"}
Outcome == {"resolved", "validation_rejected", "timeout"}
Stamp   == [utc : 0..MaxClock, zone : Zone]

ASSUME P0Assumption ==
  /\ IsFiniteSet(Run) /\ IsFiniteSet(Target) /\ Target # {}
  /\ Zone \subseteq Nat /\ Cadence \in Nat \ {0}
  /\ MaxClock \in Nat /\ MaxEvents \in Nat \ {0}
  /\ Ends \subseteq [status : Ended, scope : SUBSET Target,
                      outcome : UNION {[targets -> Outcome] : targets \in SUBSET Target}]

(* Outcomes other than the three are retried as a timeout is.               *)
Checkpoint == [target : Target, run : Run, event : 1..MaxEvents, number : Nat \ {0},
               at : Stamp, outcome : Outcome, input : Input]

Worklist == [mode : {"all", "retry"}, targets : SUBSET Target, input : Input,
             known : [Target -> Nat]]

VARIABLES
  clock,
  ledger,    \* p0_agent_feed_target_attempts, with observed_at as written
  receipts,  \* terminal events with a receipt, as <<run, event>>
  scopes,    \* p0_agent_feed_receipt_scope_projections
  runs,      \* terminal status of the run on record
  pc,        \* idle, prepared, reported, acked
  worklist,  \* what the run was asked to do, and the attempts known then
  report     \* its terminal event and the checkpoints resolved for it

vars == <<clock, ledger, receipts, scopes, runs, pc, worklist, report>>

Init ==
  /\ clock = 0 /\ ledger = {} /\ receipts = {} /\ scopes = {}
  /\ runs = [r \in Run |-> "open"]
  /\ pc = [r \in Run |-> "idle"]
  /\ worklist = [r \in Run |-> NoWork]
  /\ report = [r \in Run |-> NoWork]

-----------------------------------------------------------------------------
(* Progress.  Attempts are sorted by observed_at as text: local time first, *)
(* then the offset, of which "Z" is the last.                               *)

OfTarget(t) == {x \in ledger : x.target = t}

TextBefore(s, u) ==
  LET s0 == s.utc + s.zone  u0 == u.utc + u.zone
  IN \/ s0 < u0
     \/ s0 = u0 /\ s.zone # 0 /\ (u.zone = 0 \/ s.zone < u.zone)

Precedes(x, y) ==
  \/ TextBefore(x.at, y.at)
  \/ x.at = y.at /\ x.number < y.number

(* Mutant of Reducible: the order of the attempts is not compared.          *)
ReducibleInAnyOrder ==
  \A t \in Target : \A x, y \in OfTarget(t) : x # y => x.number # y.number

Reducible ==
  \A t \in Target : \A x, y \in OfTarget(t) :
    x # y => /\ x.number # y.number
             /\ Precedes(x, y) => x.number < y.number

LastOf(rows) == CHOOSE x \in rows : \A y \in rows \ {x} : Precedes(y, x)

Resolved(rows) == {x \in rows : x.outcome = "resolved"}

(* The targets a retry is due for: never tried, or not held for the input   *)
(* of a latest attempt that was rejected and without a recent success.      *)
RetryTargets(input) ==
  {t \in Target :
     LET rows == OfTarget(t)
     IN \/ rows = {}
        \/ /\ LET x == LastOf(rows)
              IN ~ (x.outcome = "validation_rejected" /\ x.input = input)
           /\ \/ Resolved(rows) = {}
              \/ clock - LastOf(Resolved(rows)).at.utc >= Cadence}

Attempts(t) == Cardinality(OfTarget(t))

(* Mutant of LatestNumber: an off-by-one in the view.                      *)
LatestNumberLow(t) == Attempts(t) - 1

LatestNumber(t) ==
  IF OfTarget(t) = {} THEN 0
  ELSE LET x == CHOOSE x \in OfTarget(t) : \A y \in OfTarget(t) : y.number <= x.number
       IN x.number

-----------------------------------------------------------------------------
(* Preparation.  The number of the next attempt is the producer's: one more *)
(* than the latest the progress shows.                                      *)

Prepare(r, mode, targets, input) ==
  /\ pc[r] = "idle" /\ targets # {}
  /\ pc' = [pc EXCEPT ![r] = "prepared"]
  /\ worklist' = [worklist EXCEPT ![r] =
       [mode |-> mode, targets |-> targets, input |-> input,
        known |-> [t \in Target |-> LatestNumber(t)]]]
  /\ UNCHANGED <<clock, ledger, receipts, scopes, runs, report>>

PrepareAll(r, input) == Prepare(r, "all", Target, input)

(* Refused, whatever the targets, when the progress cannot be reduced.      *)
PrepareRetry(r, input) ==
  Reducible /\ Prepare(r, "retry", RetryTargets(input), input)

-----------------------------------------------------------------------------
(* The producer.  It reports some targets, with an outcome each, in its own *)
(* zone; nothing holds it to its worklist.  An event that was not answered  *)
(* may be resolved to other checkpoints, but keeps its signed status and    *)
(* scope, and a run may sign a second terminal event.                       *)

Item(r, t, event, zone, outcome) ==
  [target |-> t, run |-> r, event |-> event, number |-> worklist[r].known[t] + 1,
   at |-> [utc |-> clock, zone |-> zone], outcome |-> outcome,
   input |-> worklist[r].input]

Sign(r, event, end) ==
  \E zone \in Zone :
    /\ report' = [report EXCEPT ![r] =
         [event |-> event, status |-> end.status, scope |-> end.scope,
          items |-> {Item(r, t, event, zone, end.outcome[t]) : t \in DOMAIN end.outcome}]]
    /\ pc' = [pc EXCEPT ![r] = "reported"]
    /\ UNCHANGED <<clock, ledger, receipts, scopes, runs, worklist>>

Report(r) ==
  pc[r] = "prepared" /\ \E end \in Ends : Sign(r, 1, end)

ResolveAgain(r) ==
  /\ pc[r] = "reported"
  /\ \E end \in Ends :
       /\ end.status = report[r].status /\ end.scope = report[r].scope
       /\ Sign(r, report[r].event, end)

EndAgain(r) ==
  /\ pc[r] \in {"reported", "acked"} /\ report[r].event < MaxEvents
  /\ \E end \in Ends : Sign(r, report[r].event + 1, end)

-----------------------------------------------------------------------------
(* The import: persist_agent_feed_atomic and the reconciliation commit or   *)
(* roll back together.                                                      *)

Reported(r) == {x.target : x \in report[r].items}

(* The rows of project_p0_agent_feed_receipt_scope: when the receipt of a   *)
(* completed event is redacted, its signed scope is kept; a repeated event  *)
(* is not redacted again.                                                   *)
Projected(r) ==
  IF report[r].status = "completed" /\ report[r].scope # {} /\ <<r, report[r].event>> \notin receipts
  THEN scopes \cup {[run |-> r, event |-> report[r].event, targets |-> report[r].scope]}
  ELSE scopes

(* What a completed event has to report: the scope signed for it or, when   *)
(* none was kept, the whole work unit.                                      *)
Owed(rows, r, event) ==
  LET signed == {x \in rows : x.run = r /\ x.event = event}
  IN IF signed = {} THEN Target ELSE UNION {x.targets : x \in signed}

(* Mutant of ScopeReported: a whole work unit completes any scope.          *)
ScopeWidened(r) ==
  report[r].status = "completed" =>
    Reported(r) \in {Target, Owed(Projected(r), r, report[r].event)}

ScopeReported(r) ==
  report[r].status = "completed" => Reported(r) = Owed(Projected(r), r, report[r].event)

RunMatches(r) == runs[r] \in {"open", report[r].status}

WithKeyOf(x) == {y \in ledger : y.target = x.target /\ y.run = x.run /\ y.event = x.event}

(* Mutant of SameContent: a used idempotency key is a duplicate.            *)
SameContentByKey(x, y) == TRUE

SameContent(x, y) ==
  /\ x.number = y.number /\ x.at.utc = y.at.utc
  /\ x.outcome = y.outcome /\ x.input = y.input

(* Mutant of NumberFollows: the stored attempts are not looked at.          *)
NumberFollowsAny(x) == TRUE

(* Mutant of NumberFollows: the last number may be used again.              *)
NumberRepeats(x) == \A y \in OfTarget(x.target) : y.number <= x.number

NumberFollows(x) == \A y \in OfTarget(x.target) : y.number < x.number

Admissible(r) ==
  /\ ScopeReported(r)
  /\ RunMatches(r)
  /\ \A x \in report[r].items :
       IF WithKeyOf(x) = {} THEN NumberFollows(x)
       ELSE \A y \in WithKeyOf(x) : SameContent(x, y)

Import(r) ==
  /\ pc[r] = "reported" /\ Admissible(r)
  /\ receipts' = receipts \cup {<<r, report[r].event>>}
  /\ scopes' = Projected(r)
  /\ runs' = IF runs[r] = "open" THEN [runs EXCEPT ![r] = report[r].status] ELSE runs
  /\ ledger' = ledger \cup {x \in report[r].items : WithKeyOf(x) = {}}
  /\ \/ pc' = [pc EXCEPT ![r] = "acked"]
     \/ UNCHANGED pc  \* the reply of COMMIT is lost
  /\ UNCHANGED <<clock, worklist, report>>

Tick ==
  /\ clock < MaxClock /\ clock' = clock + 1
  /\ UNCHANGED <<ledger, receipts, scopes, runs, pc, worklist, report>>

Next ==
  \/ Tick
  \/ \E r \in Run :
       \/ \E input \in Input : PrepareAll(r, input) \/ PrepareRetry(r, input)
       \/ Report(r) \/ ResolveAgain(r) \/ EndAgain(r)
       \/ Import(r)

Spec == Init /\ [][Next]_vars

-----------------------------------------------------------------------------
(* Types of the tables and of the workers' state.                           *)
TypeOK ==
  /\ clock \in 0..MaxClock
  /\ ledger \subseteq Checkpoint
  /\ receipts \subseteq Run \X (1..MaxEvents)
  /\ scopes \subseteq [run : Run, event : 1..MaxEvents, targets : SUBSET Target]
  /\ runs \in [Run -> Ended \cup {"open"}]
  /\ pc \in [Run -> {"idle", "prepared", "reported", "acked"}]
  /\ \A r \in Run :
       /\ IF pc[r] = "idle" THEN worklist[r] = NoWork ELSE worklist[r] \in Worklist
       /\ IF pc[r] \in {"idle", "prepared"} THEN report[r] = NoWork
          ELSE /\ report[r].event \in 1..MaxEvents /\ report[r].status \in Ended
               /\ report[r].scope \subseteq Target
               /\ report[r].items \subseteq Checkpoint

(* An import that was answered, possibly after replies were lost and its    *)
(* checkpoints resolved anew, is on record as reported: receipt, terminal   *)
(* status of the run, and every checkpoint (persist and the idempotency     *)
(* checks of reconcile_p0_agent_feed_work_unit).                            *)
AckedIsRecorded ==
  \A r \in Run : pc[r] = "acked" =>
    /\ <<r, report[r].event>> \in receipts
    /\ runs[r] = report[r].status
    /\ \A x \in report[r].items : \E y \in ledger :
         /\ y.target = x.target /\ y.run = x.run /\ y.event = x.event
         /\ y.number = x.number /\ y.at.utc = x.at.utc /\ y.outcome = x.outcome
         /\ y.input = x.input

(* Nobody builds on progress that others have moved past: the attempts of a *)
(* target are numbered without gap or repetition, so whoever made one knew  *)
(* of all before it (the monotone check of the reconciliation).             *)
EveryAttemptKnewTheLast ==
  \A t \in Target : {x.number : x \in OfTarget(t)} = 1..Attempts(t)

(* p0_checkpoint_attempt_regressed makes every later retry fail, for ever,  *)
(* since attempts are append-only.  While the producers of a target write   *)
(* observed_at in one zone, no interleaving leads there.                    *)
RefusalNeedsTwoZones ==
  \A x, y \in ledger :
    (x.target = y.target /\ x.at.zone = y.at.zone /\ Precedes(x, y)) => x.number < y.number

(* Each event that a completed run has on record left an attempt for        *)
(* exactly the targets it signed as checked, or for the whole work unit     *)
(* when it signed no scope: neither a second resolution of the event, after *)
(* a lost reply, nor a second event misses a signed target or widens a      *)
(* signed subset (scope projection and reconciliation, db/0017).            *)
CompletedCoversScope ==
  \A r \in Run, event \in 1..MaxEvents :
    runs[r] = "completed" /\ <<r, event>> \in receipts =>
      {x.target : x \in {y \in ledger : y.run = r /\ y.event = event}} = Owed(scopes, r, event)

(* What the view p0_agent_feed_target_progress, which orders attempts by    *)
(* number, shows as due under an input.                                     *)
Highest(rows) == CHOOSE x \in rows : \A y \in rows : y.number <= x.number

DueByView(input) ==
  {t \in Target :
     LET rows == {x \in ledger : x.target = t}
         good == {x \in rows : x.outcome = "resolved"}
         held == Highest(rows).outcome = "validation_rejected" /\ Highest(rows).input = input
         old  == clock >= Highest(good).at.utc + Cadence
     IN rows = {} \/ (~ held /\ (good = {} \/ old))}

(* The driver, which orders attempts by the text of observed_at, prepares   *)
(* exactly the targets that are due by the database's view.                 *)
RetryFollowsView ==
  [][\A r \in Run :
       (pc[r] = "idle" /\ pc'[r] = "prepared" /\ worklist'[r].mode = "retry") =>
         worklist'[r].targets = DueByView(worklist'[r].input)]_vars
=============================================================================
