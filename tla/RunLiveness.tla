----------------------------- MODULE RunLiveness -----------------------------
(***************************************************************************)
(* Expected-run liveness of one registered monitoring stream: run          *)
(* lifecycle events persisted by persist_agent_feed_atomic (db/0010),      *)
(* record_agent_feed_started, record_agent_feed_run and the sweep          *)
(* sweep_overdue_monitor_streams (db/0004).                                *)
(*                                                                         *)
(* Handlers and the sweep are READ COMMITTED transactions, cut where a     *)
(* statement waits for a row or takes a new snapshot.  A handler locks the *)
(* receipt, then the run's row, then the stream's expectation row; the     *)
(* sweep reads the expectation four times and locks it at the third.       *)
(* Tables hold committed rows; a transaction's own writes are in row,      *)
(* resolved and sweep until it commits.                                    *)
(*                                                                         *)
(* An event is identified with its delivery: other bodies or attempts      *)
(* under one event_id are the subject of AgentFeedIntake.                  *)
(***************************************************************************)
EXTENDS Integers, FiniteSets

CONSTANTS
  Handler,    \* concurrent requests served by the consumer
  Run,        \* run_id
  Scope,      \* expected_scope
  Delivery,   \* [run, kind, occurred, at, scope]: signed lifecycle events
  Window,     \* expected_cadence_seconds + grace_seconds
  MaxClock,   \* bound on the clock
  Monitored,  \* whether the stream has rows in monitor_stream_sources
  NoTime,     \* SQL null of a timestamp
  NoScope,    \* scope of a run that has no row
  NoDelivery  \* a handler without a request

Time == 0..MaxClock

Ended == {"completed", "partial", "failed", "cancelled"}

ASSUME RunAssumption ==
  /\ Window \in Nat \ {0} /\ MaxClock \in Nat
  /\ Monitored \in BOOLEAN
  /\ Delivery \subseteq [run : Run, kind : {"started"} \cup Ended, occurred : Time,
                         at : Time, scope : Scope]
  /\ NoTime \notin Int /\ NoScope \notin Scope /\ NoDelivery \notin Delivery

VARIABLES
  clock,     \* the database's clock
  receipts,  \* processing_status of each event's receipt
  runs,      \* agent_feed_run_lifecycle, replay_attempt 0
  stream,    \* the stream's row of monitor_stream_expectations
  freshness, \* source_monitoring_freshness of the stream's sources
  incidents, \* detected_at of the open monitoring_incidents
  pc,        \* where each handler is
  job,       \* the event it persists
  began,     \* when its transaction began: now()
  known,     \* what its select on the run returned
  row,       \* its run's row as this transaction leaves it
  resolved,  \* incidents its update has resolved
  sweep      \* the sweep: where it is and what it has written

tables   == <<receipts, runs, stream, freshness, incidents>>
handlers == <<pc, job, began, known, row, resolved>>
vars == <<clock, tables, handlers, sweep>>

NoRow == [state |-> "absent", from |-> NoTime, at |-> NoTime, scope |-> NoScope]

Row == [state : {"absent", "started"} \cup Ended, from : Time \cup {NoTime},
        at : Time \cup {NoTime}, scope : Scope \cup {NoScope}]

Degradations == {"partial_run", "failed_run", "scope_degradation"}
Absences     == {"overdue_run", "absent_expected_run"}

(* The incident a run that is not completed opens.                         *)
IncidentOf(kind) ==
  CASE kind = "partial" -> "partial_run"
    [] kind = "failed"  -> "failed_run"
    [] OTHER            -> "scope_degradation"

TypeOK ==
  /\ clock \in Time
  /\ receipts \in [Delivery -> {"absent", "mapped", "duplicate"}]
  /\ runs \in [Run -> Row]
  /\ stream \in [due : 0..(MaxClock + Window) \cup {NoTime},
                 liveness : {"never_seen", "healthy", "degraded", "overdue"},
                 lastAt : Time \cup {NoTime},
                 lastRun : Run \cup {"none"}, lastStatus : Ended \cup {"none"}]
  /\ freshness \in {"unknown", "healthy", "degraded", "stale"}
  /\ incidents \in [Degradations \cup Absences -> Time \cup {NoTime}]
  /\ pc \in [Handler -> {"idle", "received", "accepted", "looked", "recorded",
                         "expected", "settled"}]
  /\ job \in [Handler -> Delivery \cup {NoDelivery}]
  /\ began \in [Handler -> Time]
  /\ known \in [Handler -> {"absent", "started", "ended"}]
  /\ row \in [Handler -> Row]
  /\ resolved \in [Handler -> SUBSET (Degradations \cup Absences)]
  /\ sweep \in [pc : {"idle", "absent", "raised", "marked", "judged"}, now : Time,
                raised : SUBSET Absences, marks : BOOLEAN, judges : BOOLEAN]

IdleSweep == [pc |-> "idle", now |-> 0, raised |-> {}, marks |-> FALSE, judges |-> FALSE]

Init ==
  /\ clock = 0
  /\ receipts = [d \in Delivery |-> "absent"]
  /\ runs = [r \in Run |-> NoRow]
  /\ stream = [due |-> NoTime, liveness |-> "never_seen", lastAt |-> NoTime,
               lastRun |-> "none", lastStatus |-> "none"]
  /\ freshness = "unknown"
  /\ incidents = [t \in Degradations \cup Absences |-> NoTime]
  /\ pc = [h \in Handler |-> "idle"]
  /\ job = [h \in Handler |-> NoDelivery]
  /\ began = [h \in Handler |-> 0]
  /\ known = [h \in Handler |-> "absent"]
  /\ row = [h \in Handler |-> NoRow]
  /\ resolved = [h \in Handler |-> {}]
  /\ sweep = IdleSweep

----------------------------------------------------------------------------
(* Locks.                                                                  *)

(* Mutant of HoldsReceipt: the receipt is held while it is waited for.     *)
ReceiptHeldFromTheStart(h) == pc[h] # "idle"

HoldsReceipt(h) == pc[h] \in {"accepted", "looked", "recorded", "expected", "settled"}
HoldsRun(h) ==
  \/ pc[h] = "looked" /\ known[h] # "absent"
  \/ pc[h] \in {"recorded", "expected", "settled"}
HoldsStream(h) == pc[h] \in {"expected", "settled"}

ReceiptFree(d) == \A h \in Handler : ~ (HoldsReceipt(h) /\ job[h] = d)
RunFree(r)     == \A h \in Handler : ~ (HoldsRun(h) /\ job[h].run = r)
StreamFree     == /\ \A h \in Handler : ~ HoldsStream(h)
                  /\ ~ sweep.marks

----------------------------------------------------------------------------
(* A request: persist_agent_feed_atomic of one lifecycle event.            *)

Idle(h) ==
  /\ pc' = [pc EXCEPT ![h] = "idle"]
  /\ job' = [job EXCEPT ![h] = NoDelivery]
  /\ began' = [began EXCEPT ![h] = 0]
  /\ known' = [known EXCEPT ![h] = "absent"]
  /\ row' = [row EXCEPT ![h] = NoRow]
  /\ resolved' = [resolved EXCEPT ![h] = {}]

(* An event arrives after it happened, any number of times.                *)
Receive(h, d) ==
  /\ pc[h] = "idle"
  /\ d.occurred <= clock /\ d.at <= clock
  /\ pc' = [pc EXCEPT ![h] = "received"]
  /\ job' = [job EXCEPT ![h] = d]
  /\ began' = [began EXCEPT ![h] = clock]
  /\ UNCHANGED <<clock, tables, known, row, resolved, sweep>>

(* A statement failed: the transaction is rolled back, the answer is 500.  *)
Throw(h) == Idle(h) /\ UNCHANGED <<clock, tables, sweep>>

Goto(h, place) == pc' = [pc EXCEPT ![h] = place]

(* The receipt's row is locked; a completed receipt ends the request.      *)
Accept(h) ==
  /\ pc[h] = "received"
  /\ ReceiptFree(job[h])
  /\ IF receipts[job[h]] # "absent"
     THEN Idle(h)
     ELSE Goto(h, "accepted") /\ UNCHANGED <<job, began, known, row, resolved>>
  /\ UNCHANGED <<clock, tables, sweep>>

(* record_agent_feed_started                                               *)
RecordStarted(h) ==
  LET d == job[h] IN
  /\ pc[h] = "accepted" /\ d.kind = "started"
  /\ RunFree(d.run)
  /\ IF runs[d.run].state = "started" /\ runs[d.run].scope # d.scope
     THEN Throw(h)
     ELSE /\ Goto(h, "recorded")
          /\ \/ /\ runs[d.run].state = "absent"
                /\ row' = [row EXCEPT ![h] = [state |-> "started", from |-> d.occurred,
                                              at |-> NoTime, scope |-> d.scope]]
                /\ UNCHANGED known
             \/ /\ runs[d.run].state # "absent"
                /\ row' = [row EXCEPT ![h] = runs[d.run]]
                /\ known' = [known EXCEPT ![h] = "started"]
          /\ UNCHANGED <<clock, tables, job, began, resolved, sweep>>

Closed(d, from) == [state |-> d.kind, from |-> from, at |-> d.at, scope |-> d.scope]

(* Mutant of Closable: an ended run is closed again.                       *)
ClosableAlways(r) == runs[r].state # "absent"

(* Only a started row is closed; an ended one is immutable.                *)
Closable(r) == runs[r].state = "started"

(* select run_state for update, and the update that closes a started row.  *)
(* A row another transaction has inserted and not committed is invisible.  *)
LockRun(h) ==
  LET d == job[h] IN
  /\ pc[h] = "accepted" /\ d.kind # "started"
  /\ \/ /\ runs[d.run].state = "absent"
        /\ Goto(h, "looked")
        /\ UNCHANGED <<clock, tables, job, began, known, row, resolved, sweep>>
     \/ /\ runs[d.run].state # "absent"
        /\ RunFree(d.run)
        /\ IF Closable(d.run) /\ d.at < runs[d.run].from
           THEN Throw(h)
           ELSE /\ Goto(h, "looked")
                /\ known' = [known EXCEPT ![h] =
                     IF runs[d.run].state = "started" THEN "started" ELSE "ended"]
                /\ row' = [row EXCEPT ![h] =
                     IF Closable(d.run) THEN Closed(d, runs[d.run].from) ELSE runs[d.run]]
                /\ UNCHANGED <<clock, tables, job, began, resolved, sweep>>

(* insert ... on conflict (stream_id, run_id, replay_attempt) do update ... *)
(* where run_state = 'started', and the select of the row that results.    *)
RecordRun(h) ==
  LET d == job[h] IN
  /\ pc[h] = "looked"
  /\ \/ known[h] # "absent" /\ Goto(h, "recorded") /\ UNCHANGED <<clock, tables, job, began, known, row, resolved, sweep>>
     \/ /\ known[h] = "absent" /\ RunFree(d.run)
        /\ IF runs[d.run].state = "absent" /\ d.at < d.occurred
           THEN Throw(h)
           ELSE /\ Goto(h, "recorded")
                /\ row' = [row EXCEPT ![h] =
                     CASE runs[d.run].state = "absent"  -> Closed(d, d.occurred)
                       [] runs[d.run].state = "started" -> [runs[d.run] EXCEPT !.scope = d.scope]
                       [] OTHER                         -> runs[d.run]]
                /\ UNCHANGED <<clock, tables, job, began, known, resolved, sweep>>

(* Mutant of HasTime: the not-null constraints are missing.                *)
NullTimeAccepted(h) == TRUE

(* updated_at and detected_at are not null.                                *)
HasTime(h) == row[h].at # NoTime

(* The updates of the expectation and of the sources' freshness.           *)
Expect(h) ==
  /\ pc[h] = "recorded" /\ job[h].kind # "started"
  /\ StreamFree
  /\ IF Monitored /\ ~ HasTime(h)
     THEN Throw(h)
     ELSE Goto(h, "expected") /\ UNCHANGED <<clock, tables, job, began, known, row, resolved, sweep>>

Open(t) == incidents[t] # NoTime

(* Mutant of ResolvedBy: completion leaves degradations open.              *)
AbsencesOnly(kind) == Absences

(* A run of that kind ends these incidents.                                *)
ResolvedBy(kind) == IF kind = "completed" THEN Absences \cup Degradations ELSE Absences

(* Resolve incidents, and open one unless one of its type is open.  An     *)
(* incident may not be resolved before it was detected.                    *)
Settle(h) ==
  LET kind == job[h].kind
      gone == {t \in ResolvedBy(kind) : Open(t)}
  IN
  /\ pc[h] = "expected"
  /\ IF \/ \E t \in gone : incidents[t] > began[h]
        \/ kind # "completed" /\ ~ Open(IncidentOf(kind)) /\ ~ HasTime(h)
     THEN Throw(h)
     ELSE /\ Goto(h, "settled")
          /\ resolved' = [resolved EXCEPT ![h] = gone]
          /\ UNCHANGED <<clock, tables, job, began, known, row, sweep>>

----------------------------------------------------------------------------
(* COMMIT.                                                                 *)

CommitStarted(h) ==
  LET d == job[h] IN
  /\ pc[h] = "recorded" /\ d.kind = "started"
  /\ runs' = [runs EXCEPT ![d.run] = row[h]]
  /\ receipts' = [receipts EXCEPT ![d] = IF known[h] = "absent" THEN "mapped" ELSE "duplicate"]
  /\ Idle(h)
  /\ UNCHANGED <<clock, stream, freshness, incidents, sweep>>

(* Mutant of Health: the run status is copied.                             *)
HealthByName(kind) == kind

Health(kind) == IF kind = "completed" THEN "healthy" ELSE "degraded"

(* Mutant of Greatest: the last delivery wins.                             *)
NewestTime(s, t) == t

(* greatest ignores nulls.                                                 *)
Greatest(s, t) ==
  IF s = NoTime THEN t ELSE IF t = NoTime THEN s ELSE IF s < t THEN t ELSE s

DueAfter(t) == IF t = NoTime THEN NoTime ELSE t + Window

(* Mutant of FreshnessAfter: only completion is written.                   *)
FreshnessNeverLowered(kind) ==
  IF Monitored /\ kind = "completed" THEN "healthy" ELSE freshness

FreshnessAfter(kind) == IF Monitored THEN Health(kind) ELSE freshness

CommitEnded(h) ==
  LET d == job[h] IN
  /\ pc[h] = "settled"
  /\ runs' = [runs EXCEPT ![d.run] = row[h]]
  /\ receipts' = [receipts EXCEPT ![d] = IF known[h] = "ended" THEN "duplicate" ELSE "mapped"]
  /\ stream' = [due |-> DueAfter(row[h].at), liveness |-> Health(d.kind),
                lastAt |-> Greatest(stream.lastAt, row[h].at),
                lastRun |-> d.run, lastStatus |-> d.kind]
  /\ freshness' = FreshnessAfter(d.kind)
  /\ incidents' = [t \in DOMAIN incidents |->
       IF t \in resolved[h] THEN NoTime
       ELSE IF d.kind # "completed" /\ t = IncidentOf(d.kind) /\ ~ Open(t) THEN row[h].at
       ELSE incidents[t]]
  /\ Idle(h)
  /\ UNCHANGED <<clock, sweep>>

(* Any statement fails, or the process dies: the transaction is rolled     *)
(* back and the producer keeps the event.                                  *)
Abort(h) == pc[h] # "idle" /\ Throw(h)

----------------------------------------------------------------------------
(* sweep_overdue_monitor_streams: one transaction, a snapshot a statement. *)

Passed(now) == stream.due # NoTime /\ now > stream.due

SweepAbsent ==
  /\ sweep.pc = "idle"
  /\ sweep' = [sweep EXCEPT !.pc = "absent", !.now = clock,
       !.raised = IF stream.due = NoTime /\ stream.liveness = "never_seen"
                     /\ ~ Open("absent_expected_run")
                  THEN {"absent_expected_run"} ELSE {}]
  /\ UNCHANGED <<clock, tables, handlers>>

(* Mutant of RaiseOverdue: no incident is opened.                          *)
RaiseNothing == {}

RaiseOverdue == IF Passed(sweep.now) /\ ~ Open("overdue_run") THEN {"overdue_run"} ELSE {}

SweepOverdue ==
  /\ sweep.pc = "absent"
  /\ sweep' = [sweep EXCEPT !.pc = "raised", !.raised = @ \cup RaiseOverdue]
  /\ UNCHANGED <<clock, tables, handlers>>

(* The update waits for the expectation row and then tests it again.       *)
SweepMark ==
  /\ sweep.pc = "raised"
  /\ Passed(sweep.now) => StreamFree
  /\ sweep' = [sweep EXCEPT !.pc = "marked", !.marks = Passed(sweep.now)]
  /\ UNCHANGED <<clock, tables, handlers>>

SweepJudge ==
  /\ sweep.pc = "marked"
  /\ sweep' = [sweep EXCEPT !.pc = "judged", !.judges = Monitored /\ Passed(sweep.now)]
  /\ UNCHANGED <<clock, tables, handlers>>

SweepCommit ==
  /\ sweep.pc = "judged"
  /\ sweep.judges => \A h \in Handler : ~ HoldsStream(h)
  /\ incidents' = [t \in DOMAIN incidents |->
                     IF t \in sweep.raised THEN sweep.now ELSE incidents[t]]
  /\ stream' = IF sweep.marks THEN [stream EXCEPT !.liveness = "overdue"] ELSE stream
  /\ freshness' = IF sweep.judges THEN "stale" ELSE freshness
  /\ sweep' = IdleSweep
  /\ UNCHANGED <<clock, receipts, runs, handlers>>

Sweep == SweepAbsent \/ SweepOverdue \/ SweepMark \/ SweepJudge \/ SweepCommit

Tick ==
  /\ clock < MaxClock
  /\ clock' = clock + 1
  /\ UNCHANGED <<tables, handlers, sweep>>

Step(h) ==
  \/ Accept(h) \/ RecordStarted(h) \/ LockRun(h) \/ RecordRun(h) \/ Expect(h) \/ Settle(h)
  \/ CommitStarted(h) \/ CommitEnded(h)

Next ==
  \/ \E h \in Handler :
       \/ \E d \in Delivery : Receive(h, d)
       \/ Accept(h)
       \/ RecordStarted(h)
       \/ LockRun(h)
       \/ RecordRun(h)
       \/ Expect(h)
       \/ Settle(h)
       \/ CommitStarted(h)
       \/ CommitEnded(h)
       \/ Abort(h)
  \/ SweepAbsent
  \/ SweepOverdue
  \/ SweepMark
  \/ SweepJudge
  \/ SweepCommit
  \/ Tick

Spec == Init /\ [][Next]_vars

(***************************************************************************)
(* Fairness.  A handler that can go on again and again does, since         *)
(* PostgreSQL queues the waiters of a lock; the producer repeats what is   *)
(* not acknowledged; the sweep is scheduled for ever; time passes; some    *)
(* time after the last fault statements stop failing.                      *)
(***************************************************************************)

(* A failure that no constraint of a table explains.                       *)
Fault == \E h \in Handler : Abort(h) /\ ~ Step(h)

FairSpec ==
  /\ Spec
  /\ \A h \in Handler : SF_vars(Step(h))
  /\ \A d \in Delivery : SF_vars(\E h \in Handler : Receive(h, d))
  /\ SF_vars(Sweep)
  /\ WF_vars(Tick)
  /\ <>[][~ Fault]_vars

----------------------------------------------------------------------------
(* Properties.                                                             *)

IsEnded(r) == runs[r].state \in Ended

(* What a run ended with never changes, whatever lifecycle events follow   *)
(* and whichever order the handlers commit in.                             *)
EndIsFinal == [][\A r \in Run : IsEnded(r) => runs'[r] = runs[r]]_vars

(* An event accepted as the end of a run has ended it: no interleaving of  *)
(* a start and an end leaves an acknowledged run open.  (docs/17, line 28, *)
(* counts on it: "no terminal run means the lane is overdue".)             *)
EndEndsTheRun ==
  \A d \in Delivery : d.kind # "started" /\ receipts[d] # "absent" => IsEnded(d.run)

(* last_terminal_run_at is the latest end on record even when ends are     *)
(* delivered out of order.                                                 *)
LastEndIsLatest ==
  LET ends == {runs[r].at : r \in {q \in Run : IsEnded(q)}}
  IN  /\ stream.lastAt \in ends \cup {NoTime}
      /\ \A t \in ends : stream.lastAt # NoTime /\ t <= stream.lastAt

(* The sources of a stream are never displayed as fresh while the stream   *)
(* is degraded or overdue.                                                 *)
FreshIsHealthy == freshness = "healthy" => stream.liveness = "healthy"

(* A degraded stream has an open incident of the kind its last run calls   *)
(* for, and a healthy one has none left from earlier runs.                 *)
DegradationExplained ==
  /\ stream.liveness = "degraded" => Open(IncidentOf(stream.lastStatus))
  /\ stream.liveness = "healthy" => \A t \in Degradations : ~ Open(t)

(* Every event is recorded in the end, although transactions fail, wait    *)
(* for each other or are refused because they overtook one another.        *)
EveryEventRecorded == \A d \in Delivery : <>(receipts[d] # "absent")

(* When the producer stops, the missed run is noticed: the stream becomes  *)
(* and stays overdue, its sources stale, and an incident is open.          *)
MissedRunNoticed ==
  <>[](stream.liveness = "overdue" /\ freshness = "stale" /\ Open("overdue_run"))

(* docs/15, line 148: "A missed-run incident downgrades affected source    *)
(* freshness before recommendation rendering."                             *)
IncidentDowngrades == Open("overdue_run") => freshness # "healthy"
==============================================================================
