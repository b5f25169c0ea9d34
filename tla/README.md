# Verification of the Japan Rewards Optimizer

TLA+ specifications, TLC models and TLAPS proofs kept beside the code of the
Japan Rewards Optimizer (TypeScript packages over PostgreSQL). Every definition
is translated from the source; `PROJECT.json` maps it to the lines it stands for.

    tlc -workers 2 -config IntakeRace.cfg MCIntake.tla      # one run
    tlapm AgentFeedIntakeProofs.tla                         # the proofs of one component

## 1. The system

A sibling system, *Agent Feed* (external), signs webhooks: findings about reward
programmes, and the lifecycle of its monitoring runs. The optimizer receives
them, turns findings into source observations, has people review evidence,
publishes rule versions, and computes recommendations from them.

    Agent Feed --signed HTTP--> agent-feed-consumer --> agent-feed-postgres --> db/0002,0004,0010
                                                                |
      monitor_stream_expectations / freshness / incidents <-----+-----> source_observations
                                                                             |
      p0-source-operations (scheduling) --- provisional-rules, golden publication (review)
                                                                             |
      consumer-alpha / recommendation-api  <---  rule-engine  <--- published rule versions

| component | state it keeps | operations | hard behaviour | what makes it correct |
|---|---|---|---|---|
| Agent Feed intake: `packages/agent-feed-consumer/src/handler.ts`, `packages/agent-feed-postgres/src/adapter.ts`, `accept_agent_feed_event`, `map_agent_feed_finding`, `persist_agent_feed_atomic` (db/0004, db/0010) | receipts, delivery attempts, links, semantic key registry, observations, evidence work, dead letters | handle a request; persist in one transaction; enqueue a dead letter; request replay | concurrent handlers; retries and network duplicates; a lost COMMIT reply; crashes; one event id with two bodies; two events with one meaning | a 2xx is a promise; one canonical observation per fingerprint; quarantine isolated; effects once; every request ends |
| Expected-run liveness: the lifecycle branch of `persist_agent_feed_atomic`, `record_agent_feed_started/run`, `sweep_overdue_monitor_streams` | run lifecycle rows, stream expectation, source freshness, incidents | start, end of a run; sweep | the sweep takes four snapshots; start and end overlap; ends out of order or late; conflicting ends | ends are final; accepted ends end runs; fresh implies healthy; a missed run is noticed |
| P0 source operations: `packages/p0-source-operations`, `p0-terminal-import.ts`, db/0013, db/0017 | receipts, runs and append-only target attempts of one work unit | prepare a full or a retry worklist; import a terminal event with its checkpoints | workers overtaken between preparation and import; a lost reply; a second terminal event; producers in several time zones | what is acknowledged is recorded; attempts are numbered without gap; a completed event reports the scope it signed; retries follow the database's view |
| Provisional rules: `packages/provisional-rules` | envelopes, corrections, publication batches | admit, activate, compile, correct, publish, replay, select | any order of calls; replay after a correction; one identity under two batches | a disputed rule is never live again; a replay answers only what is live |
| Rule engine, plans: `packages/rule-engine/src/engine.ts`, `m1b-stacking.ts`, `m1b-caps.ts`, `m1b-lifecycle.ts` | cap progress of a plan, reward components | purchase, refund, reversal | rules and operations that share a cap; unknown progress; partial refunds | caps hold in the sum; what is paid is compatible; no return takes back more than its share |
| Rule engine, routes: `packages/rule-engine/src/point-route-optimizer.ts` | balance left, period counters, legs | allocate the best leg, finish | two rules of one counter; rounding over two hops, forwards and backwards | counters hold over the legs; no maximum of a later hop strands units; each hop moves the most it can |
| Evidence promotion (db/0004 l.1001, triggers of db/0012 and later) | evidence work, observation status, trust state | promote, reject, close | two projections updated one by one | trust never exceeds the decision |
| Run bundles (`run-bundle.ts`) | none | normalise a manual bundle into events | order, identifiers | start before findings before end; identifiers stable on replay |
| Consumer state machine | one consumer document | `transitionConsumerState` | an evaluation that comes back late | no result of an older input is shown |
| Recommendation API | append-only history | recommend, replay | replay against newer rules | a replay reproduces its recommendation |
| Source maintenance | check ledger | direct checks with retries | retry after a late answer | a check is recorded once |
| Golden publication (db/0003, db/0005) | rule versions, seals, requests | seal, request, publish | direct writes beside the functions | a sealed version is immutable |
| Visual asset store | assets, proposals | save | a transaction issued on a pool | all or nothing |
| Projections, contracts, fixtures, registry, challenge track | none, or immutable data | read, validate, report | none | structural |

Interaction is by calls within a process, and between processes only through
PostgreSQL tables at READ COMMITTED: a statement sees what was committed when
the statement began, waits for rows other transactions hold, and then sees the
newer version of the row it waited for. Nearly everything hard about the first
two components comes from that sentence. The rule packages are synchronous: what
is hard about them is the order of calls and the order in which rules, caps and
hops are decided.

## 2. Plan

| no. | module | content | state |
|---|---|---|---|
| 1 | `AgentFeedIntake`, abstract `IntakeContract` | intake of findings | modelled, checked, proved |
| 2 | `RunLiveness` | run lifecycle, sweep, incidents, one stream | modelled, checked, proved |
| 3 | `P0Operations` | worklists, terminal import, progress | modelled, checked, proved |
| 4 | `ProvisionalRules`, abstract `RuleContract` | the store of experimental rules | modelled, checked, proved |
| 5 | `Stacking` under `ResolveStacking` | the kernel that decides which rules are paid together | modelled, checked, proved |
| 5b | `Stacking`, `RewardCaps`, composed by `PurchasePlan` | plans of purchases, refunds and reversals | modelled, checked, proved |
| 6 | `RouteAllocation` | one balance over the routes to one target | modelled, checked, proved |
| 7 | `AgentFeedIntakeProofs`, `RunLivenessProofs`, `P0OperationsProofs`, `ProvisionalRulesProofs`, `StackingProofs`, `PurchasePlanProofs`, `RouteAllocationProofs`, over the lemmas of `OperatorTheorems` | every safety property of modules 1 to 6 and the two contracts, for all constants (section 10) | proved |
| 8 | `EvidencePromotion` | promotion and its projections; composes with the intake's `work` | planned |
| 9 | `RunLiveness` with shared sources | several streams, two sweeps | planned |
| 10 | `BitemporalRules` | selection of rule versions by valid and record time | planned |

Every module named `MC...` only gives values to constants, and bounds.

## 3. AgentFeedIntake

**What it models.** `Handler` processes serve requests. `Receive` takes any
delivery ever signed; one that fails verification (signature, size, not an
event) goes to `answering` with nothing persisted. Everything a body can be
found to be is `Verdict[payload]`: bytes, schemas and security scanners are
abstracted to their conclusion. A *delivery* is event id, body, attempt number
and signing (timestamp and signature); redelivering the same record is a network
duplicate, a second record with one attempt number is a re-signed retry.

| variable | code |
|---|---|
| `receipts[e]` | row of `agent_feed_receipts`: status and payload digest |
| `attempts` | `agent_feed_delivery_attempts` |
| `links[e]` | `source_observation_transport_links` of the receipt |
| `registry[f]` | `source_observation_semantic_keys.first_receipt_id` |
| `observations`, `work[f]` | `source_observations`; the evidence work of their leads, requested, or advanced once any of it was reviewed |
| `deadLetters[e]` | the open dead letter of the receipt |
| `pc`, `job`, `seen`, `outcome` | one request and its open transaction |
| `acked` | deliveries whose 2xx reached the producer |

A transaction is cut at the points where another session can be noticed:

1. `Accept`: insert the receipt on conflict do nothing, `select ... for update`.
   Waits for the row (`ReceiptRowFree`). It contains the digest comparison, the
   comparison of the attempt, the test for a completed receipt, and the
   quarantine branch, which needs no other lock.
2. `LookUpKey`: `pg_advisory_xact_lock` of the fingerprint, select on the registry.
3. `WriteMapping`: the inserts, or the link to the older observation. The
   registry's primary key is modelled (`InsertingKey`, `unique_violation`), so
   that the property that it never refuses an insert says something.
4. `Commit`: rows become visible (`MakeVisible`). `CommitReplyLost` is the same
   with the reply lost: the adapter rethrows and the handler answers 500.
   `Abort`: any statement fails. `Crash`: the process dies or the answer is lost.

`EnqueueDeadLetter`, `RequestReplay` and `AdvanceWork` are the other writers of
these tables: an operator and the evidence review. Rows a transaction has
written are not stored separately; they are determined by `pc`, `job`, `outcome`.

Evidence work is one row per submitted reference, and a finding may submit none
(`Evidenced` names the bodies that do): such a finding is mapped without work.
The fingerprint does not cover the evidence, so the work of an observation
depends on which of two findings with one meaning is mapped first: the evidence
of the other is dropped with its raw body. `ReceiptExplained` states exactly
that; in both runs body `a` submits evidence, and `b`, of the same meaning, none.

**Runs.** Two handlers, two events, two fingerprints.

| run | deliveries | shows |
|---|---|---|
| `intake_race` | under one event id a finding, a retry of it, another body, a quarantined and a flagged body; under the other a finding of the same meaning, signed twice for one attempt, a body the database refuses and one that fails verification | `TypeOK`, `AckedIsDurable`, `OneObservationPerFingerprint`, `RaceIsNotAnError`, `ReceiptExplained`, `NoHalfReceipt`, `QuarantineIsolated`, `EffectsOnce`, `ImplementsContract`, and `IInv`, on which the proofs rest |
| `intake_liveness` | two events with one meaning, under fairness | `EveryRequestEnds`, `EventuallyAcked` |

Two handlers are enough for each interleaving the locks could permit: every
lock is between one holder and one waiter. Nothing counts, so no bound other
than the constants is needed; a delivery may arrive any number of times.
`HandlerSymmetry` is used where no liveness is checked.

**Contract.** `IntakeContract` has only the decision about an event, the owner of
a fingerprint and what the producer was told. `decisions`, `toldEvents` and
`registry` are the refinement mapping.

**Fairness** (`FairSpec`). Strong fairness of a handler's own steps: PostgreSQL
queues the waiters of a row or advisory lock, so one that can take it again and
again takes it. Strong fairness of each delivery: "Agent Feed retries until
acknowledgement" (docs/15_agent_feed_integration.md, line 114), to handlers that
become idle again and again. Faults (`Fault`) stop eventually: without that, a retry may
fail for ever. `EventuallyAcked` excludes bodies the code refuses always, and
deliveries whose event id or attempt number was used for something else: a retry
of one attempt number under a new signature is one of those, refused for ever.

## 4. RunLiveness

**What it models.** One registered stream and its sources. A handler's
transaction waits, in this order, for the receipt, the run's row and the
stream's expectation row:

| action | code |
|---|---|
| `Accept` | receipt insert and lock; a completed receipt ends the request |
| `RecordStarted` | `record_agent_feed_started` |
| `LockRun` | the end's `select run_state ... for update` and the update closing a started row. A row another session has not committed is not seen |
| `RecordRun` | `insert ... on conflict do update ... where run_state = 'started'` in `record_agent_feed_run`, and the select after it |
| `Expect`, `Settle` | update of expectation and freshness; resolve and insert incidents |
| `CommitStarted`, `CommitEnded` | COMMIT |
| `SweepAbsent`, `SweepOverdue`, `SweepMark`, `SweepJudge`, `SweepCommit` | the four statements of `sweep_overdue_monitor_streams`, each with its snapshot, and COMMIT |

Constraints of the tables that can refuse a transaction are guards with `Throw`:
`terminal_at >= started_at`, `resolved_at >= detected_at`, not-null times. Time
is a small clock (`MaxClock`); `Window` stands for cadence plus grace. An event
arrives only after the times it carries: ends dated in the future are not
modelled. `Monitored` says whether the stream has rows in
`monitor_stream_sources`; `db/seeds/003` registers streams without any, and only
tests insert such rows.

| run | deliveries | shows |
|---|---|---|
| `run_two` | a run started twice with two scopes and ended by two contradicting events, one dated after the end it reports; the end of a later run that never started | `TypeOK`, `LastEndIsLatest`, `FreshIsHealthy`, `EndEndsTheRun`, `DegradationExplained`, `EndIsFinal` (monitored stream) |
| `run_noticed` | start and end of one run, under fairness | `EveryEventRecorded`, `MissedRunNoticed` |
| `run_lost_end` | start and end of one run on a stream without monitored sources | violation of `EndEndsTheRun` |
| `run_sweep_race` | two completed runs | violation of `IncidentDowngrades` |

`MaxClock` is 2, and 3 in `run_sweep_race`, where a run has to fall due first and
the next to end. In `run_two` the constraint `OtherStartOrLaterEnd` leaves out
behaviours with both the second start and the later run: they concern different
rows. Due dates are at most `Window = 1` after the last end, so before,
at and after the due date are all reached. `HandlerSymmetry` is used in `run_two`.

**Fairness.** As above; the sweep is scheduled for ever (strongly fair, it waits
for the expectation row), time passes, and failures no
constraint of a table explains stop eventually; refusals by a constraint may go on.
`MissedRunNoticed` holds because the deliveries are finite: the producer stops.

## 5. P0Operations

**What it models.** Workers are runs. `PrepareAll` and `PrepareRetry` read the
progress and remember it (`worklist[r].known`); whatever other runs import before
`r` does is what `r` does not know. `Report`, `ResolveAgain` and `EndAgain` are the
external producer: an event, the same event resolved to other checkpoints, a second
terminal event. An event carries the targets the producer signed as checked
(`scope`, empty when it signed no valid list). `Import` is one transaction: it holds the advisory lock of the
manifest, so imports are serial and its admission checks (`ScopeReported`,
`RunMatches`, `SameContent`, `NumberFollows`) are evaluated in the state it changes.
Its reply may be lost.

The body of a terminal event is redacted when its receipt is completed; a trigger of
db/0017 keeps the signed scope (`scopes`), and the reconciliation of db/0017, which
replaces that of db/0013, compares the checkpoints of a completed event with it, or
with the whole work unit when none was kept (`Owed`). Nothing compares either with
the worklist: what a run was asked for binds nobody, and the model lets a producer
report any targets. A scope with targets outside the work unit is always refused and
is not among the inputs.

| variable | code |
|---|---|
| `ledger` | `p0_agent_feed_target_attempts` |
| `receipts`, `runs` | `agent_feed_receipts` of terminal events; status in `agent_feed_run_lifecycle` |
| `scopes` | `p0_agent_feed_receipt_scope_projections` |
| `pc`, `worklist`, `report` | a worker's files between preparation and import |

`observed_at` is a time and a zone, because the reducer sorts by the text of it
(`TextBefore`) where the database numbers the attempts: 09:00 in Tokyo sorts after
08:30 UTC and is earlier.

**Run `p0_workers`.** Three runs, two targets, two inputs, two zones; a run ends
complete on both targets without a signed scope, complete on the one it signed, or
with one target rejected and one late; and, to be refused, with both targets under
the signature of one, or with one target and no signature. `MaxClock = 1` and
`Cadence = 1`: attempts are fresh, and old enough to be due again. `MaxEvents = 2`:
a run that signs twice. The constraint `ThirdRunIsPlain` bounds what is combined: of
two runs one signs a second event; a report astray (outside its worklist or refused
for its scope) meets one other run, which prepares; and a third run only prepares,
when the other two are on record with one event each under one input. The third run
is needed because two imports (one in each zone) may leave a ledger that no retry
can be prepared from; more of it repeats what two runs do to each other.

- `AckedIsRecorded`: an answered import is on record as reported, also if it
  repeats an import whose answer was lost.
- `EveryAttemptKnewTheLast`: numbers have no gap and no repetition, so the
  worker of each attempt knew of all before it.
- `RefusalNeedsTwoZones`: a ledger that cannot be reduced, after which no retry
  of the work unit can ever be prepared, is reached only with two time zones.
- `CompletedCoversScope`: each event of a completed run has attempts for exactly
  the targets it signed, or for the whole work unit, also if it was resolved twice
  and if the run ended twice.
- `RetryFollowsView`: the driver, ordering by text, and the view
  `p0_agent_feed_target_progress`, ordering by number, agree on what is due
  whenever the driver prepares a retry.

## 6. ProvisionalRules

**What it models.** One action per call that changes the store: `Admit`,
`Activate`, `Compile`, `ReportCorrection`, `Publish`; and `Replay`, which changes
only what its caller was told (`answer`). A refused call changes nothing and is no
action. An envelope is its status, the time of its last transition and its
corrections; each replacement in the code adds to history or corrections, so that
equal envelopes are one object, which is what the replay compares
(`StillAsPublished`). A candidate is its hash, which leaves `machine_check.checked_at`
out (canonical.ts:27): that one candidate is checked at one time (`CheckedAt`) is an
abstraction, the code would accept another time at another admission. `Selected` is `selectProvisionalRules` at an instant at which
all rules are valid.

**Run `rules`.** Four candidates: one with an identity of its own, a later version
of it, one whose identity comes from its batch, one that is not primary. Three
contents of two batches, four corrections (doubtful, plain, severe; one id used for
two candidates), times 0 to 2.

- `AnswerIsLive`: whoever is told that a batch is published finds all of it
  selected, whatever was corrected before.
- `PublishedOnce`: two batches share no candidate and no publication identity.
- `CorrectionsDecide`: the status follows from the corrections on record, in
  whichever order they came.
- `LeadStaysLead`: a candidate admitted without evidence never goes live.
- `ImplementsContract`: the store refines `RuleContract`, in which a candidate
  goes live at most once and never after it was withdrawn; `live` is `Selected`,
  `withdrawn` the disputed and quarantined candidates.

## 7. Stacking, RewardCaps, PurchasePlan

`Stacking` and `RewardCaps` are operators, translated from `resolveStacking`, the cap
evaluation and `calculateClawbackAdjustment`. `PurchasePlan` composes them as
`evaluateNativePlan` does: every matching rule is capped against the same progress,
the rules are stacked by what is left of them, those selected are capped again one
after the other, and each reserves what it is paid (`PayRule`). Of the uncertainty
ranges the engine carries, the minimum is modelled: it is what is paid.

A cap is a `CapRecord`. Its key is its group or its own id; its `place` orders the
caps of one rule; `perOperation` (by `cap_type` or `reset.period`) and `resets` (by
`reset.period` alone) are what the code asks of its type and its reset. Progress is a
`ProgressRecord` of some `Period` or of none, or `NoProgress`. A cap reads the
progress of its group and, without one, that reported under its own id (`Seen`); a
reservation adds to what the first of the rule's caps on a key saw (`FirstOn`) and
writes it under the key. Unknown progress, and none where the cap needs it, may be
any use up to the limit (`AnyUse`); `not_applicable` on such a cap is uncertain, but
counts as no use (`Used`). `PlanAssumption` asks of the caps that one which does not
reset is limited per operation, so that any other takes progress of another period
for none, and that the id of a cap is not the name of another's group.

`ResolveStacking` calls the kernel with one table of candidates in the order of
their ids and then in another order, and says what must hold of the selection.

**Run `stacking`**: every table of three rules of three families, each in every
order.

- `SelectedIsCompatible`: no conflict, no second best-of rule and no companion of a
  replacing rule in a group is paid.
- `RequirementsAreCounted`: a rule is paid with the rules it requires, or with a paid
  rule that includes them, and no base beside the rule that includes it. Excepted is a
  required rule of which an including rule is itself included, by another rule or by
  naming itself as its base: the code suppresses both and does not look at
  dependencies again (section 9).
- `OrderDecidesNothing` exempts a rule that is itself included by a rule that
  includes others: there the order of the input does decide (m1b-stacking.ts:408).

**Run `plan`**: five rules that share a monthly group of caps, of which one rule has
two, a cap per operation and a limit of spend; eight users, whose progress is known,
estimated, unknown, not applicable or not reported, with and without a period, for
the group or for its caps one by one; every plan of at most `MaxOperations = 4`
operations, so that a purchase can be returned twice beside another one.

- `CapIsShared`: what all rules and operations earn under a key is within what is
  left of it, and nothing is earned while that is unknown. What is left is told by the
  report on the group; where its caps were reported one by one, the property promises
  the remainder of one of them and no more, because that is all the code keeps
  (section 9).
- `ClawbackWithinShare`: the debits of a purchase returned in parts are within the
  refunded share.

**Run `plan_next_month`** drops the restriction of `CapIsShared` to the period that
was reported and finds it violated (section 9).

## 8. RouteAllocation

`Allocate` is one round of `allocate`: every route of the rules is priced with what
is left of the balance and the counters, the best leg is taken, and the counters
move (`Counted`). Three folds along a path price a leg: backwards `Before`, hop by
hop, gives `Capacity`, the most the first hop can take so that nothing is stranded
behind a later maximum (minima, steps and published amounts of later hops are not
worked back, in the code as here, and may strand units); `Asked` follows the whole input forwards, and the path is
refused (`Overasked`) when a rule that takes no part of a request would be asked for
more than its maxima; `Walked` gives the `Hops`, with the date, tier, grid, fee and
percentage of each. Ties between legs are decided by a hash in the code, by a choice
here.

`RequestsAssumption` is what the code lets through: `assertEdge` and `assertRequest`
demand amounts that are not negative, percentages with a positive denominator and
published amounts that are positive and exclude an increment; `evaluateTransfer`
refuses a ratio or an increment of 0 at the source. What it adds is an abstraction:
amounts are whole, and a ratio that pays 0 for any amount is not modelled.

**Run `routes`**: 13,056 requests of two families: two rules that count under one
key, with tiers, maxima and steps, beside a route over a hub; and a two-hop route
with ratios, fees, percentages, minima, steps, published amounts and maxima beside
a direct rule. `MaxLegs = 2`: a second leg is where counters can be stale.

The properties are stated in the module, of what was left of the balance
(`LeftBefore`) and of the counters (`UseBefore`) before each leg:

- `CountersHeld`: all legs together keep the maximum of a period and the tier
  each was priced with, and no unit of the balance is used twice.
- `NothingIsCut`: no maximum of a later hop leaves units behind; and a rule that
  takes no part of a request is asked for no more than its maxima.
- `LargestAccepted`: each hop moves an amount its rule accepts, and a search of the
  larger ones finds none it would accept; a hop whose percentage is rounded down is
  exempt from the search.

`KeysOnce` restricts them to legs that do not cross two rules of one key (see the
observations below); what such a leg uses still counts for the legs after it.

## 9. Findings

Three runs expect a violation; `PROJECT.json` quotes the sentence each refutes.

1. `run_lost_end`: an end overlapping the commit of its start is acknowledged,
   the run stays `started`, and `next_due_at` becomes null. On a stream without
   monitored sources nothing stops the transaction (with them a not-null
   constraint does, `run_two`), and the stream is never overdue again.
2. `run_sweep_race`: a run committed between the sweep's statements leaves an
   overdue incident open beside fresh sources.
3. `plan_next_month`: progress keeps the period it was observed in, so that each
   purchase of the next month resets it again and earns the whole cap.

Read in the code while modelling, and not the subject of a run:

- A structurally invalid event that the handler quarantines may be refused by
  `assert_agent_feed_atomic_input`, and is then answered 500 on every retry.
- A run delivered after its window makes stale sources fresh again; an older run
  delivered late moves the due date back; a second end of a run, with another
  status than the one on record, restores health.
- After a rejection, one timeout makes a target due again under the input that
  was rejected (operations.ts:438).
- A severe correction dated before the last transition is refused.
- Under the policy "full" each partial refund debits the whole reward.
- A rule whose required rule is capped to nothing when it is capped again is still
  paid (engine.ts:1123).
- A rule that includes others and is itself included, or names itself as its base, is
  suppressed with what it includes, while a rule that requires one of those stays
  paid: dependencies are not checked again after inclusion (m1b-stacking.ts:406). The
  engine passes no `base_rule_id`, with which a rule could name itself.
- When the caps of a group were reported one by one, the first reservation writes the
  group's progress from the report of one cap (engine.ts:1193); from then on the
  reports of the others are hidden behind it, and the group may earn more than they
  leave.
- Progress reported `not_applicable` for a cap that needs it is given the reason
  `progress_unknown_not_treated_as_zero` (m1b-caps.ts:506), and is then counted as no
  use, since only the status `unknown` is taken for a full cap (line 773);
  docs/04_implementation_plan.md:136 says "unknown state is never coerced to zero or
  false".
- A leg that produces nothing is still allocated when no leg produces more
  (point-route-optimizer.ts:1255). Two rules of one key on one path are each given
  all that is left of the key (line 961). A percentage rounded down leaves units
  that would still fit (line 665). A single leg that takes the balance is labelled
  exact although a split may produce more (line 1268).

## 10. Proofs

TLAPS proves every safety property and every action property of modules 1 to 6
for all values of their constants. Each proof rests on one inductive
invariant; each of these was checked by TLC on the instance of a run
before it was proved (`IInv` still is, by `intake_race`). A property that is not
inductive fails for the same reason everywhere in this code: a transaction or a
worker acts on something it read earlier, and what makes the act right is that
nobody could change it in between. The invariants say that.

### AgentFeedIntakeProofs

For every set of handlers, events, bodies, fingerprints and deliveries that
satisfies `IntakeAssumption` (deliveries consist of declared events and bodies,
null values are no members):

- `IntakeInvariant`: `Spec => []IInv`.
- `TypeCorrect`, `AckIsAPromise`, `OneCanonicalObservation`,
  `QuarantineNeverMaps`, `ReceiptsExplained`, `ReceiptsAreWhole`,
  `RaceNeverFails`: its consequences.
- `RetriesHaveNoEffect`: `Spec => EffectsOnce`.
- `IntakeImplementsContract`: `Spec => ImplementsContract`.

A COMMIT is correct only because of what the transaction read earlier. `IInv`
adds `HandlerInv` (where a handler is and what it may answer), `TransactionInv`
(the receipt is still not stored, the registry still says what `seen` says), and
`LockInv` (no two handlers hold one receipt or one fingerprint), which is why it
is still so. There is one lemma per action; COMMIT and its lost reply share
`CommitTables` and `VisibleFrame` ("rows of other events, and keys with an owner,
do not change"). `EffectsOnce` and the refinement follow step by step from `IInv`.

### RunLivenessProofs

For any handlers, runs and deliveries, from the assumption of the module:

- `LivenessInvariant`: `Spec => []LInv`.
- `TypeCorrect`, `LatestEndIsKept`, `FreshnessNeverFlatters`,
  `DegradationHasIncident`: for streams with and without monitored sources.
- `MonitoredEndIsKept`: `Spec => [](Monitored => EndEndsTheRun)`. The condition is
  the truth about this code: `run_lost_end` is the counterexample without it.
- `EndsAreFinal`: `Spec => EndIsFinal`.

`LInv` adds `RowsTimed` (an ended run has its time), `RowInv` (the row a handler
will commit agrees with the run while it holds the lock; on a monitored stream it
has a time once the expectation has been updated), `SettledInv` (a completed
end that has resolved the incidents still has resolved all degradations when it
commits, since the sweep raises only absences), `LockInv`, and `SweepInv` (while
the sweep holds the expectation the stream stays overdue, so it judges what it
marked: this is why `FreshIsHealthy` survives a sweep in four snapshots).

### P0OperationsProofs

For any runs, targets, inputs, zones and bounds:

- `OperationsInvariant`: `Spec => []PInv`.
- `TypeCorrect`, `AnswersAreRecorded`, `NoStaleAttempt`, `CompletionCoversScope`.
- `OneZoneNeverRegresses` (`RefusalNeedsTwoZones`), and from it `OneZoneIsReducible`:
  if all producers share a zone, no reachable ledger is refused by the reducer.
- `DriverFollowsView`: `Spec => RetryFollowsView`.

`PInv` says of the ledger that the numbers of a target's attempts are 1 to their
count and that times do not decrease with them, of the workers that what a
worklist knew was a prefix of today's attempts, and of the receipts that each
admitted terminal event left the attempts it reported; attempts belong to events with
a receipt, and those to runs on record, which is why a second import of an event finds
either no attempt of it or all of them. Within one zone the order
of the timestamps as text is the order of the instants, which is the order of the
numbers; so the attempt the reducer comes to last is the one of the highest number.

### ProvisionalRulesProofs

For any candidates, batches and corrections:

- `StoreInvariant`: `Spec => []RulesInv`.
- `TypeCorrect`, `ReplayAnswersLive`, `OneBatchForOne`, `CorrectionsPrevail`.
- `LeadNeverLive`: `Spec => LeadStaysLead`.
- `StoreImplementsContract`: `Spec => ImplementsContract`.

`RulesInv` relates the record of a publication to the envelopes it made live, as
they were then: a replay compares with that record, and an envelope that was
corrected since differs from it. Status is decided by the corrections present
(`CorrectedInv`) and not by the call that came last.

### StackingProofs

For any finite set of rules and any tables over it (`StackingAssumption` says only
that ids, precedences and values are numbers and conflicts finite sets of ids):

- `PaidIsCompatible`: `Spec => []SelectedIsCompatible`.
- `RequiredIsCounted`: `Spec => []RequirementsAreCounted`.
- `OrderIsIrrelevant`: `Spec => OrderDecidesNothing`.

The kernel has no state to be invariant: `CallInv` says that `selected` is what
the call with this table and this order returns, and the work is in the operators.
Their lemmas are in `OperatorTheorems`, stated for any table over finitely many
ids, so that the proofs about plans cite them too. Each operator is a fold, and a
lemma opens it into the trace of its turns (`InclusionTrace`, `FightStep`, `TurnTrace`, `ConflictTrace`). What is invariant
holds along a trace:

- conflicts: of two rules that have fought at most one is still active, and a
  rule that survives its own turn has no foe left (`TurnSettles`), whatever is
  deactivated in between; so after the last turn `NoConflictIsLeft`;
- inclusion: a rule leaves only because a rule that includes others includes it
  (`InclusionFacts`), and such a rule leaves only when it is itself included; the two
  are what `RequirementsAreCounted` allows beside the required rule;
- order: unless a rule that includes others is itself included, what is left after
  the turns depends on the set of rules and not on their order. The later phases
  sort by id, and `AscendingIds` proves that this lists each rule once.

The best-of choice needs that `Outranks` picks one rule of those that stand
(`OneOutranks`: by value, then precedence, then id, so no two tie).

### PurchasePlanProofs

For any finite set of rules with whatever finite sets of caps, whatever is reported,
any offers, and plans of every length:

- `PlanInvariant`: `Spec => []PlanInv`.
- `CapsAreShared`: `Spec => []CapIsShared`.
- `ClawbacksStayWithin`: `Spec => []ClawbackWithinShare`.

`PlanAssumption` gives rules, caps, reports and offers their types and finiteness, and
says of caps what section 7 says; purchases have a positive amount. Reported ranges need not be consistent: the proofs
do not use that `low` is at most `high`.

That a sum stays within a limit is not inductive: what the next purchase is allowed
depends on `progress` and not on the sum. `PlanInv` adds:

- `ComponentInv`: an operation has one component of a rule, and a credit is of its
  own purchase, a debit of the purchase its operation returns. Without it a sum
  over components would not grow by what is paid.
- `CapInv`: for a key with a limit of units, in the reported period, `KeyHolds`:
  nothing was earned and the progress is what was reported, or the sum is `Backed`:
  some cap of the key saw a use that was known, the progress is at least that use plus
  what was earned and keeps its period, and what was earned is within what that use
  leaves of the limit. A key limited per operation is not reserved over the plan
  (`LastingKeys`); there the progress stays as reported, and each operation alone
  stays within the limit.
- `ShareInv`: the debits of a purchase times what was paid are at most its reward
  times what was refunded, and the returns that debited do not exceed the purchase.
  Products are compared because each debit is rounded down by itself.

Purchases are the hard step: caps are evaluated twice, first all against the same
progress and then one after the other, and rules are paid in an order the stacking
kernel decides. `PaymentTrace` opens the fold into the purses between two rules, and
`PayRuleKeepsKey` carries `KeyInv`, `CapInv` for what the operation has earned so far,
along it. A cap sees the progress of its key or, as long as nothing was reserved there,
its own report, which no reservation touches since its id is no other cap's key
(`SeenBefore`); `KeyIsReserved` is the step of one key. The second evaluation alone makes it true: the mutant
that pays what the first one allowed (`PayRuleAsCapped`) breaks `CapIsShared` in the
run `plan`. From the kernel only `ResolveChooses` is needed, that it selects among
the candidates; `Ascending` lists each of those once (`SelectedOnce`).

### RouteAllocationProofs

For any requests that satisfy `RequestsAssumption`, with any finite set of rules,
routes of any length and any number of legs:

- `RoutesInvariant`: `Spec => []RoutesInv`.
- `CountersAreHeld`: `Spec => []CountersHeld`.
- `NoMaximumStrands`: `Spec => []NothingIsCut`.
- `LargestIsMoved`: `Spec => []LargestAccepted`.

The three say of each leg what was true when it was priced, so the invariant has to
say that the state a round prices with is what the legs before it left. `RoutesInv`
adds to the types:

- `CountersAgree`: the balance left and the use are `LeftBefore` and `UseBefore` of
  the next leg, and the ledger has moved by what the use has;
- while the allocation is open each key has one maximum (`OneMaximum`), or
  `InitialLedger` would not say which rule's it holds. The ledger starts at what
  the maximum exceeds the use by, or at 0 when it does not, and may become negative
  where a leg crosses a key twice; a hop that moves something has found it positive
  (`HopIsSound`), and there it is the maximum minus the use;
- every leg is sound for what it was priced with (`LegIsSound`): the three
  properties, and that it takes no more than was left.

`AllocateKeepsRoutes` is the step: `RoundIsPriced` says that the ledger and the use
price the rules as they must, `OffersAreSound` that every offered leg is sound, and
`LegsGrow` that the sums over the earlier legs stay what they were.

Within a leg the argument follows the code upwards. `QuotientIsGreatest` replaces
division by a multiple that fits, which is all the provers can use of a quotient of
two variables. `OnGridFacts`, `BoundFacts` and `AlignedFacts` give one hop: what
`alignSource` returns moves with its fee, and nothing larger does, because the fee
grows with the amount (`FeeGrows`) and the algebraic bound is exact for a percentage
rounded up. `CapacityTrace`, `AskedTrace` and `WalkTrace` open the three folds into
what stands between two hops. That no maximum strands units is an induction over them,
`GivenIsBounded`: a hop that is given no more than `Before` says moves no more than
the most after it was worked back to (`BeforeFacts`), so it pays no more than that
most (`PaidFacts`: both divisions round down). The first hop gets no more than
`Capacity`; a rule that takes no part was asked for no more than its maxima, since
`Overasked` was false (`FirstIsNotOver`).

### OperatorTheorems

Facts about recursion the library does not state in a form the provers can use.
`LeastNumber`, `GreatestNumber`, `GreatestOfFinite`: a set of numbers has a least,
and if bounded or finite a greatest, member. `NumberInduction`, `RangeInduction`:
induction with a set in the place of a predicate. `IterationExists`,
`IterationUnique`: the function by which the folds over sets are defined exists and
is unique on each finite set, which gives its recursion equation; `FoldExists` is
this for `FoldLeft`, whose recursion is over the intervals. From them follow the laws
of sums over finite sets: `SumWith` and `SumWithout` one member, of none, of equal
terms (`SumSame`), and of a part (`SumOfPart`). Then the operators of `Stacking`.

### Only model-checked

- Liveness: `EveryRequestEnds`, `EventuallyAcked`, `EveryEventRecorded`,
  `MissedRunNoticed`. The provers do not reach fairness.
- The properties of the runs of section 9 that expect a violation are refuted, so
  there is nothing to prove of them; `MonitoredEndIsKept` and the condition
  `InPeriod` of `CapIsShared` state what holds instead.

## 11. Not modelled

- Trigger projections on `source_observations` (db/0025, 0029, 0046): they are
  part of the transaction that inserts; a failure of theirs is `Abort`.
- Redaction and purge of receipts; replayed runs (`replay_attempt > 0`), which
  nothing in the repository requests; disabled streams; `expected_run_state`,
  which repeats `liveness_status`; streams that share sources and two sweeps at
  once; the in-memory liveness port of `liveness.ts`, used by tests.
- Bytes: signature checks, schema validation, security scanning enter as the
  verdict they reach; so do the file formats and hashes of P0 operations, the
  fields a candidate is admitted by, and the matching of rules with operations.
- The relational copy of the provisional store (db/0006, db/0008).
- Of the rule engine: lots and transfers within a plan, expiry, bitemporal
  selection, uncertainty ranges above the minimum, the point-spend optimizer and
  the payment-stack synthesizer.
- The consumer state machine: `transitionConsumerState` is pure and has no caller
  in the repository; a host that answers late would have to be invented.
- The recommendation API, which ranks what the engine returns over an append-only
  history; source maintenance, a file written by one process; golden publication,
  constraints and triggers whose callers are people.
- The visual asset store: that its statements are not one transaction is settled
  by reading (see the hazard).
- Rendering, HTTP serving, contracts, generated types, fixtures and seed data,
  which have no state to get wrong.

Operators commented "Mutant of ..." are plausible bugs. `PROJECT.json` pairs each
property with one that must break it; no specification uses them.
