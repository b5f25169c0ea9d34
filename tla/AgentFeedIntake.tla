-------------------------- MODULE AgentFeedIntake --------------------------
(***************************************************************************)
(* Durable intake of signed Agent Feed findings: the HTTP handler of       *)
(* packages/agent-feed-consumer, the transaction wrapper of                *)
(* packages/agent-feed-postgres and the functions accept_agent_feed_event, *)
(* map_agent_feed_finding and persist_agent_feed_atomic of db/0004 and     *)
(* db/0010.                                                                *)
(*                                                                         *)
(* Several request handlers run at once, each with one READ COMMITTED      *)
(* transaction.  A transaction is cut at the places where it waits for a   *)
(* lock or takes a new snapshot: the receipt row (insert on conflict, then *)
(* select for update), the advisory lock of the fingerprint, the insert    *)
(* into the registry, COMMIT.  Tables hold committed rows; what a          *)
(* transaction has written and not yet committed is determined by pc, job  *)
(* and outcome of its handler.                                             *)
(*                                                                         *)
(* Run lifecycle events take the other branch of the same function and are *)
(* the subject of another module.                                          *)
(***************************************************************************)
EXTENDS FiniteSets

CONSTANTS
  Handler,       \* concurrent requests served by the consumer
  Event,         \* event_id
  Payload,       \* signed bodies, the delivery attempt left out
  Fingerprint,   \* semantic fingerprints (version 1)
  Delivery,      \* records [event, payload, attempt, signing] the producer signs
  Verdict,       \* [Payload -> Verdicts]: what validating a body concludes
  FingerprintOf, \* [Payload -> Fingerprint]
  Evidenced,     \* bodies that submit at least one evidence reference
  NoEvent,       \* absence of an event
  NoFingerprint, \* absence of a fingerprint
  NoDelivery     \* a handler without a request

Verdicts ==
  { "refused",      \* bad signature, too large or not an event: never persisted
    "unstorable",   \* quarantine input the database assertions refuse
    "quarantine",   \* schema-invalid, unsupported or hostile: quarantine_reason
    "flagged",      \* mapped observation that carries a non-hostile flag
    "observation" } \* mapped observation without flags

ASSUME IntakeAssumption ==
  /\ \A d \in Delivery : d.event \in Event /\ d.payload \in Payload
  /\ Verdict \in [Payload -> Verdicts]
  /\ FingerprintOf \in [Payload -> Fingerprint]
  /\ Evidenced \subseteq Payload
  /\ NoEvent \notin Event
  /\ NoFingerprint \notin Fingerprint
  /\ NoDelivery \notin Delivery

VARIABLES
  receipts,     \* agent_feed_receipts, by event_id
  attempts,     \* agent_feed_delivery_attempts
  links,        \* source_observation_transport_links, by the receipt's event
  registry,     \* source_observation_semantic_keys: first_receipt_id
  observations, \* source_observations
  work,         \* source_observation_evidence_work of an observation's leads
  deadLetters,  \* open row of agent_feed_dead_letters
  pc,           \* where each handler is
  job,          \* the delivery it serves
  seen,         \* canonical observation its select on the registry returned
  outcome,      \* what persist returned, or why it threw
  acked         \* deliveries whose 2xx answer reached the producer

tables  == <<receipts, attempts, links, registry, observations, work, deadLetters>>
handlers == <<pc, job, seen, outcome>>
vars == <<tables, handlers, acked>>

Terminal == {"mapped", "duplicate", "quarantined", "failed"}

Absent  == [status |-> "absent"]
Receipt == [status : {"received"} \cup Terminal, payload : Payload]
Unlinked == [status |-> "none", fingerprint |-> NoFingerprint]
Link    == [status : {"none", "canonical", "duplicate", "quarantined"},
            fingerprint : Fingerprint \cup {NoFingerprint}]

Stored(e) == receipts[e] # Absent

(* Outcomes for which the handler answers 200 or 202, and those for which  *)
(* it answers 4xx or 500 and the producer keeps the delivery.              *)
Acknowledging == {"mapped", "duplicate", "quarantined", "transport"}
Failing == {"refused", "assertion_failed", "identity_mismatch",
            "unique_violation", "database_error"}

TypeOK ==
  /\ receipts \in [Event -> Receipt \cup {Absent}]
  /\ attempts \subseteq Delivery
  /\ links \in [Event -> Link]
  /\ registry \in [Fingerprint -> Event \cup {NoEvent}]
  /\ observations \subseteq [receipt : Event, fingerprint : Fingerprint]
  /\ work \in [Fingerprint -> {"none", "requested", "advanced"}]
  /\ deadLetters \in [Event -> {"none", "not_requested", "requested"}]
  /\ pc \in [Handler -> {"idle", "received", "accepted", "looked", "written", "answering"}]
  /\ job \in [Handler -> Delivery \cup {NoDelivery}]
  /\ seen \in [Handler -> Event \cup {NoEvent}]
  /\ outcome \in [Handler -> {"none"} \cup Acknowledging \cup Failing]
  /\ acked \subseteq Delivery

Init ==
  /\ receipts = [e \in Event |-> Absent]
  /\ attempts = {}
  /\ links = [e \in Event |-> Unlinked]
  /\ registry = [f \in Fingerprint |-> NoEvent]
  /\ observations = {}
  /\ work = [f \in Fingerprint |-> "none"]
  /\ deadLetters = [e \in Event |-> "none"]
  /\ pc = [h \in Handler |-> "idle"]
  /\ job = [h \in Handler |-> NoDelivery]
  /\ seen = [h \in Handler |-> NoEvent]
  /\ outcome = [h \in Handler |-> "none"]
  /\ acked = {}

----------------------------------------------------------------------------
(* Locks.  The receipt row is held from accept to the end of the           *)
(* transaction; the advisory lock of the fingerprint from the lookup on.   *)

EventOf(h)  == job[h].event
BodyOf(h)   == job[h].payload
KeyOf(h)    == FingerprintOf[BodyOf(h)]

(* Mutant of HoldsReceipt: the receipt is held while it is waited for.     *)
HoldingWhileWaiting(h) == pc[h] \in {"received", "accepted", "looked", "written"}

HoldsReceipt(h) == pc[h] \in {"accepted", "looked", "written"}
HoldsFingerprint(h) ==
  \/ pc[h] = "looked"
  \/ pc[h] = "written" /\ outcome[h] \in {"mapped", "duplicate"}

(* Mutant of ReceiptRowFree: the receipt is not locked.                    *)
RowNeverWaitedFor(e) == TRUE

ReceiptRowFree(e) == \A h \in Handler : ~ (HoldsReceipt(h) /\ EventOf(h) = e)

(* Mutant of FingerprintFree: no advisory lock.                            *)
IgnoringTheAdvisoryLock(f) == TRUE

FingerprintFree(f) == \A h \in Handler : ~ (HoldsFingerprint(h) /\ KeyOf(h) = f)

(* A handler whose uncommitted transaction has inserted the key f: another *)
(* insert of f waits for it to end.                                        *)
InsertingKey(h, f) ==
  pc[h] = "written" /\ outcome[h] = "mapped" /\ KeyOf(h) = f

----------------------------------------------------------------------------
(* The handler.                                                            *)

(* A delivery arrives; any delivery the producer ever signed may arrive at *)
(* any time and any number of times.  A request that fails verification or *)
(* is not an event is refused before anything is persisted.                *)
Receive(h, d) ==
  /\ pc[h] = "idle"
  /\ job' = [job EXCEPT ![h] = d]
  /\ \/ /\ Verdict[d.payload] = "refused"
        /\ pc' = [pc EXCEPT ![h] = "answering"]
        /\ outcome' = [outcome EXCEPT ![h] = "refused"]
     \/ /\ Verdict[d.payload] # "refused"
        /\ pc' = [pc EXCEPT ![h] = "received"]
        /\ UNCHANGED outcome
  /\ UNCHANGED <<tables, seen, acked>>

(* persist threw: the adapter rolls back and the handler answers 500.      *)
Throw(h, why) ==
  /\ pc' = [pc EXCEPT ![h] = "answering"]
  /\ outcome' = [outcome EXCEPT ![h] = why]
  /\ UNCHANGED <<tables, job, seen, acked>>

(* assert_agent_feed_atomic_input runs before the receipt is accepted.     *)
FailAssertion(h) ==
  /\ pc[h] = "received"
  /\ Verdict[BodyOf(h)] = "unstorable"
  /\ Throw(h, "assertion_failed")

(* Mutant of PayloadChanged: the stored body is not compared.              *)
AnyPayload(d) == FALSE

(* The event id was first used for another body.                           *)
PayloadChanged(d) == Stored(d.event) /\ receipts[d.event].payload # d.payload

(* Mutant of AttemptChanged: a repeated request is refused too.            *)
EveryRepeatedAttempt(d) ==
  \E a \in attempts : a.event = d.event /\ a.attempt = d.attempt

(* The attempt number was first used by another signed request.            *)
AttemptChanged(d) ==
  \E a \in attempts : a.event = d.event /\ a.attempt = d.attempt /\ a # d

(* Mutant of Completed: no transport idempotency.                          *)
NeverCompleted(e) == FALSE

(* A completed receipt is the transport idempotency boundary.              *)
Completed(e) == Stored(e) /\ receipts[e].status \in Terminal

(* Mutant of Mappable: flagged findings are mapped.                        *)
FlagsIgnored(p) == Verdict[p] \in {"flagged", "observation"}

(* Whether the body is mapped to an observation; a flagged one is mapped by *)
(* the handler and then quarantined by map_agent_feed_finding.             *)
Mappable(p) == Verdict[p] = "observation"

(* accept_agent_feed_event and the branches of persist_agent_feed_atomic   *)
(* that need no further lock.                                              *)
Accept(h) ==
  /\ pc[h] = "received"
  /\ Verdict[BodyOf(h)] # "unstorable"
  /\ ReceiptRowFree(EventOf(h))
  /\ IF PayloadChanged(job[h]) \/ AttemptChanged(job[h])
     THEN Throw(h, "identity_mismatch")
     ELSE /\ \/ /\ Completed(EventOf(h))
                /\ pc' = [pc EXCEPT ![h] = "written"]
                /\ outcome' = [outcome EXCEPT ![h] = "transport"]
             \/ /\ ~ Completed(EventOf(h))
                /\ ~ Mappable(BodyOf(h))
                /\ pc' = [pc EXCEPT ![h] = "written"]
                /\ outcome' = [outcome EXCEPT ![h] = "quarantined"]
             \/ /\ ~ Completed(EventOf(h))
                /\ Mappable(BodyOf(h))
                /\ pc' = [pc EXCEPT ![h] = "accepted"]
                /\ UNCHANGED outcome
          /\ UNCHANGED <<tables, job, seen, acked>>

(* pg_advisory_xact_lock, then the select on the semantic key registry.    *)
LookUpKey(h) ==
  /\ pc[h] = "accepted"
  /\ FingerprintFree(KeyOf(h))
  /\ seen' = [seen EXCEPT ![h] = registry[KeyOf(h)]]
  /\ pc' = [pc EXCEPT ![h] = "looked"]
  /\ UNCHANGED <<tables, job, outcome, acked>>

(* Mutant of WriteMapping: the lookup is ignored.                          *)
WriteWithoutLooking(h) ==
  /\ pc[h] = "looked"
  /\ pc' = [pc EXCEPT ![h] = "written"]
  /\ outcome' = [outcome EXCEPT ![h] = "mapped"]
  /\ UNCHANGED <<tables, job, seen, acked>>

(* Insert the observation, its key and its link, or link the receipt to    *)
(* the observation the lookup found.  The registry's primary key refuses a *)
(* second owner of the fingerprint.                                        *)
WriteMapping(h) ==
  /\ pc[h] = "looked"
  /\ \/ /\ seen[h] # NoEvent
        /\ pc' = [pc EXCEPT ![h] = "written"]
        /\ outcome' = [outcome EXCEPT ![h] = "duplicate"]
        /\ UNCHANGED <<tables, job, seen, acked>>
     \/ /\ seen[h] = NoEvent
        /\ \A g \in Handler : ~ InsertingKey(g, KeyOf(h))
        /\ IF registry[KeyOf(h)] # NoEvent
           THEN Throw(h, "unique_violation")
           ELSE /\ pc' = [pc EXCEPT ![h] = "written"]
                /\ outcome' = [outcome EXCEPT ![h] = "mapped"]
                /\ UNCHANGED <<tables, job, seen, acked>>

----------------------------------------------------------------------------
(* What COMMIT makes visible, by outcome.                                  *)

RecordAttempt(h) == attempts' = attempts \cup {job[h]}

(* Mutant of SetReceipt: the final status is not written.                  *)
ReceiptLeftReceived(h, status) ==
  receipts' = [receipts EXCEPT ![EventOf(h)] = [status |-> "received", payload |-> BodyOf(h)]]

SetReceipt(h, status) ==
  receipts' = [receipts EXCEPT ![EventOf(h)] = [status |-> status, payload |-> BodyOf(h)]]

SetLink(h, status, f) ==
  links' = [links EXCEPT ![EventOf(h)] = [status |-> status, fingerprint |-> f]]

(* Mutant of OpenDeadLetter: a replay status the table lacks.              *)
DeadLetterStatusUnknown(e) ==
  deadLetters' = [deadLetters EXCEPT ![e] = IF @ = "none" THEN "open" ELSE @]

(* Insert a dead letter unless the event has an open one.                  *)
OpenDeadLetter(e) ==
  deadLetters' = [deadLetters EXCEPT ![e] = IF @ = "none" THEN "not_requested" ELSE @]

CommitTransport(h) ==
  /\ outcome[h] = "transport"
  /\ RecordAttempt(h)
  /\ UNCHANGED <<receipts, links, registry, observations, work, deadLetters>>

CommitQuarantine(h) ==
  /\ outcome[h] = "quarantined"
  /\ RecordAttempt(h)
  /\ SetReceipt(h, "quarantined")
  /\ SetLink(h, "quarantined", NoFingerprint)
  /\ OpenDeadLetter(EventOf(h))
  /\ UNCHANGED <<registry, observations, work>>

CommitDuplicate(h) ==
  /\ outcome[h] = "duplicate"
  /\ RecordAttempt(h)
  /\ SetReceipt(h, "duplicate")
  /\ SetLink(h, "duplicate", KeyOf(h))
  /\ UNCHANGED <<registry, observations, work, deadLetters>>

(* Mutant of CommitMapped: no evidence work is requested.                  *)
CommitWithoutWork(h) ==
  /\ outcome[h] = "mapped"
  /\ RecordAttempt(h)
  /\ SetReceipt(h, "mapped")
  /\ SetLink(h, "canonical", KeyOf(h))
  /\ registry' = [registry EXCEPT ![KeyOf(h)] = EventOf(h)]
  /\ observations' = observations \cup
       {[receipt |-> EventOf(h), fingerprint |-> KeyOf(h)]}
  /\ UNCHANGED <<work, deadLetters>>

(* A row of work is requested for each submitted evidence reference: a      *)
(* finding that submits none is mapped without evidence work.              *)
CommitMapped(h) ==
  /\ outcome[h] = "mapped"
  /\ RecordAttempt(h)
  /\ SetReceipt(h, "mapped")
  /\ SetLink(h, "canonical", KeyOf(h))
  /\ registry' = [registry EXCEPT ![KeyOf(h)] = EventOf(h)]
  /\ observations' = observations \cup
       {[receipt |-> EventOf(h), fingerprint |-> KeyOf(h)]}
  /\ work' = IF BodyOf(h) \in Evidenced
             THEN [work EXCEPT ![KeyOf(h)] = "requested"]
             ELSE work
  /\ UNCHANGED deadLetters

MakeVisible(h) ==
  \/ CommitTransport(h)
  \/ CommitQuarantine(h)
  \/ CommitDuplicate(h)
  \/ CommitMapped(h)

(* COMMIT succeeds; the outcome is the answer.                             *)
Commit(h) ==
  /\ pc[h] = "written"
  /\ MakeVisible(h)
  /\ pc' = [pc EXCEPT ![h] = "answering"]
  /\ UNCHANGED <<job, seen, outcome, acked>>

(* COMMIT takes effect but its reply is lost: the adapter rethrows.        *)
CommitReplyLost(h) ==
  /\ pc[h] = "written"
  /\ MakeVisible(h)
  /\ pc' = [pc EXCEPT ![h] = "answering"]
  /\ outcome' = [outcome EXCEPT ![h] = "database_error"]
  /\ UNCHANGED <<job, seen, acked>>

(* Any statement fails before COMMIT takes effect.                         *)
Abort(h) ==
  /\ pc[h] \in {"received", "accepted", "looked", "written"}
  /\ Throw(h, "database_error")

(* Mutant of AckAllowed: errors are answered 2xx.                          *)
AckEveryAnswer(h) == TRUE

(* The answer reaches the producer; only outcomes of persist acknowledge.  *)
AckAllowed(h) == outcome[h] \in Acknowledging

Idle(h) ==
  /\ pc' = [pc EXCEPT ![h] = "idle"]
  /\ job' = [job EXCEPT ![h] = NoDelivery]
  /\ seen' = [seen EXCEPT ![h] = NoEvent]
  /\ outcome' = [outcome EXCEPT ![h] = "none"]

Answer(h) ==
  /\ pc[h] = "answering"
  /\ acked' = IF AckAllowed(h) THEN acked \cup {job[h]} ELSE acked
  /\ Idle(h)
  /\ UNCHANGED tables

(* The process dies, or the answer is lost: an open transaction is rolled  *)
(* back by the server and the producer learns nothing.                     *)
Crash(h) ==
  /\ pc[h] # "idle"
  /\ Idle(h)
  /\ UNCHANGED <<tables, acked>>

----------------------------------------------------------------------------
(* Operators and reviewers; each is one transaction.                       *)

(* enqueue_agent_feed_dead_letter                                          *)
EnqueueDeadLetter(e) ==
  /\ Stored(e)
  /\ ReceiptRowFree(e)
  /\ receipts' = [receipts EXCEPT ![e].status = "failed"]
  /\ OpenDeadLetter(e)
  /\ UNCHANGED <<attempts, links, registry, observations, work, handlers, acked>>

(* request_agent_feed_replay                                               *)
RequestReplay(e) ==
  /\ deadLetters[e] = "not_requested"
  /\ deadLetters' = [deadLetters EXCEPT ![e] = "requested"]
  /\ UNCHANGED <<receipts, attempts, links, registry, observations, work, handlers, acked>>

(* Evidence work leaves 'requested' under review.                          *)
AdvanceWork(f) ==
  /\ work[f] = "requested"
  /\ work' = [work EXCEPT ![f] = "advanced"]
  /\ UNCHANGED <<receipts, attempts, links, registry, observations, deadLetters, handlers, acked>>

Step(h) ==
  FailAssertion(h) \/ Accept(h) \/ LookUpKey(h) \/ WriteMapping(h) \/ Commit(h) \/ Answer(h)

Next ==
  \/ \E h \in Handler :
       \/ \E d \in Delivery : Receive(h, d)
       \/ FailAssertion(h)
       \/ Accept(h)
       \/ LookUpKey(h)
       \/ WriteMapping(h)
       \/ Commit(h)
       \/ CommitReplyLost(h)
       \/ Abort(h)
       \/ Answer(h)
       \/ Crash(h)
  \/ \E e \in Event : EnqueueDeadLetter(e) \/ RequestReplay(e)
  \/ \E f \in Fingerprint : AdvanceWork(f)

Spec == Init /\ [][Next]_vars

(***************************************************************************)
(* Fairness.  PostgreSQL queues the waiters of a lock, so a handler whose  *)
(* next step is possible again and again takes it; the producer keeps      *)
(* sending what it signed ("Agent Feed retries until acknowledgement",     *)
(* docs/15, line 114); and some time after its last fault the database and *)
(* the process stay up long enough.                                        *)
(***************************************************************************)
Fault == \E h \in Handler : Abort(h) \/ CommitReplyLost(h) \/ (Crash(h) /\ ~ Answer(h))

FairSpec ==
  /\ Spec
  /\ \A h \in Handler : SF_vars(Step(h))
  /\ \A d \in Delivery : SF_vars(\E h \in Handler : Receive(h, d))
  /\ <>[][~ Fault]_vars

----------------------------------------------------------------------------
(* Properties.                                                             *)

(* The delivery's event is completed with that body, the signed attempt is *)
(* on record and the receipt is linked.                                    *)
Durable(d) ==
  /\ Completed(d.event)
  /\ receipts[d.event].payload = d.payload
  /\ d \in attempts
  /\ links[d.event].status # "none"

(* The producer is told 2xx only for a delivery whose event is durably     *)
(* completed, with the very body that was delivered and that very signed   *)
(* attempt on record: a lost or reordered answer, a retry, or a second     *)
(* body under the same event_id never turns a 2xx into a lost finding.     *)
AckedIsDurable == \A d \in acked : Durable(d)

(* One canonical observation per semantic fingerprint, known to the        *)
(* registry under the receipt that produced it, whatever the interleaving  *)
(* of the handlers that map findings with the same meaning.                *)
OneObservationPerFingerprint ==
  \A f \in Fingerprint :
    LET mapped == {o \in observations : o.fingerprint = f}
    IN  mapped = IF registry[f] = NoEvent
                 THEN {}
                 ELSE {[receipt |-> registry[f], fingerprint |-> f]}

(* Only a finding without flags becomes an observation, and the observation *)
(* is its receipt's own meaning: a quarantined body never reaches the      *)
(* registry, its evidence work, or another receipt's link.                 *)
QuarantineIsolated ==
  \A f \in Fingerprint :
    registry[f] # NoEvent =>
      LET body == receipts[registry[f]].payload
      IN  /\ Stored(registry[f])
          /\ Verdict[body] = "observation"
          /\ FingerprintOf[body] = f

(* Every stored receipt says where its content went: to the observation it *)
(* created, to the older observation with the same meaning, or to          *)
(* quarantine with an open dead letter.  An observation has evidence work  *)
(* exactly when the body of the receipt that created it submitted          *)
(* evidence: no duplicate, retry or second body under its event adds or    *)
(* withdraws work.  No receipt is left half processed.                     *)
ReceiptExplained ==
  /\ \A e \in Event : Stored(e) <=> links[e].status # "none"
  /\ \A e \in Event : links[e].status = "canonical" =>
       registry[links[e].fingerprint] = e
  /\ \A e \in Event : links[e].status = "duplicate" =>
       registry[links[e].fingerprint] \notin {e, NoEvent}
  /\ \A e \in Event : links[e].status = "quarantined" => deadLetters[e] # "none"
  /\ \A f \in Fingerprint :
       work[f] # "none" <=>
         registry[f] # NoEvent /\ receipts[registry[f]].payload \in Evidenced

(* No receipt is visible before it is completed: accepting, mapping and    *)
(* the receipt's final status are one transaction.                         *)
NoHalfReceipt == \A e \in Event : Stored(e) => Completed(e)

(* Two findings with the same meaning that arrive at once are both         *)
(* accepted: the loser of the race is linked as a duplicate, it is never   *)
(* turned into a 500 by the registry's primary key.                        *)
RaceIsNotAnError == \A h \in Handler : outcome[h] # "unique_violation"

(* A retry, a network duplicate or a second handler never repeats the side *)
(* effects of a committed receipt: its body, its link and the evidence     *)
(* work under review stay what they are.                                   *)
EffectsKept ==
  /\ \A e \in Event : Stored(e) =>
       links'[e] = links[e] /\ receipts'[e].payload = receipts[e].payload
  /\ \A f \in Fingerprint : work[f] = "advanced" => work'[f] = "advanced"
  /\ \A f \in Fingerprint : registry[f] # NoEvent => registry'[f] = registry[f]

EffectsOnce == [][EffectsKept]_vars

(* No handler waits for ever: receipt rows and fingerprint locks are taken *)
(* in one order, so every request ends.                                    *)
EveryRequestEnds == \A h \in Handler : pc[h] # "idle" ~> pc[h] = "idle"

(* A delivery that can be stored and does not contradict what its event    *)
(* id or its attempt number was first used for is acknowledged in the end, *)
(* even when replies of COMMIT are lost and handlers crash.                *)
Conflicting(d) ==
  \E c \in Delivery \ {d} : c.event = d.event /\ (c.payload # d.payload \/ c.attempt = d.attempt)

EventuallyAcked ==
  \A d \in Delivery :
    Verdict[d.payload] \notin {"refused", "unstorable"} /\ ~ Conflicting(d)
      => <>(d \in acked)

----------------------------------------------------------------------------
(* The inductive invariant behind the safety properties: what an open      *)
(* transaction knows stays true until it ends, because of the locks it     *)
(* holds.                                                                  *)

HandlerInv(h) ==
  /\ pc[h] # "idle" => job[h] \in Delivery
  /\ pc[h] \in {"idle", "received", "accepted", "looked"} => outcome[h] = "none"
  /\ pc[h] = "written" => outcome[h] \in Acknowledging

(* What a handler has read and relies on when it commits.                  *)
TransactionInv(h) ==
  /\ pc[h] \in {"accepted", "looked"} => ~ Stored(EventOf(h)) /\ Mappable(BodyOf(h))
  /\ pc[h] = "looked" => seen[h] = registry[KeyOf(h)]
  /\ pc[h] = "written" =>
       \/ /\ outcome[h] = "transport"
          /\ Completed(EventOf(h))
          /\ receipts[EventOf(h)].payload = BodyOf(h)
       \/ /\ outcome[h] = "quarantined"
          /\ ~ Stored(EventOf(h))
       \/ /\ outcome[h] = "mapped"
          /\ ~ Stored(EventOf(h)) /\ Mappable(BodyOf(h)) /\ registry[KeyOf(h)] = NoEvent
       \/ /\ outcome[h] = "duplicate"
          /\ ~ Stored(EventOf(h)) /\ Mappable(BodyOf(h)) /\ registry[KeyOf(h)] # NoEvent
  /\ pc[h] = "answering" /\ outcome[h] \in Acknowledging => Durable(job[h])

LockInv ==
  \A g, h \in Handler : g # h =>
    /\ HoldsReceipt(g) /\ HoldsReceipt(h) => EventOf(g) # EventOf(h)
    /\ HoldsFingerprint(g) /\ HoldsFingerprint(h) => KeyOf(g) # KeyOf(h)

TableInv ==
  /\ NoHalfReceipt
  /\ OneObservationPerFingerprint
  /\ QuarantineIsolated
  /\ ReceiptExplained

IInv ==
  /\ TypeOK
  /\ \A h \in Handler : HandlerInv(h) /\ TransactionInv(h)
  /\ LockInv
  /\ TableInv
  /\ AckedIsDurable
  /\ RaceIsNotAnError

----------------------------------------------------------------------------
(* The intake implements its contract: the link of a receipt is the        *)
(* decision about its event, an acknowledged delivery tells its event.     *)
decisions ==
  [e \in Event |-> IF links[e].status = "none" THEN "pending" ELSE links[e].status]

toldEvents == {d.event : d \in acked}

Contract == INSTANCE IntakeContract WITH
  decision <- decisions, owner <- registry, told <- toldEvents

ImplementsContract == Contract!Spec
============================================================================
