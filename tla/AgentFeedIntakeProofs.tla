----------------------- MODULE AgentFeedIntakeProofs -----------------------
(***************************************************************************)
(* Proofs about AgentFeedIntake for every number of handlers, events,      *)
(* bodies, fingerprints and signed deliveries.                             *)
(***************************************************************************)
EXTENDS AgentFeedIntake, TLAPS

LEMMA InitTypeOK == Init => TypeOK
<1> SUFFICES ASSUME Init PROVE TypeOK
  OBVIOUS
<1> QED
  BY DEF Init, TypeOK, Unlinked, Link, Absent

(* What a transaction makes visible keeps the types of the tables.         *)
LEMMA VisibleTypeOK ==
  ASSUME TypeOK, NEW h \in Handler, job[h] \in Delivery, MakeVisible(h)
  PROVE  /\ receipts' \in [Event -> Receipt \cup {Absent}]
         /\ attempts' \subseteq Delivery
         /\ links' \in [Event -> Link]
         /\ registry' \in [Fingerprint -> Event \cup {NoEvent}]
         /\ observations' \subseteq [receipt : Event, fingerprint : Fingerprint]
         /\ work' \in [Fingerprint -> {"none", "requested", "advanced"}]
         /\ deadLetters' \in [Event -> {"none", "not_requested", "requested"}]
<1> USE IntakeAssumption DEF TypeOK, Receipt, Link, Terminal, EventOf, BodyOf, KeyOf,
        RecordAttempt, SetReceipt, SetLink, OpenDeadLetter
<1>1. EventOf(h) \in Event /\ BodyOf(h) \in Payload /\ KeyOf(h) \in Fingerprint
  OBVIOUS
<1>2. CASE CommitTransport(h)
  BY <1>2 DEF CommitTransport
<1>3. CASE CommitQuarantine(h)
  BY <1>1, <1>3 DEF CommitQuarantine
<1>4. CASE CommitDuplicate(h)
  BY <1>1, <1>4 DEF CommitDuplicate
<1>5. CASE CommitMapped(h)
  BY <1>1, <1>5 DEF CommitMapped
<1> QED
  BY <1>2, <1>3, <1>4, <1>5 DEF MakeVisible

LEMMA InitIInv == Init => IInv
<1> SUFFICES ASSUME Init PROVE IInv
  OBVIOUS
<1>1. TypeOK
  BY InitTypeOK
<1>2. ASSUME NEW h \in Handler PROVE HandlerInv(h) /\ TransactionInv(h)
  BY <1>2 DEF Init, HandlerInv, TransactionInv
<1>3. LockInv
  BY DEF Init, LockInv, HoldsReceipt, HoldsFingerprint
<1>4. TableInv
  BY IntakeAssumption DEF Init, TableInv, NoHalfReceipt, OneObservationPerFingerprint, QuarantineIsolated,
      ReceiptExplained, Stored, Unlinked, Absent
<1>5. AckedIsDurable /\ RaceIsNotAnError
  BY DEF Init, AckedIsDurable, RaceIsNotAnError
<1> QED
  BY <1>1, <1>2, <1>3, <1>4, <1>5 DEF IInv

(* A step that leaves the tables alone keeps what is said about them alone. *)
LEMMA TablesUnchanged ==
  ASSUME TableInv, UNCHANGED tables
  PROVE  TableInv'
BY DEF TableInv, tables, NoHalfReceipt, OneObservationPerFingerprint, QuarantineIsolated,
       ReceiptExplained, Stored, Completed

(* A step of handler h keeps the invariants of another handler if it       *)
(* leaves the tables alone.                                                *)
LEMMA OtherHandler ==
  ASSUME UNCHANGED tables,
         NEW g \in Handler, HandlerInv(g) /\ TransactionInv(g),
         pc'[g] = pc[g], job'[g] = job[g], seen'[g] = seen[g], outcome'[g] = outcome[g]
  PROVE  HandlerInv(g)' /\ TransactionInv(g)'
BY DEF tables, HandlerInv, TransactionInv, Durable, Stored, Completed, Mappable, EventOf, BodyOf, KeyOf

LEMMA ThrowIInv ==
  ASSUME IInv, NEW h \in Handler, NEW why \in Failing \ {"unique_violation"},
         pc[h] # "idle", Throw(h, why)
  PROVE  IInv'
<1>1. TypeOK'
  BY DEF IInv, TypeOK, Throw, tables
<1>2. ASSUME NEW g \in Handler PROVE (HandlerInv(g) /\ TransactionInv(g))'
  <2>1. CASE g = h
    BY <2>1 DEF IInv, TypeOK, Throw, HandlerInv, TransactionInv, Acknowledging, Failing
  <2>2. CASE g # h
    BY <2>2, OtherHandler DEF IInv, TypeOK, Throw
  <2> QED
    BY <2>1, <2>2
<1>3. LockInv'
  BY DEF IInv, TypeOK, Throw, LockInv, HoldsReceipt, HoldsFingerprint, EventOf, BodyOf, KeyOf
<1>4. TableInv'
  BY TablesUnchanged DEF IInv, Throw
<1>5. AckedIsDurable' /\ RaceIsNotAnError'
  BY DEF IInv, TypeOK, Throw, AckedIsDurable, Durable, Completed, Stored, RaceIsNotAnError, tables
<1> QED
  BY <1>1, <1>2, <1>3, <1>4, <1>5 DEF IInv

LEMMA ReceiveIInv ==
  ASSUME IInv, NEW h \in Handler, NEW d \in Delivery, Receive(h, d)
  PROVE  IInv'
<1>1. TypeOK'
  BY DEF IInv, TypeOK, Receive, tables, Failing
<1>2. ASSUME NEW g \in Handler PROVE (HandlerInv(g) /\ TransactionInv(g))'
  <2>1. CASE g = h
    BY <2>1 DEF IInv, TypeOK, Receive, HandlerInv, TransactionInv, Acknowledging
  <2>2. CASE g # h
    BY <2>2, OtherHandler DEF IInv, TypeOK, Receive
  <2> QED
    BY <2>1, <2>2
<1>3. LockInv'
  BY DEF IInv, TypeOK, Receive, LockInv, HoldsReceipt, HoldsFingerprint, EventOf, BodyOf, KeyOf
<1>4. TableInv'
  BY TablesUnchanged DEF IInv, Receive
<1>5. AckedIsDurable' /\ RaceIsNotAnError'
  BY DEF IInv, TypeOK, Receive, AckedIsDurable, Durable, Completed, Stored, RaceIsNotAnError, tables
<1> QED
  BY <1>1, <1>2, <1>3, <1>4, <1>5 DEF IInv

LEMMA AcceptIInv ==
  ASSUME IInv, NEW h \in Handler, Accept(h)
  PROVE  IInv'
<1>1. CASE PayloadChanged(job[h]) \/ AttemptChanged(job[h])
  BY <1>1, ThrowIInv DEF Accept, Failing
<1>2. CASE ~ (PayloadChanged(job[h]) \/ AttemptChanged(job[h]))
  <2>1. /\ pc[h] = "received"
        /\ ReceiptRowFree(EventOf(h))
        /\ UNCHANGED <<tables, job, seen, acked>>
        /\ \/ /\ Completed(EventOf(h))
              /\ pc' = [pc EXCEPT ![h] = "written"]
              /\ outcome' = [outcome EXCEPT ![h] = "transport"]
           \/ /\ ~ Completed(EventOf(h))
              /\ pc' = [pc EXCEPT ![h] = "written"]
              /\ outcome' = [outcome EXCEPT ![h] = "quarantined"]
           \/ /\ ~ Completed(EventOf(h))
              /\ Mappable(BodyOf(h))
              /\ pc' = [pc EXCEPT ![h] = "accepted"]
              /\ UNCHANGED outcome
    BY <1>2 DEF Accept
  <2>2. TypeOK'
    BY <2>1 DEF IInv, TypeOK, tables, Acknowledging
  <2>3. job[h] \in Delivery /\ EventOf(h) \in Event
    BY <2>1, IntakeAssumption DEF IInv, HandlerInv, EventOf
  <2>4. ~ Completed(EventOf(h)) => ~ Stored(EventOf(h))
    BY <2>3 DEF IInv, TableInv, NoHalfReceipt
  <2>5. Completed(EventOf(h)) => receipts[EventOf(h)].payload = BodyOf(h)
    BY <1>2 DEF PayloadChanged, Completed, EventOf, BodyOf
  <2>6. ASSUME NEW g \in Handler PROVE (HandlerInv(g) /\ TransactionInv(g))'
    <3>1. CASE g = h
      BY <2>1, <2>3, <2>4, <2>5, <3>1 DEF IInv, TypeOK, HandlerInv, TransactionInv, Acknowledging,
         tables, EventOf, BodyOf, KeyOf, Stored, Completed, Mappable
    <3>2. CASE g # h
      BY <2>1, <3>2, OtherHandler DEF IInv, TypeOK
    <3> QED
      BY <3>1, <3>2
  <2>7. LockInv'
    BY <2>1 DEF IInv, TypeOK, LockInv, HoldsReceipt, HoldsFingerprint, EventOf, BodyOf, KeyOf,
       ReceiptRowFree
  <2>8. TableInv'
    BY <2>1, TablesUnchanged DEF IInv
  <2>9. AckedIsDurable' /\ RaceIsNotAnError'
    BY <2>1 DEF IInv, TypeOK, AckedIsDurable, Durable, Completed, Stored, RaceIsNotAnError, tables
  <2> QED
    BY <2>2, <2>6, <2>7, <2>8, <2>9 DEF IInv
<1> QED
  BY <1>1, <1>2

LEMMA LookUpKeyIInv ==
  ASSUME IInv, NEW h \in Handler, LookUpKey(h)
  PROVE  IInv'
<1>1. job[h] \in Delivery /\ KeyOf(h) \in Fingerprint
  BY IntakeAssumption DEF IInv, HandlerInv, LookUpKey, KeyOf, BodyOf
<1>2. TypeOK'
  BY <1>1 DEF IInv, TypeOK, LookUpKey, tables
<1>3. ASSUME NEW g \in Handler PROVE (HandlerInv(g) /\ TransactionInv(g))'
  <2>1. CASE g = h
    BY <2>1 DEF IInv, TypeOK, LookUpKey, HandlerInv, TransactionInv, tables, EventOf, BodyOf,
       KeyOf, Stored, Mappable
  <2>2. CASE g # h
    BY <2>2, OtherHandler DEF IInv, TypeOK, LookUpKey
  <2> QED
    BY <2>1, <2>2
<1>4. LockInv'
  BY DEF IInv, TypeOK, LookUpKey, LockInv, HoldsReceipt, HoldsFingerprint, EventOf, BodyOf,
     KeyOf, FingerprintFree
<1>5. TableInv'
  BY TablesUnchanged DEF IInv, LookUpKey
<1>6. AckedIsDurable' /\ RaceIsNotAnError'
  BY DEF IInv, TypeOK, LookUpKey, AckedIsDurable, Durable, Completed, Stored, RaceIsNotAnError, tables
<1> QED
  BY <1>2, <1>3, <1>4, <1>5, <1>6 DEF IInv

(* What the lookup saw still holds at the insert, so the primary key of    *)
(* the registry never refuses it.                                          *)
LEMMA WriteMappingIInv ==
  ASSUME IInv, NEW h \in Handler, WriteMapping(h)
  PROVE  IInv'
<1>1. /\ pc[h] = "looked"
      /\ UNCHANGED <<tables, job, seen, acked>>
      /\ pc' = [pc EXCEPT ![h] = "written"]
      /\ \/ registry[KeyOf(h)] # NoEvent /\ outcome' = [outcome EXCEPT ![h] = "duplicate"]
         \/ registry[KeyOf(h)] = NoEvent /\ outcome' = [outcome EXCEPT ![h] = "mapped"]
  BY DEF WriteMapping, IInv, TransactionInv, Throw
<1>2. TypeOK'
  BY <1>1 DEF IInv, TypeOK, tables, Acknowledging
<1>3. ASSUME NEW g \in Handler PROVE (HandlerInv(g) /\ TransactionInv(g))'
  <2>1. CASE g = h
    BY <1>1, <2>1 DEF IInv, TypeOK, HandlerInv, TransactionInv, tables, EventOf, BodyOf,
       KeyOf, Stored, Mappable, Acknowledging
  <2>2. CASE g # h
    BY <1>1, <2>2, OtherHandler DEF IInv, TypeOK
  <2> QED
    BY <2>1, <2>2
<1>4. LockInv'
  BY <1>1 DEF IInv, TypeOK, LockInv, HoldsReceipt, HoldsFingerprint, EventOf, BodyOf, KeyOf
<1>5. TableInv'
  BY <1>1, TablesUnchanged DEF IInv
<1>6. AckedIsDurable' /\ RaceIsNotAnError'
  BY <1>1 DEF IInv, TypeOK, AckedIsDurable, Durable, Completed, Stored, RaceIsNotAnError, tables
<1> QED
  BY <1>2, <1>3, <1>4, <1>5, <1>6 DEF IInv

LEMMA LeaveIInv ==
  ASSUME IInv, NEW h \in Handler, pc[h] # "idle",
         Idle(h), UNCHANGED tables,
         acked' = acked \/ (pc[h] = "answering" /\ AckAllowed(h) /\ acked' = acked \cup {job[h]})
  PROVE  IInv'
<1>1. job[h] \in Delivery
  BY DEF IInv, HandlerInv
<1>2. TypeOK'
  BY <1>1 DEF IInv, TypeOK, Idle, tables
<1>3. ASSUME NEW g \in Handler PROVE (HandlerInv(g) /\ TransactionInv(g))'
  <2>1. CASE g = h
    BY <2>1 DEF IInv, TypeOK, Idle, HandlerInv, TransactionInv
  <2>2. CASE g # h
    BY <2>2, OtherHandler DEF IInv, TypeOK, Idle
  <2> QED
    BY <2>1, <2>2
<1>4. LockInv'
  BY DEF IInv, TypeOK, Idle, LockInv, HoldsReceipt, HoldsFingerprint, EventOf, BodyOf, KeyOf
<1>5. TableInv'
  BY TablesUnchanged DEF IInv
<1>6. AckedIsDurable'
  BY DEF IInv, AckedIsDurable, Durable, Completed, Stored, tables, TransactionInv, AckAllowed
<1>7. RaceIsNotAnError'
  BY DEF IInv, TypeOK, Idle, RaceIsNotAnError
<1> QED
  BY <1>2, <1>3, <1>4, <1>5, <1>6, <1>7 DEF IInv

(***************************************************************************)
(* COMMIT.  Both forms of it make the same rows visible; they differ in    *)
(* the answer only.                                                        *)
(***************************************************************************)

(* The facts about a committing handler the lemmas below share.            *)
Committing(h) ==
  /\ pc[h] = "written"
  /\ MakeVisible(h)
  /\ pc' = [pc EXCEPT ![h] = "answering"]
  /\ \/ UNCHANGED outcome
     \/ outcome' = [outcome EXCEPT ![h] = "database_error"]
  /\ UNCHANGED <<job, seen, acked>>

(* Rows that COMMIT leaves alone: those of other events, and a key that    *)
(* already has an owner.  A completed receipt keeps its body and its link. *)
LEMMA VisibleFrame ==
  ASSUME IInv, NEW h \in Handler, Committing(h)
  PROVE  /\ \A e \in Event : e # EventOf(h) => receipts'[e] = receipts[e] /\ links'[e] = links[e]
         /\ \A e \in Event : Stored(e) => receipts'[e] = receipts[e] /\ links'[e] = links[e]
         /\ \A f \in Fingerprint : registry[f] # NoEvent => registry'[f] = registry[f]
         /\ \A f \in Fingerprint :
              registry'[f] # registry[f] => outcome[h] = "mapped" /\ f = KeyOf(h)
         /\ attempts' = attempts \cup {job[h]}
         /\ Completed(EventOf(h))'
         /\ receipts'[EventOf(h)].payload = BodyOf(h)
         /\ links'[EventOf(h)].status # "none"
<1>1. job[h] \in Delivery /\ EventOf(h) \in Event /\ KeyOf(h) \in Fingerprint /\ BodyOf(h) \in Payload
  BY IntakeAssumption DEF IInv, HandlerInv, Committing, EventOf, KeyOf, BodyOf
<1>2. TypeOK /\ TransactionInv(h) /\ ReceiptExplained
  BY DEF IInv, TableInv
<1> USE DEF Committing, TypeOK, TransactionInv, RecordAttempt, SetReceipt, SetLink, EventOf, BodyOf, KeyOf
<1>3. CASE CommitTransport(h)
  BY <1>1, <1>2, <1>3 DEF CommitTransport, Completed, Stored, ReceiptExplained
<1>4. CASE CommitQuarantine(h)
  BY <1>1, <1>2, <1>4 DEF CommitQuarantine, Completed, Stored, Absent, Unlinked, Terminal
<1>5. CASE CommitDuplicate(h)
  BY <1>1, <1>2, <1>5 DEF CommitDuplicate, Completed, Stored, Absent, Unlinked, Terminal
<1>6. CASE CommitMapped(h)
  BY <1>1, <1>2, <1>6 DEF CommitMapped, Completed, Stored, Absent, Unlinked, Terminal
<1> QED
  BY <1>3, <1>4, <1>5, <1>6 DEF MakeVisible, Committing

(* The rows a transaction makes visible keep the tables consistent.        *)
LEMMA CommitTables ==
  ASSUME IInv, NEW h \in Handler, Committing(h)
  PROVE  TableInv'
<1>1. job[h] \in Delivery /\ EventOf(h) \in Event /\ KeyOf(h) \in Fingerprint /\ BodyOf(h) \in Payload
  BY IntakeAssumption DEF IInv, HandlerInv, Committing, EventOf, KeyOf, BodyOf
<1>2. TypeOK /\ TransactionInv(h) /\ TableInv
  BY DEF IInv
<1>3. CASE CommitTransport(h)
  BY <1>2, <1>3 DEF CommitTransport, TableInv, NoHalfReceipt, OneObservationPerFingerprint,
     QuarantineIsolated, ReceiptExplained, Stored, Completed
<1>4. CASE CommitQuarantine(h)
  <2>1. ~ Stored(EventOf(h))
    BY <1>2, <1>4 DEF TransactionInv, Committing, CommitQuarantine
  <2>2. NoHalfReceipt'
    BY <1>1, <1>2, <1>4 DEF CommitQuarantine, TypeOK, TableInv, NoHalfReceipt, SetReceipt, Stored,
       Completed, Terminal
  <2>3. OneObservationPerFingerprint'
    BY <1>2, <1>4 DEF CommitQuarantine, TableInv, OneObservationPerFingerprint
  <2>4. QuarantineIsolated'
    BY <1>1, <1>2, <1>4, <2>1 DEF CommitQuarantine, TypeOK, TableInv, QuarantineIsolated, SetReceipt, Stored
  <2>5. ReceiptExplained'
    <3>1. \A f \in Fingerprint : registry[f] # NoEvent =>
            registry[f] # EventOf(h) /\ receipts'[registry[f]] = receipts[registry[f]]
      BY <1>1, <1>2, <1>4, <2>1 DEF CommitQuarantine, SetReceipt, TypeOK, TableInv, QuarantineIsolated
    <3>2. (\A f \in Fingerprint :
              work[f] # "none" <=>
                registry[f] # NoEvent /\ receipts[registry[f]].payload \in Evidenced)'
      BY <1>2, <1>4, <3>1 DEF CommitQuarantine, TableInv, ReceiptExplained
    <3>3. (\A e \in Event : Stored(e) <=> links[e].status # "none")'
      BY <1>1, <1>2, <1>4 DEF CommitQuarantine, TypeOK, TableInv, ReceiptExplained, SetReceipt,
         SetLink, Stored, Unlinked, Absent
    <3>4. /\ (\A e \in Event : links[e].status = "canonical" => registry[links[e].fingerprint] = e)'
          /\ (\A e \in Event : links[e].status = "duplicate" =>
                registry[links[e].fingerprint] \notin {e, NoEvent})'
          /\ (\A e \in Event : links[e].status = "quarantined" => deadLetters[e] # "none")'
      BY <1>1, <1>2, <1>4 DEF CommitQuarantine, TypeOK, TableInv, ReceiptExplained, SetLink,
         OpenDeadLetter
    <3> QED
      BY <3>2, <3>3, <3>4 DEF ReceiptExplained
  <2> QED
    BY <2>2, <2>3, <2>4, <2>5 DEF TableInv
<1>5. CASE CommitDuplicate(h)
  <2>1. ~ Stored(EventOf(h)) /\ registry[KeyOf(h)] # NoEvent
    BY <1>2, <1>5 DEF TransactionInv, Committing, CommitDuplicate
  <2>2. Stored(registry[KeyOf(h)])
    BY <1>1, <1>2, <2>1 DEF TableInv, QuarantineIsolated
  <2>3. NoHalfReceipt'
    BY <1>1, <1>2, <1>5 DEF CommitDuplicate, TypeOK, TableInv, NoHalfReceipt, SetReceipt, Stored,
       Completed, Terminal
  <2>4. OneObservationPerFingerprint'
    BY <1>2, <1>5 DEF CommitDuplicate, TableInv, OneObservationPerFingerprint
  <2>5. QuarantineIsolated'
    BY <1>1, <1>2, <1>5, <2>1 DEF CommitDuplicate, TypeOK, TableInv, QuarantineIsolated, SetReceipt, Stored
  <2>6. ReceiptExplained'
    <3>1. \A f \in Fingerprint : registry[f] # NoEvent =>
            registry[f] # EventOf(h) /\ receipts'[registry[f]] = receipts[registry[f]]
      BY <1>1, <1>2, <1>5, <2>1 DEF CommitDuplicate, SetReceipt, TypeOK, TableInv, QuarantineIsolated
    <3>2. (\A f \in Fingerprint :
              work[f] # "none" <=>
                registry[f] # NoEvent /\ receipts[registry[f]].payload \in Evidenced)'
      BY <1>2, <1>5, <3>1 DEF CommitDuplicate, TableInv, ReceiptExplained
    <3>3. (\A e \in Event : Stored(e) <=> links[e].status # "none")'
      BY <1>1, <1>2, <1>5 DEF CommitDuplicate, TypeOK, TableInv, ReceiptExplained, SetReceipt,
         SetLink, Stored, Unlinked, Absent
    <3>4. /\ (\A e \in Event : links[e].status = "canonical" => registry[links[e].fingerprint] = e)'
          /\ (\A e \in Event : links[e].status = "duplicate" =>
                registry[links[e].fingerprint] \notin {e, NoEvent})'
          /\ (\A e \in Event : links[e].status = "quarantined" => deadLetters[e] # "none")'
      BY <1>1, <1>2, <1>5, <2>1, <2>2 DEF CommitDuplicate, TypeOK, TableInv, ReceiptExplained, SetLink,
         Stored
    <3> QED
      BY <3>2, <3>3, <3>4 DEF ReceiptExplained
  <2> QED
    BY <2>3, <2>4, <2>5, <2>6 DEF TableInv
<1>6. CASE CommitMapped(h)
  <2>1. ~ Stored(EventOf(h)) /\ registry[KeyOf(h)] = NoEvent /\ Mappable(BodyOf(h))
    BY <1>2, <1>6 DEF TransactionInv, Committing, CommitMapped
  <2>2. NoHalfReceipt'
    BY <1>1, <1>2, <1>6 DEF CommitMapped, TypeOK, TableInv, NoHalfReceipt, SetReceipt, Stored,
       Completed, Terminal
  <2>3. OneObservationPerFingerprint'
    BY <1>1, <1>2, <1>6, <2>1, IntakeAssumption DEF CommitMapped, TypeOK, TableInv,
       OneObservationPerFingerprint
  <2>4. QuarantineIsolated'
    BY <1>1, <1>2, <1>6, <2>1 DEF CommitMapped, TypeOK, TableInv, QuarantineIsolated, SetReceipt,
       Stored, Absent, Mappable, KeyOf
  <2>5. \A f \in Fingerprint : registry[f] # EventOf(h)
    BY <1>1, <1>2, <2>1, IntakeAssumption DEF TableInv, QuarantineIsolated
  <2>6. ReceiptExplained'
    <3>1. (\A e \in Event : Stored(e) <=> links[e].status # "none")'
      BY <1>1, <1>2, <1>6 DEF CommitMapped, TypeOK, TableInv, ReceiptExplained,
         SetReceipt, SetLink, Stored, Unlinked, Absent
    <3>2. (\A e \in Event : links[e].status = "canonical" => registry[links[e].fingerprint] = e)'
      BY <1>1, <1>2, <1>6, <2>1, IntakeAssumption DEF CommitMapped, TypeOK, TableInv, ReceiptExplained,
         SetLink
    <3>3. (\A e \in Event : links[e].status = "duplicate" =>
              registry[links[e].fingerprint] \notin {e, NoEvent})'
      BY <1>1, <1>2, <1>6, <2>1, IntakeAssumption DEF CommitMapped, TypeOK, TableInv, ReceiptExplained,
         SetLink
    <3>4. (\A e \in Event : links[e].status = "quarantined" => deadLetters[e] # "none")'
      BY <1>1, <1>2, <1>6 DEF CommitMapped, TypeOK, TableInv, ReceiptExplained, SetLink
    <3>5. (\A f \in Fingerprint :
              work[f] # "none" <=>
                registry[f] # NoEvent /\ receipts[registry[f]].payload \in Evidenced)'
      <4> SUFFICES ASSUME NEW f \in Fingerprint
                   PROVE (work[f] # "none" <=>
                           registry[f] # NoEvent /\ receipts[registry[f]].payload \in Evidenced)'
        OBVIOUS
      <4>1. CASE f = KeyOf(h)
        BY <1>1, <1>2, <1>6, <2>1, <4>1, IntakeAssumption DEF CommitMapped, SetReceipt,
           TypeOK, TableInv, ReceiptExplained
      <4>2. CASE f # KeyOf(h)
        BY <1>1, <1>2, <1>6, <2>5, <4>2 DEF CommitMapped, SetReceipt, TypeOK, TableInv,
           ReceiptExplained
      <4> QED
        BY <4>1, <4>2
    <3> QED
      BY <3>1, <3>2, <3>3, <3>4, <3>5 DEF ReceiptExplained
  <2> QED
    BY <2>2, <2>3, <2>4, <2>6 DEF TableInv
<1> QED
  BY <1>3, <1>4, <1>5, <1>6 DEF MakeVisible, Committing

LEMMA CommittingIInv ==
  ASSUME IInv, NEW h \in Handler, Committing(h)
  PROVE  IInv'
<1>1. job[h] \in Delivery /\ EventOf(h) \in Event /\ KeyOf(h) \in Fingerprint
  BY IntakeAssumption DEF IInv, HandlerInv, Committing, EventOf, KeyOf, BodyOf
<1>2. TypeOK'
  BY <1>1, VisibleTypeOK DEF IInv, TypeOK, Committing, Failing
<1>3. ASSUME NEW g \in Handler PROVE (HandlerInv(g) /\ TransactionInv(g))'
  <2>1. HandlerInv(g) /\ TransactionInv(g) /\ HandlerInv(h) /\ TransactionInv(h)
    BY DEF IInv
  <2>2. CASE g = h
    <3>1. Durable(job[h])'
      BY <1>1, VisibleFrame DEF Durable, EventOf, BodyOf, Committing
    <3> QED
      BY <2>1, <2>2, <3>1 DEF IInv, TypeOK, Committing, HandlerInv, TransactionInv
  <2>3. CASE g # h
    <3>1. pc'[g] = pc[g] /\ job'[g] = job[g] /\ seen'[g] = seen[g] /\ outcome'[g] = outcome[g]
      BY <2>3 DEF Committing, IInv, TypeOK
    <3>2. HandlerInv(g)'
      BY <2>1, <3>1 DEF HandlerInv
    <3>3. pc[g] # "idle" => job[g] \in Delivery /\ EventOf(g) \in Event /\ KeyOf(g) \in Fingerprint
      BY <2>1, IntakeAssumption DEF HandlerInv, EventOf, KeyOf, BodyOf
    <3>4. HoldsReceipt(g) => EventOf(g) # EventOf(h)
      BY <2>3 DEF IInv, LockInv, HoldsReceipt, Committing
    <3>5. HoldsFingerprint(g) /\ outcome[h] = "mapped" => KeyOf(g) # KeyOf(h)
      BY <2>3 DEF IInv, LockInv, HoldsFingerprint, Committing
    <3>6. pc[g] = "answering" /\ Durable(job[g]) => Durable(job[g])'
      BY <1>1, <3>1, <3>3, VisibleFrame DEF Durable, Completed, Stored, EventOf
    <3>7. HoldsReceipt(g) => receipts'[EventOf(g)] = receipts[EventOf(g)]
      BY <3>3, <3>4, VisibleFrame DEF HoldsReceipt
    <3>8. HoldsFingerprint(g) => registry'[KeyOf(g)] = registry[KeyOf(g)]
      BY <3>3, <3>5, VisibleFrame DEF HoldsFingerprint
    <3>9. EventOf(g)' = EventOf(g) /\ BodyOf(g)' = BodyOf(g) /\ KeyOf(g)' = KeyOf(g)
      BY <3>1 DEF EventOf, BodyOf, KeyOf
    <3>10. TransactionInv(g)'
      BY <2>1, <3>1, <3>6, <3>7, <3>8, <3>9 DEF TransactionInv, HoldsReceipt, HoldsFingerprint, Stored,
         Completed, Mappable
    <3> QED
      BY <3>2, <3>10
  <2> QED
    BY <2>2, <2>3
<1>4. LockInv'
  BY DEF IInv, TypeOK, Committing, LockInv, HoldsReceipt, HoldsFingerprint, EventOf, BodyOf, KeyOf
<1>5. TableInv'
  BY CommitTables
<1>6. AckedIsDurable'
  <2>1. ASSUME NEW d \in acked PROVE Durable(d)'
    <3>1. Durable(d) /\ d.event \in Event
      BY <2>1, IntakeAssumption DEF IInv, AckedIsDurable, TypeOK
    <3> QED
      BY <3>1, VisibleFrame DEF Durable, Completed, Stored
  <2> QED
    BY <2>1 DEF AckedIsDurable, Committing
<1>7. RaceIsNotAnError'
  BY DEF IInv, TypeOK, RaceIsNotAnError, Committing
<1> QED
  BY <1>2, <1>3, <1>4, <1>5, <1>6, <1>7 DEF IInv

LEMMA CommitIInv ==
  ASSUME IInv, NEW h \in Handler, Commit(h) \/ CommitReplyLost(h)
  PROVE  IInv'
<1>1. Committing(h)
  BY DEF Commit, CommitReplyLost, Committing
<1> QED
  BY <1>1, CommittingIInv

LEMMA EnqueueDeadLetterIInv ==
  ASSUME IInv, NEW e \in Event, EnqueueDeadLetter(e)
  PROVE  IInv'
<1>1. receipts[e] \in Receipt /\ receipts'[e] = [receipts[e] EXCEPT !.status = "failed"]
  BY DEF IInv, TypeOK, EnqueueDeadLetter, Stored
<1>2. receipts'[e] \in Receipt /\ receipts'[e] # Absent /\ receipts'[e].payload = receipts[e].payload
      /\ receipts'[e].status \in Terminal
  BY <1>1 DEF Receipt, Absent, Terminal
<1>3. \A x \in Event : x # e => receipts'[x] = receipts[x]
  BY DEF IInv, TypeOK, EnqueueDeadLetter
<1>4. TypeOK'
  BY <1>2 DEF IInv, TypeOK, EnqueueDeadLetter, OpenDeadLetter, handlers
<1>5. \A x \in Event : /\ Stored(x)' = Stored(x)
                       /\ Completed(x)' = Completed(x)
                       /\ receipts'[x].payload = receipts[x].payload
  BY <1>1, <1>2, <1>3 DEF IInv, TableInv, NoHalfReceipt, Stored, Completed, EnqueueDeadLetter
<1>6. ASSUME NEW h \in Handler PROVE (HandlerInv(h) /\ TransactionInv(h))'
  <2>1. HandlerInv(h) /\ TransactionInv(h)
    BY DEF IInv
  <2>2. pc[h] # "idle" => EventOf(h) \in Event /\ job[h].event \in Event
    BY <2>1, IntakeAssumption DEF HandlerInv, EventOf
  <2> QED
    BY <1>5, <2>1, <2>2 DEF EnqueueDeadLetter, handlers, HandlerInv, TransactionInv, Durable, EventOf,
       BodyOf, KeyOf, Mappable
<1>7. LockInv'
  BY DEF IInv, EnqueueDeadLetter, handlers, LockInv, HoldsReceipt, HoldsFingerprint, EventOf, BodyOf, KeyOf
<1>8. TableInv'
  <2>1. NoHalfReceipt' /\ OneObservationPerFingerprint'
    BY <1>5 DEF IInv, TableInv, NoHalfReceipt, OneObservationPerFingerprint, EnqueueDeadLetter
  <2>2. QuarantineIsolated'
    BY <1>5 DEF IInv, TypeOK, TableInv, QuarantineIsolated, EnqueueDeadLetter
  <2>3. ReceiptExplained'
    BY <1>5 DEF IInv, TypeOK, TableInv, ReceiptExplained, EnqueueDeadLetter, OpenDeadLetter
  <2> QED
    BY <2>1, <2>2, <2>3 DEF TableInv
<1>9. AckedIsDurable' /\ RaceIsNotAnError'
  BY <1>5, IntakeAssumption DEF IInv, TypeOK, AckedIsDurable, Durable, RaceIsNotAnError,
     EnqueueDeadLetter, handlers
<1> QED
  BY <1>4, <1>6, <1>7, <1>8, <1>9 DEF IInv

(* Replay requests and evidence review touch neither receipts nor handlers. *)
LEMMA SideTableIInv ==
  ASSUME IInv,
         \/ \E e \in Event : RequestReplay(e)
         \/ \E f \in Fingerprint : AdvanceWork(f)
  PROVE  IInv'
<1>1. UNCHANGED <<receipts, attempts, links, registry, observations, handlers, acked>>
  BY DEF RequestReplay, AdvanceWork
<1>2. TypeOK'
  BY DEF IInv, TypeOK, RequestReplay, AdvanceWork, handlers
<1>3. ASSUME NEW h \in Handler PROVE (HandlerInv(h) /\ TransactionInv(h))'
  BY <1>1 DEF IInv, handlers, HandlerInv, TransactionInv, Durable, Stored, Completed, Mappable, EventOf,
     BodyOf, KeyOf
<1>4. LockInv'
  BY <1>1 DEF IInv, handlers, LockInv, HoldsReceipt, HoldsFingerprint, EventOf, BodyOf, KeyOf
<1>5. TableInv'
  BY <1>1 DEF IInv, TypeOK, RequestReplay, AdvanceWork, TableInv, NoHalfReceipt,
     OneObservationPerFingerprint, QuarantineIsolated, ReceiptExplained, Stored, Completed
<1>6. AckedIsDurable' /\ RaceIsNotAnError'
  BY <1>1 DEF IInv, handlers, AckedIsDurable, Durable, Stored, Completed, RaceIsNotAnError
<1> QED
  BY <1>2, <1>3, <1>4, <1>5, <1>6 DEF IInv

LEMMA NextIInv == IInv /\ [Next]_vars => IInv'
<1> SUFFICES ASSUME IInv, [Next]_vars PROVE IInv'
  OBVIOUS
<1>1. ASSUME NEW h \in Handler, NEW d \in Delivery, Receive(h, d) PROVE IInv'
  BY <1>1, ReceiveIInv
<1>2. ASSUME NEW h \in Handler, FailAssertion(h) PROVE IInv'
  BY <1>2, ThrowIInv DEF FailAssertion, Failing
<1>3. ASSUME NEW h \in Handler, Accept(h) PROVE IInv'
  BY <1>3, AcceptIInv
<1>4. ASSUME NEW h \in Handler, LookUpKey(h) PROVE IInv'
  BY <1>4, LookUpKeyIInv
<1>5. ASSUME NEW h \in Handler, WriteMapping(h) PROVE IInv'
  BY <1>5, WriteMappingIInv
<1>6. ASSUME NEW h \in Handler, Commit(h) \/ CommitReplyLost(h) PROVE IInv'
  BY <1>6, CommitIInv
<1>7. ASSUME NEW h \in Handler, Abort(h) PROVE IInv'
  BY <1>7, ThrowIInv DEF Abort, Failing
<1>8. ASSUME NEW h \in Handler, Answer(h) \/ Crash(h) PROVE IInv'
  BY <1>8, LeaveIInv DEF Answer, Crash
<1>9. ASSUME NEW e \in Event, EnqueueDeadLetter(e) PROVE IInv'
  BY <1>9, EnqueueDeadLetterIInv
<1>10. ASSUME NEW e \in Event, RequestReplay(e) PROVE IInv'
  BY <1>10, SideTableIInv
<1>11. ASSUME NEW f \in Fingerprint, AdvanceWork(f) PROVE IInv'
  BY <1>11, SideTableIInv
<1>12. CASE UNCHANGED vars
  BY <1>12 DEF vars, handlers, tables, IInv, TypeOK, HandlerInv, TransactionInv, LockInv, TableInv,
     AckedIsDurable, RaceIsNotAnError, NoHalfReceipt, OneObservationPerFingerprint, QuarantineIsolated,
     ReceiptExplained, Durable, Stored, Completed, Mappable, EventOf, BodyOf, KeyOf, HoldsReceipt,
     HoldsFingerprint
<1> QED
  BY <1>1, <1>2, <1>3, <1>4, <1>5, <1>6, <1>7, <1>8, <1>9, <1>10, <1>11, <1>12 DEF Next

(* The invariant behind everything below holds of every reachable state.   *)
THEOREM IntakeInvariant == Spec => []IInv
<1>1. Init => IInv
  BY InitIInv
<1>2. IInv /\ [Next]_vars => IInv'
  BY NextIInv
<1> QED
  BY <1>1, <1>2, PTL DEF Spec

----------------------------------------------------------------------------
(* Consequences.                                                           *)

(* Every table and handler keeps its type.                                 *)
THEOREM TypeCorrect == Spec => []TypeOK
<1>1. IInv => TypeOK
  BY DEF IInv
<1> QED
  BY <1>1, IntakeInvariant, PTL

(* A 2xx answer is a promise: the acknowledged body is durably completed.  *)
THEOREM AckIsAPromise == Spec => []AckedIsDurable
<1>1. IInv => AckedIsDurable
  BY DEF IInv
<1> QED
  BY <1>1, IntakeInvariant, PTL

(* Concurrent findings with one meaning yield one canonical observation.   *)
THEOREM OneCanonicalObservation == Spec => []OneObservationPerFingerprint
<1>1. IInv => OneObservationPerFingerprint
  BY DEF IInv, TableInv
<1> QED
  BY <1>1, IntakeInvariant, PTL

(* Nothing quarantined ever owns a fingerprint.                            *)
THEOREM QuarantineNeverMaps == Spec => []QuarantineIsolated
<1>1. IInv => QuarantineIsolated
  BY DEF IInv, TableInv
<1> QED
  BY <1>1, IntakeInvariant, PTL

(* A receipt in the table is terminal: no transaction commits half of one. *)
THEOREM ReceiptsAreWhole == Spec => []NoHalfReceipt
<1>1. IInv => NoHalfReceipt
  BY DEF IInv, TableInv
<1> QED
  BY <1>1, IntakeInvariant, PTL

(* Receipt, link, registry, dead letter and evidence work stay consistent. *)
THEOREM ReceiptsExplained == Spec => []ReceiptExplained
<1>1. IInv => ReceiptExplained
  BY DEF IInv, TableInv
<1> QED
  BY <1>1, IntakeInvariant, PTL

(* The registry's primary key never turns a race into an error.            *)
THEOREM RaceNeverFails == Spec => []RaceIsNotAnError
<1>1. IInv => RaceIsNotAnError
  BY DEF IInv
<1> QED
  BY <1>1, IntakeInvariant, PTL

LEMMA CommitEffects ==
  ASSUME IInv, NEW h \in Handler, Committing(h)
  PROVE  EffectsKept
<1>1. job[h] \in Delivery /\ EventOf(h) \in Event /\ KeyOf(h) \in Fingerprint
  BY IntakeAssumption DEF IInv, HandlerInv, Committing, EventOf, KeyOf, BodyOf
<1>2. ASSUME NEW e \in Event, Stored(e)
      PROVE  links'[e] = links[e] /\ receipts'[e].payload = receipts[e].payload
  BY <1>2, VisibleFrame
<1>3. ASSUME NEW f \in Fingerprint, work[f] = "advanced" PROVE work'[f] = "advanced"
  <2>1. registry[f] # NoEvent
    BY <1>3 DEF IInv, TableInv, ReceiptExplained
  <2>2. CASE CommitMapped(h)
    <3>1. registry[KeyOf(h)] = NoEvent
      BY <2>2 DEF IInv, TransactionInv, Committing, CommitMapped
    <3> QED
      BY <1>1, <1>3, <2>1, <2>2, <3>1 DEF CommitMapped, IInv, TypeOK
  <2> QED
    BY <1>3, <2>2 DEF Committing, MakeVisible, CommitTransport, CommitQuarantine, CommitDuplicate
<1>4. ASSUME NEW f \in Fingerprint, registry[f] # NoEvent PROVE registry'[f] = registry[f]
  BY <1>4, VisibleFrame
<1> QED
  BY <1>2, <1>3, <1>4 DEF EffectsKept

LEMMA StepEffects == IInv /\ [Next]_vars => [EffectsKept]_vars
<1> SUFFICES ASSUME IInv, Next PROVE EffectsKept
  OBVIOUS
<1>1. ASSUME UNCHANGED tables PROVE EffectsKept
  BY <1>1 DEF tables, EffectsKept
<1>2. ASSUME NEW h \in Handler, Commit(h) \/ CommitReplyLost(h) PROVE EffectsKept
  BY <1>2, CommitEffects DEF Commit, CommitReplyLost, Committing
<1>3. ASSUME NEW e \in Event, EnqueueDeadLetter(e) PROVE EffectsKept
  <2>1. receipts[e] \in Receipt /\ receipts'[e] = [receipts[e] EXCEPT !.status = "failed"]
    BY <1>3 DEF IInv, TypeOK, EnqueueDeadLetter, Stored
  <2>2. \A x \in Event : receipts'[x].payload = receipts[x].payload
    BY <1>3, <2>1 DEF IInv, TypeOK, EnqueueDeadLetter, Receipt
  <2> QED
    BY <1>3, <2>2 DEF EnqueueDeadLetter, EffectsKept
<1>4. ASSUME NEW e \in Event, RequestReplay(e) PROVE EffectsKept
  BY <1>4 DEF RequestReplay, EffectsKept
<1>5. ASSUME NEW f \in Fingerprint, AdvanceWork(f) PROVE EffectsKept
  BY <1>5 DEF AdvanceWork, EffectsKept, IInv, TypeOK
<1>6. ASSUME NEW h \in Handler,
             \/ \E d \in Delivery : Receive(h, d)
             \/ FailAssertion(h) \/ Accept(h) \/ LookUpKey(h) \/ WriteMapping(h)
             \/ Abort(h) \/ Answer(h) \/ Crash(h)
      PROVE  UNCHANGED tables
  BY <1>6 DEF Receive, FailAssertion, Accept, LookUpKey, WriteMapping, Abort, Answer, Crash, Throw
<1> QED
  BY <1>1, <1>2, <1>3, <1>4, <1>5, <1>6 DEF Next

(* Retries and duplicates never repeat the side effects of a completed     *)
(* receipt and never send reviewed evidence work back.                     *)
THEOREM RetriesHaveNoEffect == Spec => EffectsOnce
<1>1. IInv /\ [Next]_vars => [EffectsKept]_vars
  BY StepEffects
<1> QED
  BY <1>1, IntakeInvariant, PTL DEF Spec, EffectsOnce

----------------------------------------------------------------------------
(* Refinement of IntakeContract.                                           *)

LEMMA InitContract == Init => Contract!Init
BY DEF Init, Contract!Init, Unlinked, decisions, toldEvents

(* Setting one link sets that event's decision.                            *)
LEMMA LinkDecides ==
  ASSUME TypeOK, NEW h \in Handler, EventOf(h) \in Event,
         NEW status \in {"canonical", "duplicate", "quarantined"}, NEW f,
         SetLink(h, status, f)
  PROVE  decisions' = [decisions EXCEPT ![EventOf(h)] = status]
BY DEF TypeOK, SetLink, decisions

LEMMA UnstoredPending ==
  ASSUME IInv, NEW e \in Event, ~ Stored(e)
  PROVE  decisions[e] = "pending"
BY DEF IInv, TableInv, ReceiptExplained, Unlinked, decisions

LEMMA LinkedDecided ==
  ASSUME TypeOK, NEW e \in Event, links[e].status # "none"
  PROVE  decisions[e] # "pending"
<1>1. links[e].status \in {"canonical", "duplicate", "quarantined"}
  BY DEF TypeOK, Link
<1> QED
  BY <1>1 DEF decisions

LEMMA CommitContract ==
  ASSUME IInv, NEW h \in Handler, Committing(h)
  PROVE  Contract!Next \/ UNCHANGED <<decisions, registry, toldEvents>>
<1>1. job[h] \in Delivery /\ EventOf(h) \in Event /\ KeyOf(h) \in Fingerprint
  BY IntakeAssumption DEF IInv, HandlerInv, Committing, EventOf, KeyOf, BodyOf
<1>2. toldEvents' = toldEvents
  BY DEF Committing, toldEvents
<1>3. TypeOK
  BY DEF IInv
<1>4. CASE CommitTransport(h)
  BY <1>2, <1>4 DEF CommitTransport, decisions
<1>5. CASE CommitQuarantine(h)
  <2>1. decisions[EventOf(h)] = "pending"
    BY <1>1, <1>5, UnstoredPending DEF IInv, TransactionInv, Committing, CommitQuarantine
  <2>2. decisions' = [decisions EXCEPT ![EventOf(h)] = "quarantined"]
    BY <1>1, <1>3, <1>5, LinkDecides DEF CommitQuarantine
  <2>3. Contract!Quarantine(EventOf(h))
    BY <1>2, <1>5, <2>1, <2>2 DEF Contract!Quarantine, Contract!Decide, CommitQuarantine
  <2> QED
    BY <1>1, <2>3 DEF Contract!Next
<1>6. CASE CommitDuplicate(h)
  <2>1. decisions[EventOf(h)] = "pending" /\ registry[KeyOf(h)] # NoEvent
    BY <1>1, <1>6, UnstoredPending DEF IInv, TransactionInv, Committing, CommitDuplicate
  <2>2. decisions' = [decisions EXCEPT ![EventOf(h)] = "duplicate"]
    BY <1>1, <1>3, <1>6, LinkDecides DEF CommitDuplicate
  <2>3. Contract!Repeat(EventOf(h), KeyOf(h))
    BY <1>2, <1>6, <2>1, <2>2 DEF Contract!Repeat, Contract!Decide, CommitDuplicate
  <2> QED
    BY <1>1, <2>3 DEF Contract!Next
<1>7. CASE CommitMapped(h)
  <2>1. decisions[EventOf(h)] = "pending" /\ registry[KeyOf(h)] = NoEvent
    BY <1>1, <1>7, UnstoredPending DEF IInv, TransactionInv, Committing, CommitMapped
  <2>2. decisions' = [decisions EXCEPT ![EventOf(h)] = "canonical"]
    BY <1>1, <1>3, <1>7, LinkDecides DEF CommitMapped
  <2>3. Contract!Observe(EventOf(h), KeyOf(h))
    BY <1>2, <1>7, <2>1, <2>2 DEF Contract!Observe, Contract!Decide, CommitMapped
  <2> QED
    BY <1>1, <2>3 DEF Contract!Next
<1> QED
  BY <1>4, <1>5, <1>6, <1>7 DEF Committing, MakeVisible

LEMMA AnswerContract ==
  ASSUME IInv, NEW h \in Handler, Answer(h)
  PROVE  Contract!Next \/ UNCHANGED <<decisions, registry, toldEvents>>
<1>1. decisions' = decisions /\ registry' = registry
  BY DEF Answer, tables, decisions
<1>2. CASE acked' = acked
  BY <1>1, <1>2 DEF toldEvents
<1>3. CASE AckAllowed(h) /\ acked' = acked \cup {job[h]}
  <2>1. Durable(job[h]) /\ job[h].event \in Event
    BY <1>3, IntakeAssumption DEF IInv, HandlerInv, TransactionInv, Answer, AckAllowed
  <2>2. links[job[h].event].status # "none"
    BY <2>1 DEF Durable
  <2>3. decisions[job[h].event] # "pending"
    BY <2>1, <2>2, LinkedDecided DEF IInv
  <2>4. toldEvents' = toldEvents \cup {job[h].event}
    BY <1>3 DEF toldEvents
  <2>5. Contract!Tell(job[h].event)
    BY <1>1, <2>3, <2>4 DEF Contract!Tell
  <2> QED
    BY <2>1, <2>5 DEF Contract!Next
<1> QED
  BY <1>2, <1>3 DEF Answer

LEMMA NextContract ==
  IInv /\ [Next]_vars => [Contract!Next]_<<decisions, registry, toldEvents>>
<1> SUFFICES ASSUME IInv, [Next]_vars
             PROVE  Contract!Next \/ UNCHANGED <<decisions, registry, toldEvents>>
  OBVIOUS
<1>1. ASSUME UNCHANGED <<links, registry, acked>>
      PROVE  UNCHANGED <<decisions, registry, toldEvents>>
  BY <1>1 DEF decisions, toldEvents
<1>2. ASSUME NEW h \in Handler, Commit(h) \/ CommitReplyLost(h)
      PROVE  Contract!Next \/ UNCHANGED <<decisions, registry, toldEvents>>
  BY <1>2, CommitContract DEF Commit, CommitReplyLost, Committing
<1>3. ASSUME NEW h \in Handler, Answer(h)
      PROVE  Contract!Next \/ UNCHANGED <<decisions, registry, toldEvents>>
  BY <1>3, AnswerContract
<1>4. ASSUME NEW h \in Handler,
             \/ \E d \in Delivery : Receive(h, d)
             \/ FailAssertion(h) \/ Accept(h) \/ LookUpKey(h) \/ WriteMapping(h)
             \/ Abort(h) \/ Crash(h)
      PROVE  UNCHANGED <<links, registry, acked>>
  BY <1>4 DEF Receive, FailAssertion, Accept, LookUpKey, WriteMapping, Abort, Crash, Throw, tables
<1>5. ASSUME \/ \E e \in Event : EnqueueDeadLetter(e) \/ RequestReplay(e)
             \/ \E f \in Fingerprint : AdvanceWork(f)
      PROVE  UNCHANGED <<links, registry, acked>>
  BY <1>5 DEF EnqueueDeadLetter, RequestReplay, AdvanceWork
<1>6. CASE UNCHANGED vars
  BY <1>1, <1>6 DEF vars, tables
<1> QED
  BY <1>1, <1>2, <1>3, <1>4, <1>5, <1>6 DEF Next

(* The interleaved transactions, with their locks, retries, lost replies   *)
(* and crashes, do nothing the contract does not allow.                    *)
THEOREM IntakeImplementsContract == Spec => ImplementsContract
<1>1. Init => Contract!Init
  BY InitContract
<1>2. IInv /\ [Next]_vars => [Contract!Next]_<<decisions, registry, toldEvents>>
  BY NextContract
<1> QED
  BY <1>1, <1>2, IntakeInvariant, PTL DEF Spec, ImplementsContract, Contract!Spec
============================================================================
