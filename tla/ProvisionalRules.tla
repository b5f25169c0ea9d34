-------------------------- MODULE ProvisionalRules --------------------------
(***************************************************************************)
(* The store of experimental rules, packages/provisional-rules: admission, *)
(* the claim compiler, activation, corrections and publication of batches. *)
(*                                                                         *)
(* Every operation is synchronous in one process, so that an action is one *)
(* call; what is hard is the order of the calls.  An envelope is immutable *)
(* and replaced by a new object; since each replacement adds to history or *)
(* corrections, equality of envelopes stands for identity of the objects.  *)
(* A call that is refused changes nothing and is not an action.            *)
(***************************************************************************)
EXTENDS Integers, FiniteSets

CONSTANTS
  Candidate,   \* candidate_hash
  Primary,     \* candidates whose source authority is primary
  CandidateId, \* candidate_id of a candidate, or NoId: it is optional
  CheckedAt,   \* machine_check.checked_at, one for all admissions of a candidate
  Batch,       \* batch_id
  Content,     \* what may be published under a batch_id: [members, at],
               \* members from candidates to member_id
  Signal,      \* corrections: [id, candidate, credible, severe, at]
  Id,          \* candidate_id and member_id
  MaxTime,     \* bound on timestamps
  NoId, Absent, NoContent, NoAnswer

Time == 0..MaxTime

ASSUME RulesAssumption ==
  /\ MaxTime \in Nat
  /\ Primary \subseteq Candidate
  /\ CandidateId \in [Candidate -> Id \cup {NoId}] /\ NoId \notin Id
  /\ CheckedAt \in [Candidate -> Time]
  /\ \A k \in Content : /\ DOMAIN k.members \subseteq Candidate
                        /\ k.members \in [DOMAIN k.members -> Id]
                        /\ k.at \in Time
  /\ \A s \in Signal : /\ s.candidate \in Candidate /\ s.at \in Time
                       /\ s.credible \in BOOLEAN /\ s.severe \in BOOLEAN
  /\ NoContent \notin Content /\ NoAnswer \notin Batch

Status == {"needs_evidence", "machine_checked", "active_experimental", "disputed", "quarantined"}

Envelope == [status : Status, last : Time, corrections : SUBSET Signal]

ASSUME AbsentAssumption == Absent \notin Envelope

VARIABLES
  envelopes, \* the current envelope of each candidate
  signalIds, \* corrections that were recorded: signalHashes
  batches,   \* content of each publication batch
  answer     \* the batch the last call was told is published

vars == <<envelopes, signalIds, batches, answer>>

Present(c) == envelopes[c] # Absent

Init ==
  /\ envelopes = [c \in Candidate |-> Absent]
  /\ signalIds = {}
  /\ batches = [b \in Batch |-> NoContent]
  /\ answer = NoAnswer

-----------------------------------------------------------------------------
(* Admission and activation.  Evidence is part of the observation, not of   *)
(* the candidate's hash: one candidate can be seen without and with it.     *)

Fresh(c, complete) ==
  [status |-> IF complete THEN "machine_checked" ELSE "needs_evidence",
   last |-> CheckedAt[c], corrections |-> {}]

(* Mutant of Held: an admission replaces the envelope.                      *)
HeldFresh(c, complete) == Fresh(c, complete)

(* The first admission of a candidate decides.                              *)
Held(c, complete) == IF Present(c) THEN envelopes[c] ELSE Fresh(c, complete)

(* Mutant of Activable: evidence is not asked for.                          *)
ActivableUnchecked(c, e, at) ==
  c \in Primary /\ e.status \in {"machine_checked", "needs_evidence"} /\ at >= e.last

Activable(c, e, at) ==
  c \in Primary /\ e.status = "machine_checked" /\ at >= e.last

(* Mutant of Activated: the status of a golden rule.                        *)
ActivatedAsPublished(e, at) == [e EXCEPT !.status = "published", !.last = at]

Activated(e, at) == [e EXCEPT !.status = "active_experimental", !.last = at]

Admit(c, complete) ==
  /\ envelopes' = [envelopes EXCEPT ![c] = Held(c, complete)]
  /\ answer' = NoAnswer
  /\ UNCHANGED <<signalIds, batches>>

Activate(c, at) ==
  /\ Present(c) /\ Activable(c, envelopes[c], at)
  /\ envelopes' = [envelopes EXCEPT ![c] = Activated(envelopes[c], at)]
  /\ answer' = NoAnswer
  /\ UNCHANGED <<signalIds, batches>>

(* Each claim of an observation is admitted and, with complete evidence,    *)
(* activated at the time of its check; claims succeed or fail one by one.   *)
Compiled(c, complete) ==
  LET e == Held(c, complete)
  IN IF complete /\ Activable(c, e, CheckedAt[c]) THEN Activated(e, CheckedAt[c]) ELSE e

Compile(claims, complete) ==
  /\ envelopes' = [c \in Candidate |-> IF c \in claims THEN Compiled(c, complete)
                                       ELSE envelopes[c]]
  /\ answer' = NoAnswer
  /\ UNCHANGED <<signalIds, batches>>

-----------------------------------------------------------------------------
(* Corrections.                                                             *)

(* Mutant of StatusAfter: a later dispute replaces the quarantine.          *)
StatusAfterLast(e, s) ==
  IF ~ s.credible THEN e.status
  ELSE IF s.severe THEN "quarantined"
  ELSE IF e.status = "needs_evidence" THEN e.status ELSE "disputed"

StatusAfter(e, s) ==
  IF ~ s.credible THEN e.status
  ELSE IF s.severe THEN "quarantined"
  ELSE IF e.status \in {"active_experimental", "machine_checked"} THEN "disputed"
  ELSE e.status

Acceptable(s) ==
  /\ \A r \in signalIds : r.id = s.id => r = s
  /\ Present(s.candidate)
  /\ \A r \in envelopes[s.candidate].corrections : r.id # s.id
  /\ s.at >= envelopes[s.candidate].last

ReportCorrection(s) ==
  /\ Acceptable(s)
  /\ envelopes' = [envelopes EXCEPT ![s.candidate] =
       [status |-> StatusAfter(@, s), last |-> s.at, corrections |-> @.corrections \cup {s}]]
  /\ signalIds' = signalIds \cup {s}
  /\ answer' = NoAnswer
  /\ UNCHANGED batches

-----------------------------------------------------------------------------
(* Publication.                                                             *)

Members(k) == DOMAIN k.members

PublicationId(k, c) == IF CandidateId[c] # NoId THEN CandidateId[c] ELSE k.members[c]

(* Every member is admitted and activated before the store is touched.      *)
Publishable(k) ==
  /\ Members(k) # {}
  /\ \A c \in Members(k) : Activable(c, Fresh(c, TRUE), k.at)
  /\ \A c, d \in Members(k) : c # d =>
       /\ k.members[c] # k.members[d]
       /\ CandidateId[c] # CandidateId[d] \/ CandidateId[c] = NoId

PublishedEnvelope(c, k) == Activated(Fresh(c, TRUE), k.at)

(* Mutant of Unpublished: only hashes are compared with what is published.  *)
UnpublishedHashes(k) == \A c \in Members(k) : ~ Present(c)

Unpublished(k) ==
  /\ \A c \in Members(k) : ~ Present(c)
  /\ \A b \in Batch : batches[b] # NoContent =>
       {PublicationId(batches[b], c) : c \in Members(batches[b])}
         \cap {PublicationId(k, c) : c \in Members(k)} = {}

Publish(b, k) ==
  /\ Publishable(k) /\ batches[b] = NoContent /\ Unpublished(k)
  /\ envelopes' = [c \in Candidate |-> IF c \in Members(k) THEN PublishedEnvelope(c, k)
                                       ELSE envelopes[c]]
  /\ batches' = [batches EXCEPT ![b] = k]
  /\ answer' = b
  /\ UNCHANGED signalIds

(* Mutant of StillAsPublished: the same content is published already.       *)
PublishedBefore(k) == TRUE

StillAsPublished(k) == \A c \in Members(k) : envelopes[c] = PublishedEnvelope(c, k)

(* The same batch_id with other content is refused.                         *)
Replay(b, k) ==
  /\ Publishable(k) /\ batches[b] = k /\ StillAsPublished(k)
  /\ answer' = b
  /\ UNCHANGED <<envelopes, signalIds, batches>>

Next ==
  \/ \E c \in Candidate, complete \in BOOLEAN : Admit(c, complete)
  \/ \E claims \in SUBSET Candidate, complete \in BOOLEAN : Compile(claims, complete)
  \/ \E c \in Candidate, at \in Time : Activate(c, at)
  \/ \E s \in Signal : ReportCorrection(s)
  \/ \E b \in Batch, k \in Content : Publish(b, k) \/ Replay(b, k)

Spec == Init /\ [][Next]_vars

(* selectProvisionalRules without include_machine_checked, for rules that   *)
(* are valid at the instant asked for.                                      *)
Selected ==
  {c \in Primary : Present(c) /\ envelopes[c].status = "active_experimental"}

-----------------------------------------------------------------------------
(* Types of the store.                                                      *)
TypeOK ==
  /\ envelopes \in [Candidate -> Envelope \cup {Absent}]
  /\ signalIds \subseteq Signal
  /\ batches \in [Batch -> Content \cup {NoContent}]
  /\ answer \in Batch \cup {NoAnswer}

(* README of the package, line 29: "Exact replay is idempotent while its    *)
(* versions remain active; changed replay and replay after a correction     *)
(* fail closed".  Whoever is told that a batch is published finds all of it *)
(* selected, whatever happened to its members before.                       *)
AnswerIsLive == answer # NoAnswer => Members(batches[answer]) \subseteq Selected

(* A publication identity belongs to one batch and a candidate to one       *)
(* batch: no order of publications gives a rule two versions from two.      *)
PublishedOnce ==
  \A a, b \in Batch :
    (a # b /\ batches[a] # NoContent /\ batches[b] # NoContent) =>
      \A c \in Members(batches[a]), d \in Members(batches[b]) :
        c # d /\ PublicationId(batches[a], c) # PublicationId(batches[b], d)

CredibleOn(c)  == {s \in envelopes[c].corrections : s.credible}
SevereOn(c)    == {s \in CredibleOn(c) : s.severe}

(* Status is a function of the corrections on record, in whichever order    *)
(* they came and whatever was admitted, compiled or published between them: *)
(* quarantined after a credible severe one, never selected after any        *)
(* credible one; and no signal is on record for two candidates.             *)
CorrectionsDecide ==
  \A c \in Candidate : Present(c) =>
    /\ envelopes[c].status = "quarantined" <=> SevereOn(c) # {}
    /\ CredibleOn(c) # {} => c \notin Selected
    /\ envelopes[c].status = "disputed" => CredibleOn(c) # {}
    /\ envelopes[c].corrections = {s \in signalIds : s.candidate = c}

(* A candidate first admitted without evidence never goes live: evidence    *)
(* that comes later needs a new candidate (store.admit keeps the envelope   *)
(* it has, the compiler activates that one).                                *)
LeadStaysLead ==
  [][\A c \in Candidate :
       Present(c) /\ envelopes[c].status = "needs_evidence"
         => envelopes'[c].status \in {"needs_evidence", "quarantined"}]_vars

Withdrawn == {c \in Candidate : Present(c) /\ envelopes[c].status \in {"disputed", "quarantined"}}

Contract == INSTANCE RuleContract WITH live <- Selected, withdrawn <- Withdrawn

(* The store implements its contract: "a disputed rule is never             *)
(* resurrected" (README of the package, line 30).                           *)
ImplementsContract == Contract!Spec
=============================================================================
