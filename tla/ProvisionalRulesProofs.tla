----------------------- MODULE ProvisionalRulesProofs -----------------------
(***************************************************************************)
(* Proofs about ProvisionalRules for all candidates, batches, contents,    *)
(* corrections and times.                                                  *)
(***************************************************************************)
EXTENDS ProvisionalRules, TLAPS

LEMMA FreshType ==
  ASSUME NEW c \in Candidate, NEW complete \in BOOLEAN
  PROVE  Fresh(c, complete) \in Envelope
BY RulesAssumption DEF Fresh, Envelope, Status

LEMMA ActivatedType ==
  ASSUME NEW e \in Envelope, NEW at \in Time
  PROVE  /\ Activated(e, at) \in Envelope
         /\ Activated(e, at).status = "active_experimental"
         /\ Activated(e, at).corrections = e.corrections
BY DEF Activated, Envelope, Status

LEMMA HeldType ==
  ASSUME TypeOK, NEW c \in Candidate, NEW complete \in BOOLEAN
  PROVE  Held(c, complete) \in Envelope
BY FreshType DEF TypeOK, Held, Present

LEMMA CompiledType ==
  ASSUME TypeOK, NEW c \in Candidate, NEW complete \in BOOLEAN
  PROVE  Compiled(c, complete) \in Envelope
BY HeldType, ActivatedType, RulesAssumption DEF Compiled

LEMMA PublishedType ==
  ASSUME NEW k \in Content, NEW c \in Members(k)
  PROVE  /\ c \in Candidate
         /\ PublishedEnvelope(c, k) \in Envelope
         /\ PublishedEnvelope(c, k) # Absent
         /\ PublishedEnvelope(c, k).status = "active_experimental"
         /\ PublishedEnvelope(c, k).corrections = {}
<1>1. c \in Candidate /\ k.at \in Time
  BY RulesAssumption DEF Members
<1>2. Fresh(c, TRUE) \in Envelope /\ Fresh(c, TRUE).corrections = {}
  BY <1>1, FreshType DEF Fresh
<1> QED
  BY <1>1, <1>2, ActivatedType, AbsentAssumption DEF PublishedEnvelope

LEMMA StatusAfterType ==
  ASSUME NEW e \in Envelope, NEW s \in Signal
  PROVE  StatusAfter(e, s) \in Status
BY DEF StatusAfter, Envelope, Status

LEMMA InitTypeOK == Init => TypeOK
BY DEF Init, TypeOK

LEMMA NextTypeOK == TypeOK /\ [Next]_vars => TypeOK'
<1> SUFFICES ASSUME TypeOK, [Next]_vars PROVE TypeOK'
  OBVIOUS
<1>1. ASSUME NEW c \in Candidate, NEW complete \in BOOLEAN, Admit(c, complete) PROVE TypeOK'
  BY <1>1, HeldType DEF TypeOK, Admit
<1>2. ASSUME NEW claims \in SUBSET Candidate, NEW complete \in BOOLEAN, Compile(claims, complete)
      PROVE TypeOK'
  BY <1>2, CompiledType DEF TypeOK, Compile
<1>3. ASSUME NEW c \in Candidate, NEW at \in Time, Activate(c, at) PROVE TypeOK'
  BY <1>3, ActivatedType DEF TypeOK, Activate, Present
<1>4. ASSUME NEW s \in Signal, ReportCorrection(s) PROVE TypeOK'
  <2>1. s.candidate \in Candidate /\ s.at \in Time
    BY RulesAssumption
  <2>2. envelopes[s.candidate] \in Envelope
    BY <1>4, <2>1 DEF TypeOK, ReportCorrection, Acceptable, Present
  <2>3. [status |-> StatusAfter(envelopes[s.candidate], s), last |-> s.at,
         corrections |-> envelopes[s.candidate].corrections \cup {s}] \in Envelope
    BY <2>1, <2>2, StatusAfterType DEF Envelope
  <2> QED
    BY <1>4, <2>1, <2>3 DEF TypeOK, ReportCorrection
<1>5. ASSUME NEW b \in Batch, NEW k \in Content, Publish(b, k) PROVE TypeOK'
  BY <1>5, PublishedType DEF TypeOK, Publish
<1>6. ASSUME NEW b \in Batch, NEW k \in Content, Replay(b, k) PROVE TypeOK'
  BY <1>6 DEF TypeOK, Replay
<1>7. CASE UNCHANGED vars
  BY <1>7 DEF TypeOK, vars
<1> QED
  BY <1>1, <1>2, <1>3, <1>4, <1>5, <1>6, <1>7 DEF Next

(* The store of envelopes, corrections and batches keeps its types.        *)
THEOREM TypeCorrect == Spec => []TypeOK
BY InitTypeOK, NextTypeOK, PTL DEF Spec

-----------------------------------------------------------------------------
(* The inductive invariant.                                                *)

(* CorrectionsDecide, said of every candidate instead of those selected:    *)
(* after a credible correction, activation would find no machine_checked    *)
(* candidate.                                                              *)
CorrectedInv ==
  \A c \in Candidate : Present(c) =>
    /\ envelopes[c].status = "quarantined" <=> SevereOn(c) # {}
    /\ CredibleOn(c) # {} => envelopes[c].status \notin {"machine_checked", "active_experimental"}
    /\ envelopes[c].status = "disputed" => CredibleOn(c) # {}
    /\ envelopes[c].corrections = {s \in signalIds : s.candidate = c}

(* What is corrected or published is in the store: a publication, which     *)
(* overwrites envelopes, overwrites none that matters.                     *)
PresentInv ==
  /\ \A s \in signalIds : Present(s.candidate)
  /\ \A b \in Batch : batches[b] # NoContent => \A c \in Members(batches[b]) : Present(c)

RulesInv ==
  /\ TypeOK
  /\ CorrectedInv
  /\ PresentInv
  /\ PublishedOnce
  /\ AnswerIsLive

LEMMA InitRulesInv == Init => RulesInv
<1> SUFFICES ASSUME Init PROVE RulesInv
  OBVIOUS
<1>1. \A c \in Candidate : ~ Present(c)
  BY DEF Init, Present
<1>2. \A b \in Batch : batches[b] = NoContent
  BY DEF Init
<1>3. TypeOK
  BY InitTypeOK
<1> QED
  BY <1>1, <1>2, <1>3 DEF Init, RulesInv, CorrectedInv, PresentInv, PublishedOnce, AnswerIsLive

(* A step that only replaces statuses, and no status after a credible       *)
(* correction, keeps what corrections decided.                             *)
LEMMA UncorrectedStep ==
  ASSUME CorrectedInv, PresentInv, UNCHANGED signalIds,
         NEW c \in Candidate, Present(c)',
         IF Present(c)
         THEN /\ envelopes'[c].corrections = envelopes[c].corrections
              /\ \/ envelopes'[c].status = envelopes[c].status
                 \/ /\ envelopes[c].status = "machine_checked"
                    /\ envelopes'[c].status = "active_experimental"
         ELSE /\ envelopes'[c].corrections = {}
              /\ envelopes'[c].status \notin {"disputed", "quarantined"}
  PROVE  /\ envelopes'[c].status = "quarantined" <=> SevereOn(c)' # {}
         /\ CredibleOn(c)' # {} => envelopes'[c].status \notin {"machine_checked", "active_experimental"}
         /\ envelopes'[c].status = "disputed" => CredibleOn(c)' # {}
         /\ envelopes'[c].corrections = {s \in signalIds' : s.candidate = c}
<1>1. CASE Present(c)
  BY <1>1 DEF CorrectedInv, SevereOn, CredibleOn
<1>2. CASE ~ Present(c)
  <2>1. {s \in signalIds' : s.candidate = c} = {}
    BY <1>2 DEF PresentInv
  <2> QED
    BY <1>2, <2>1 DEF SevereOn, CredibleOn
<1> QED
  BY <1>1, <1>2

(* An admission or compilation leaves every envelope that is present, but   *)
(* for the activation of a machine_checked one.                            *)
LEMMA HeldKeeps ==
  ASSUME NEW c \in Candidate, NEW complete \in BOOLEAN
  PROVE  IF Present(c) THEN Held(c, complete) = envelopes[c]
         ELSE /\ Held(c, complete).corrections = {}
              /\ Held(c, complete).status \in {"machine_checked", "needs_evidence"}
BY DEF Held, Fresh

LEMMA CompiledKeeps ==
  ASSUME TypeOK, NEW c \in Candidate, NEW complete \in BOOLEAN
  PROVE  IF Present(c)
         THEN \/ Compiled(c, complete) = envelopes[c]
              \/ /\ envelopes[c].status = "machine_checked"
                 /\ Compiled(c, complete).corrections = envelopes[c].corrections
                 /\ Compiled(c, complete).status = "active_experimental"
         ELSE /\ Compiled(c, complete).corrections = {}
              /\ Compiled(c, complete).status \notin {"disputed", "quarantined"}
<1>1. CheckedAt[c] \in Time /\ Held(c, complete) \in Envelope
  BY HeldType, RulesAssumption
<1>2. CASE Compiled(c, complete) = Held(c, complete)
  BY <1>2, HeldKeeps
<1>3. CASE /\ Compiled(c, complete) = Activated(Held(c, complete), CheckedAt[c])
           /\ Held(c, complete).status = "machine_checked"
  BY <1>1, <1>3, HeldKeeps, ActivatedType
<1> QED
  BY <1>2, <1>3 DEF Compiled, Activable

(* A call that publishes nothing and records no correction.                *)
LEMMA QuietStep ==
  ASSUME RulesInv, TypeOK', UNCHANGED <<signalIds, batches>>, answer' = NoAnswer,
         \A c \in Candidate :
           \/ envelopes'[c] = envelopes[c]
           \/ /\ Present(c)
              /\ envelopes[c].status = "machine_checked"
              /\ envelopes'[c].corrections = envelopes[c].corrections
              /\ envelopes'[c].status = "active_experimental"
              /\ envelopes'[c] # Absent
           \/ /\ ~ Present(c)
              /\ envelopes'[c].corrections = {}
              /\ envelopes'[c].status \notin {"disputed", "quarantined"}
              /\ envelopes'[c] # Absent
  PROVE  RulesInv'
<1>1. \A c \in Candidate : Present(c) => Present(c)'
  BY DEF Present
<1>2. CorrectedInv'
  <2> SUFFICES ASSUME NEW c \in Candidate, Present(c)'
               PROVE  /\ envelopes'[c].status = "quarantined" <=> SevereOn(c)' # {}
                      /\ CredibleOn(c)' # {} =>
                           envelopes'[c].status \notin {"machine_checked", "active_experimental"}
                      /\ envelopes'[c].status = "disputed" => CredibleOn(c)' # {}
                      /\ envelopes'[c].corrections = {s \in signalIds' : s.candidate = c}
    BY DEF CorrectedInv
  <2>1. CASE envelopes'[c] = envelopes[c]
    BY <2>1, UncorrectedStep DEF RulesInv, Present
  <2>2. CASE envelopes'[c] # envelopes[c]
    BY <2>2, UncorrectedStep DEF RulesInv
  <2> QED
    BY <2>1, <2>2
<1>3. PresentInv'
  BY <1>1, RulesAssumption DEF RulesInv, TypeOK, PresentInv, Members
<1>4. PublishedOnce' /\ AnswerIsLive'
  BY DEF RulesInv, PublishedOnce, AnswerIsLive
<1> QED
  BY <1>2, <1>3, <1>4 DEF RulesInv

LEMMA ReportCorrectionInv ==
  ASSUME RulesInv, TypeOK', NEW s \in Signal, ReportCorrection(s)
  PROVE  RulesInv'
<1> DEFINE c == s.candidate
           e == envelopes[c]
<1>1. /\ c \in Candidate /\ s.credible \in BOOLEAN /\ s.severe \in BOOLEAN
      /\ Present(c) /\ e \in Envelope
  BY RulesAssumption DEF RulesInv, TypeOK, ReportCorrection, Acceptable, Present
<1>2. /\ envelopes'[c] = [status |-> StatusAfter(e, s), last |-> s.at,
                          corrections |-> e.corrections \cup {s}]
      /\ \A d \in Candidate \ {c} : envelopes'[d] = envelopes[d]
      /\ signalIds' = signalIds \cup {s} /\ batches' = batches /\ answer' = NoAnswer
  BY <1>1 DEF RulesInv, TypeOK, ReportCorrection
<1>3. envelopes'[c] \in Envelope /\ envelopes'[c] # Absent
  <2>1. envelopes'[c] \in Envelope
    BY <1>1, <1>2, StatusAfterType, RulesAssumption DEF Envelope
  <2> QED
    BY <2>1, AbsentAssumption
<1>4. \A d \in Candidate : Present(d) => Present(d)'
  BY <1>1, <1>2, <1>3 DEF Present
<1>5. CorrectedInv'
  <2>1. ASSUME NEW d \in Candidate \ {c}, Present(d)'
        PROVE  /\ envelopes'[d] = envelopes[d] /\ Present(d)
               /\ {r \in signalIds' : r.candidate = d} = {r \in signalIds : r.candidate = d}
               /\ CredibleOn(d)' = CredibleOn(d) /\ SevereOn(d)' = SevereOn(d)
    BY <1>2, <2>1 DEF Present, CredibleOn, SevereOn
  <2>2. /\ {r \in signalIds' : r.candidate = c} = {r \in signalIds : r.candidate = c} \cup {s}
        /\ CredibleOn(c)' = CredibleOn(c) \cup (IF s.credible THEN {s} ELSE {})
        /\ SevereOn(c)' = SevereOn(c) \cup (IF s.credible /\ s.severe THEN {s} ELSE {})
    BY <1>1, <1>2 DEF CredibleOn, SevereOn
  <2>3. /\ envelopes'[c].status = StatusAfter(e, s)
        /\ envelopes'[c].corrections = e.corrections \cup {s}
    BY <1>2
  <2>4. /\ e.status = "quarantined" <=> SevereOn(c) # {}
        /\ CredibleOn(c) # {} => e.status \notin {"machine_checked", "active_experimental"}
        /\ e.status = "disputed" => CredibleOn(c) # {}
        /\ e.corrections = {r \in signalIds : r.candidate = c}
        /\ e.status \in Status
    BY <1>1 DEF RulesInv, CorrectedInv, Envelope
  <2>5. /\ envelopes'[c].status = "quarantined" <=> SevereOn(c)' # {}
        /\ CredibleOn(c)' # {} => envelopes'[c].status \notin {"machine_checked", "active_experimental"}
        /\ envelopes'[c].status = "disputed" => CredibleOn(c)' # {}
        /\ envelopes'[c].corrections = {r \in signalIds' : r.candidate = c}
    <3>1. CASE ~ s.credible
      BY <2>2, <2>3, <2>4, <3>1 DEF StatusAfter
    <3>2. CASE s.credible /\ s.severe
      BY <2>2, <2>3, <2>4, <3>2 DEF StatusAfter
    <3>3. CASE s.credible /\ ~ s.severe
      BY <2>2, <2>3, <2>4, <3>3 DEF StatusAfter, Status
    <3> QED
      BY <1>1, <3>1, <3>2, <3>3
  <2> QED
    BY <2>1, <2>5 DEF RulesInv, CorrectedInv
<1>6. PresentInv'
  BY <1>1, <1>2, <1>4, RulesAssumption DEF RulesInv, TypeOK, PresentInv, Members
<1>7. PublishedOnce' /\ AnswerIsLive'
  BY <1>2 DEF RulesInv, PublishedOnce, AnswerIsLive
<1> QED
  BY <1>5, <1>6, <1>7 DEF RulesInv

LEMMA PublishInv ==
  ASSUME RulesInv, TypeOK', NEW b \in Batch, NEW k \in Content, Publish(b, k)
  PROVE  RulesInv'
<1>1. /\ \A c \in Members(k) : /\ ~ Present(c) /\ c \in Primary
                               /\ envelopes'[c] = PublishedEnvelope(c, k)
      /\ \A c \in Candidate \ Members(k) : envelopes'[c] = envelopes[c]
      /\ batches[b] = NoContent /\ batches'[b] = k
      /\ \A a \in Batch \ {b} : batches'[a] = batches[a]
      /\ signalIds' = signalIds /\ answer' = b
  BY PublishedType DEF RulesInv, TypeOK, Publish, Publishable, Activable, Unpublished
<1>2. Members(k) \subseteq Candidate /\ \A c \in Members(k) : Present(c)'
  BY <1>1, PublishedType DEF Present
<1>3. \A c \in Candidate : Present(c) => Present(c)'
  BY <1>1, <1>2 DEF Present
<1>4. CorrectedInv'
  <2> SUFFICES ASSUME NEW c \in Candidate, Present(c)'
               PROVE  /\ envelopes'[c].status = "quarantined" <=> SevereOn(c)' # {}
                      /\ CredibleOn(c)' # {} =>
                           envelopes'[c].status \notin {"machine_checked", "active_experimental"}
                      /\ envelopes'[c].status = "disputed" => CredibleOn(c)' # {}
                      /\ envelopes'[c].corrections = {s \in signalIds' : s.candidate = c}
    BY DEF CorrectedInv
  <2>1. CASE c \in Members(k)
    BY <1>1, <2>1, PublishedType, UncorrectedStep DEF RulesInv
  <2>2. CASE c \notin Members(k)
    BY <1>1, <2>2, UncorrectedStep DEF RulesInv, Present
  <2> QED
    BY <2>1, <2>2
<1>5. PresentInv'
  BY <1>1, <1>2, <1>3, RulesAssumption DEF RulesInv, TypeOK, PresentInv, Members
<1>6. PublishedOnce'
  <2>1. ASSUME NEW a \in Batch \ {b}, batches[a] # NoContent,
               NEW c \in Members(batches[a]), NEW d \in Members(k)
        PROVE  c # d /\ PublicationId(batches[a], c) # PublicationId(k, d)
    BY <1>1, <2>1 DEF RulesInv, PresentInv, Publish, Unpublished
  <2> QED
    BY <1>1, <2>1 DEF RulesInv, PublishedOnce
<1>7. AnswerIsLive'
  BY <1>1, <1>2, PublishedType DEF AnswerIsLive, Selected, Present
<1> QED
  BY <1>4, <1>5, <1>6, <1>7 DEF RulesInv

LEMMA ReplayInv ==
  ASSUME RulesInv, TypeOK', NEW b \in Batch, NEW k \in Content, Replay(b, k)
  PROVE  RulesInv'
<1>1. UNCHANGED <<envelopes, signalIds, batches>> /\ answer' = b /\ batches[b] = k
  BY DEF Replay
<1>2. Members(k) \subseteq Selected
  <2> SUFFICES ASSUME NEW c \in Members(k) PROVE c \in Selected
    OBVIOUS
  <2>1. c \in Primary /\ envelopes[c] = PublishedEnvelope(c, k)
    BY DEF Replay, Publishable, Activable, StillAsPublished
  <2>2. envelopes[c] # Absent /\ envelopes[c].status = "active_experimental"
    BY <2>1, PublishedType
  <2> QED
    BY <2>1, <2>2 DEF Selected, Present
<1>3. CorrectedInv' /\ PresentInv' /\ PublishedOnce'
  BY <1>1 DEF RulesInv, CorrectedInv, PresentInv, PublishedOnce, Present, SevereOn, CredibleOn
<1>4. AnswerIsLive'
  BY <1>1, <1>2 DEF AnswerIsLive, Selected, Present
<1> QED
  BY <1>3, <1>4 DEF RulesInv

LEMMA NextRulesInv == RulesInv /\ [Next]_vars => RulesInv'
<1> SUFFICES ASSUME RulesInv, [Next]_vars PROVE RulesInv'
  OBVIOUS
<1>1. TypeOK /\ TypeOK'
  BY NextTypeOK DEF RulesInv
<1>2. ASSUME NEW c \in Candidate, NEW complete \in BOOLEAN, Admit(c, complete) PROVE RulesInv'
  <2>1. /\ envelopes'[c] = Held(c, complete)
        /\ \A d \in Candidate \ {c} : envelopes'[d] = envelopes[d]
        /\ UNCHANGED <<signalIds, batches>> /\ answer' = NoAnswer
    BY <1>1, <1>2 DEF TypeOK, Admit
  <2>2. Held(c, complete) # Absent
    BY <1>1, HeldType, AbsentAssumption
  <2> QED
    BY <1>1, <2>1, <2>2, HeldKeeps, QuietStep
<1>3. ASSUME NEW claims \in SUBSET Candidate, NEW complete \in BOOLEAN, Compile(claims, complete)
      PROVE RulesInv'
  <2>1. /\ \A c \in claims : /\ envelopes'[c] = Compiled(c, complete)
                             /\ Compiled(c, complete) # Absent
        /\ \A c \in Candidate \ claims : envelopes'[c] = envelopes[c]
        /\ UNCHANGED <<signalIds, batches>> /\ answer' = NoAnswer
    BY <1>1, <1>3, CompiledType, AbsentAssumption DEF Compile
  <2> QED
    BY <1>1, <2>1, CompiledKeeps, QuietStep
<1>4. ASSUME NEW c \in Candidate, NEW at \in Time, Activate(c, at) PROVE RulesInv'
  <2>1. /\ envelopes'[c] = Activated(envelopes[c], at)
        /\ \A d \in Candidate \ {c} : envelopes'[d] = envelopes[d]
        /\ UNCHANGED <<signalIds, batches>> /\ answer' = NoAnswer
        /\ Present(c) /\ envelopes[c] \in Envelope /\ envelopes[c].status = "machine_checked"
    BY <1>1, <1>4 DEF TypeOK, Activate, Activable, Present
  <2> QED
    BY <1>1, <2>1, ActivatedType, AbsentAssumption, QuietStep
<1>5. ASSUME NEW s \in Signal, ReportCorrection(s) PROVE RulesInv'
  BY <1>1, <1>5, ReportCorrectionInv
<1>6. ASSUME NEW b \in Batch, NEW k \in Content, Publish(b, k) PROVE RulesInv'
  BY <1>1, <1>6, PublishInv
<1>7. ASSUME NEW b \in Batch, NEW k \in Content, Replay(b, k) PROVE RulesInv'
  BY <1>1, <1>7, ReplayInv
<1>8. CASE UNCHANGED vars
  BY <1>1, <1>8 DEF vars, RulesInv, CorrectedInv, PresentInv, PublishedOnce, AnswerIsLive,
                    Selected, Present, SevereOn, CredibleOn
<1> QED
  BY <1>2, <1>3, <1>4, <1>5, <1>6, <1>7, <1>8 DEF Next

THEOREM StoreInvariant == Spec => []RulesInv
BY InitRulesInv, NextRulesInv, PTL DEF Spec

(* Whoever is told that a batch is published finds all of it selected.     *)
THEOREM ReplayAnswersLive == Spec => []AnswerIsLive
BY StoreInvariant, PTL DEF RulesInv

(* No candidate and no publication identity belongs to two batches.        *)
THEOREM OneBatchForOne == Spec => []PublishedOnce
BY StoreInvariant, PTL DEF RulesInv

(* The corrections on record decide the status of a candidate, whatever    *)
(* their order and whatever was called between them.                       *)
THEOREM CorrectionsPrevail == Spec => []CorrectionsDecide
<1>1. RulesInv => CorrectionsDecide
  BY DEF RulesInv, CorrectedInv, CorrectionsDecide, Selected
<1> QED
  BY <1>1, StoreInvariant, PTL

-----------------------------------------------------------------------------
(* A candidate admitted without evidence never goes live.                  *)
THEOREM LeadNeverLive == Spec => LeadStaysLead
<1>1. RulesInv /\ [Next]_vars =>
        [\A c \in Candidate :
           Present(c) /\ envelopes[c].status = "needs_evidence"
             => envelopes'[c].status \in {"needs_evidence", "quarantined"}]_vars
  <2> SUFFICES ASSUME RulesInv, Next, NEW c \in Candidate,
                      Present(c), envelopes[c].status = "needs_evidence"
               PROVE  envelopes'[c].status \in {"needs_evidence", "quarantined"}
    OBVIOUS
  <2>1. TypeOK
    BY DEF RulesInv
  <2>2. ASSUME NEW d \in Candidate, NEW complete \in BOOLEAN, Admit(d, complete)
        PROVE  envelopes'[c] = envelopes[c]
    BY <2>1, <2>2 DEF TypeOK, Admit, Held
  <2>3. ASSUME NEW claims \in SUBSET Candidate, NEW complete \in BOOLEAN, Compile(claims, complete)
        PROVE  envelopes'[c] = envelopes[c]
    BY <2>3, CompiledKeeps, <2>1 DEF Compile
  <2>4. ASSUME NEW d \in Candidate, NEW at \in Time, Activate(d, at)
        PROVE  envelopes'[c] = envelopes[c]
    BY <2>1, <2>4 DEF TypeOK, Activate, Activable
  <2>5. ASSUME NEW s \in Signal, ReportCorrection(s)
        PROVE  envelopes'[c].status \in {"needs_evidence", "quarantined"}
    <3>1. CASE s.candidate = c
      BY <2>1, <2>5, <3>1 DEF TypeOK, ReportCorrection, StatusAfter
    <3>2. CASE s.candidate # c
      BY <2>1, <2>5, <3>2 DEF TypeOK, ReportCorrection
    <3> QED
      BY <3>1, <3>2
  <2>6. ASSUME NEW b \in Batch, NEW k \in Content, Publish(b, k) \/ Replay(b, k)
        PROVE  envelopes'[c] = envelopes[c]
    BY <2>1, <2>6 DEF TypeOK, Publish, Replay, Unpublished
  <2> QED
    BY <2>2, <2>3, <2>4, <2>5, <2>6 DEF Next
<1> QED
  BY <1>1, StoreInvariant, PTL DEF Spec, LeadStaysLead

-----------------------------------------------------------------------------
(* Refinement of RuleContract.                                             *)

LEMMA InitContract == Init => Contract!Init
BY RulesAssumption DEF Init, Contract!Init, Selected, Withdrawn, Present

(* Admission, activation, compilation and publication withdraw nothing and  *)
(* make live what was not live before.                                     *)
LEMMA LiveGrows ==
  ASSUME RulesInv,
         \A c \in Candidate :
           \/ envelopes'[c] = envelopes[c]
           \/ /\ Present(c) => envelopes[c].status = "machine_checked"
              /\ envelopes'[c].status \in {"needs_evidence", "machine_checked", "active_experimental"}
  PROVE  Contract!Next \/ UNCHANGED <<Selected, Withdrawn>>
<1> DEFINE new == Selected' \ Selected
<1>1. new \in SUBSET Candidate
  BY RulesAssumption DEF Selected
<1>2. Selected' = Selected \cup new
  BY RulesAssumption DEF Selected, Present
<1>3. Withdrawn' = Withdrawn
  BY DEF Withdrawn, Present
<1>4. new \cap (Selected \cup Withdrawn) = {}
  BY RulesAssumption DEF Selected, Withdrawn, Present
<1>5. Contract!Publish(new)
  BY <1>2, <1>3, <1>4 DEF Contract!Publish
<1> QED
  BY <1>1, <1>5 DEF Contract!Next

LEMMA CorrectionWithdraws ==
  ASSUME RulesInv, NEW s \in Signal, ReportCorrection(s)
  PROVE  Contract!Next \/ UNCHANGED <<Selected, Withdrawn>>
<1> DEFINE c == s.candidate
           e == envelopes[c]
<1>1. /\ c \in Candidate /\ Present(c) /\ e \in Envelope /\ s.at \in Time
      /\ envelopes'[c] = [status |-> StatusAfter(e, s), last |-> s.at,
                          corrections |-> e.corrections \cup {s}]
      /\ \A d \in Candidate \ {c} : envelopes'[d] = envelopes[d]
  BY RulesAssumption DEF RulesInv, TypeOK, ReportCorrection, Acceptable, Present
<1>2. envelopes'[c].status = StatusAfter(e, s) /\ Present(c)'
  <2>1. envelopes'[c] \in Envelope
    BY <1>1, StatusAfterType DEF Envelope
  <2> QED
    BY <1>1, <2>1, AbsentAssumption DEF Present
<1>3. CASE StatusAfter(e, s) = e.status
  BY <1>1, <1>2, <1>3, RulesAssumption DEF Selected, Withdrawn, Present
<1>4. CASE StatusAfter(e, s) # e.status
  <2>1. StatusAfter(e, s) \in {"quarantined", "disputed"}
    BY <1>4 DEF StatusAfter
  <2>2. CASE c \in Withdrawn
    BY <1>1, <1>2, <2>1, <2>2, RulesAssumption DEF Selected, Withdrawn, Present
  <2>3. CASE c \notin Withdrawn
    <3>1. Selected' = Selected \ {c}
      BY <1>1, <1>2, <2>1, RulesAssumption DEF Selected, Present
    <3>2. Withdrawn' = Withdrawn \cup {c}
      BY <1>1, <1>2, <2>1 DEF Withdrawn, Present
    <3>3. Contract!Withdraw(c)
      BY <2>3, <3>1, <3>2 DEF Contract!Withdraw
    <3> QED
      BY <1>1, <3>3 DEF Contract!Next
  <2> QED
    BY <2>2, <2>3
<1> QED
  BY <1>3, <1>4

LEMMA NextContract ==
  RulesInv /\ [Next]_vars => [Contract!Next]_<<Selected, Withdrawn>>
<1> SUFFICES ASSUME RulesInv, [Next]_vars
             PROVE  Contract!Next \/ UNCHANGED <<Selected, Withdrawn>>
  OBVIOUS
<1>1. TypeOK
  BY DEF RulesInv
<1>2. ASSUME NEW c \in Candidate, NEW complete \in BOOLEAN, Admit(c, complete)
      PROVE  Contract!Next \/ UNCHANGED <<Selected, Withdrawn>>
  BY <1>1, <1>2, HeldKeeps, LiveGrows DEF TypeOK, Admit
<1>3. ASSUME NEW claims \in SUBSET Candidate, NEW complete \in BOOLEAN, Compile(claims, complete)
      PROVE  Contract!Next \/ UNCHANGED <<Selected, Withdrawn>>
  <2>1. ASSUME NEW c \in Candidate, envelopes'[c] # envelopes[c]
        PROVE  /\ Present(c) => envelopes[c].status = "machine_checked"
               /\ envelopes'[c].status \in {"needs_evidence", "machine_checked", "active_experimental"}
    <3>1. envelopes'[c] = Compiled(c, complete) /\ Compiled(c, complete).status \in Status
      BY <1>1, <1>3, <2>1, CompiledType DEF Compile, Envelope
    <3> QED
      BY <1>1, <2>1, <3>1, CompiledKeeps DEF Status
  <2> QED
    BY <2>1, LiveGrows
<1>4. ASSUME NEW c \in Candidate, NEW at \in Time, Activate(c, at)
      PROVE  Contract!Next \/ UNCHANGED <<Selected, Withdrawn>>
  <2>1. /\ envelopes'[c].status = "active_experimental"
        /\ envelopes[c].status = "machine_checked"
        /\ \A d \in Candidate \ {c} : envelopes'[d] = envelopes[d]
    BY <1>1, <1>4, ActivatedType DEF TypeOK, Activate, Activable, Present
  <2> QED
    BY <2>1, LiveGrows
<1>5. ASSUME NEW s \in Signal, ReportCorrection(s)
      PROVE  Contract!Next \/ UNCHANGED <<Selected, Withdrawn>>
  BY <1>5, CorrectionWithdraws
<1>6. ASSUME NEW b \in Batch, NEW k \in Content, Publish(b, k)
      PROVE  Contract!Next \/ UNCHANGED <<Selected, Withdrawn>>
  <2>1. \A c \in Candidate :
          IF c \in Members(k)
          THEN ~ Present(c) /\ envelopes'[c].status = "active_experimental"
          ELSE envelopes'[c] = envelopes[c]
    BY <1>6, PublishedType DEF Publish, Unpublished
  <2> QED
    BY <2>1, LiveGrows
<1>7. CASE (\E b \in Batch, k \in Content : Replay(b, k)) \/ UNCHANGED vars
  BY <1>7 DEF Replay, vars, Selected, Withdrawn, Present
<1> QED
  BY <1>2, <1>3, <1>4, <1>5, <1>6, <1>7 DEF Next

(* A disputed rule is never resurrected: the store, with its admissions,    *)
(* activations, publications, replays and corrections in any order, does   *)
(* nothing that the contract does not allow.                               *)
THEOREM StoreImplementsContract == Spec => ImplementsContract
<1>1. RulesInv /\ [Next]_vars => [Contract!Next]_<<Selected, Withdrawn>>
  BY NextContract
<1> QED
  BY <1>1, InitContract, StoreInvariant, PTL DEF Spec, ImplementsContract, Contract!Spec
=============================================================================
