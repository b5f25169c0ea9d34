--------------------------- MODULE IntakeContract ---------------------------
(***************************************************************************)
(* What the Agent Feed intake promises, without handlers, transactions or  *)
(* tables: every event is decided at most once and for good; a semantic    *)
(* fingerprint has one owner, the event whose observation is canonical;    *)
(* and the producer is told that an event is safe only after the decision. *)
(***************************************************************************)
CONSTANTS Event, Fingerprint, NoEvent

VARIABLES
  decision,  \* what was decided about each event
  owner,     \* the event whose observation is canonical for a fingerprint
  told       \* events the producer was told are safe

Decisions == {"pending", "canonical", "duplicate", "quarantined"}

Init ==
  /\ decision = [e \in Event |-> "pending"]
  /\ owner = [f \in Fingerprint |-> NoEvent]
  /\ told = {}

Decide(e, verdict) ==
  /\ decision[e] = "pending"
  /\ decision' = [decision EXCEPT ![e] = verdict]

(* The first event with a fingerprint becomes its owner.                   *)
Observe(e, f) ==
  /\ owner[f] = NoEvent
  /\ Decide(e, "canonical")
  /\ owner' = [owner EXCEPT ![f] = e]
  /\ UNCHANGED told

(* Another event with the same meaning is tied to that owner.              *)
Repeat(e, f) ==
  /\ owner[f] # NoEvent
  /\ Decide(e, "duplicate")
  /\ UNCHANGED <<owner, told>>

Quarantine(e) ==
  /\ Decide(e, "quarantined")
  /\ UNCHANGED <<owner, told>>

Tell(e) ==
  /\ decision[e] # "pending"
  /\ told' = told \cup {e}
  /\ UNCHANGED <<decision, owner>>

Next ==
  \E e \in Event :
    \/ \E f \in Fingerprint : Observe(e, f) \/ Repeat(e, f)
    \/ Quarantine(e)
    \/ Tell(e)

Spec == Init /\ [][Next]_<<decision, owner, told>>
=============================================================================
