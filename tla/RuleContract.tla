---------------------------- MODULE RuleContract ----------------------------
(***************************************************************************)
(* What the provisional rule store promises its readers: a candidate is    *)
(* put live at most once, together with the others of its publication, and *)
(* what has been withdrawn is never live again.                            *)
(***************************************************************************)
CONSTANT Candidate

VARIABLES live, withdrawn

Init == live = {} /\ withdrawn = {}

Publish(new) ==
  /\ new \cap (live \cup withdrawn) = {}
  /\ live' = live \cup new
  /\ UNCHANGED withdrawn

Withdraw(c) ==
  /\ c \notin withdrawn
  /\ live' = live \ {c}
  /\ withdrawn' = withdrawn \cup {c}

Next ==
  \/ \E new \in SUBSET Candidate : Publish(new)
  \/ \E c \in Candidate : Withdraw(c)

Spec == Init /\ [][Next]_<<live, withdrawn>>
=============================================================================
