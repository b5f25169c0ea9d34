------------------------------- MODULE MCRules ------------------------------
(***************************************************************************)
(* A small instance of ProvisionalRules: c1 and c2 have identities of      *)
(* their own, c3 is a later version of c1, c4 is not primary.              *)
(***************************************************************************)
EXTENDS ProvisionalRules, TLC

CONSTANTS c1, c2, c3, c4, b1, b2, x, y, z

MCCandidateId == (c1 :> x) @@ (c2 :> NoId) @@ (c3 :> x) @@ (c4 :> NoId)

MCCheckedAt == (c1 :> 0) @@ (c2 :> 1) @@ (c3 :> 0) @@ (c4 :> 0)

MCContent ==
  { [members |-> (c1 :> x) @@ (c2 :> y), at |-> 1], [members |-> (c1 :> x) @@ (c2 :> y), at |-> 0],
    [members |-> (c3 :> z), at |-> 1] }

Correction(id, candidate, credible, severe, at) ==
  [id |-> id, candidate |-> candidate, credible |-> credible, severe |-> severe, at |-> at]

(* A doubtful, a plain and a severe one for c1; one id for two candidates.  *)
MCSignal ==
  { Correction("s", c1, FALSE, FALSE, 2), Correction("t", c1, TRUE, FALSE, 1),
    Correction("u", c1, TRUE, TRUE, 1), Correction("t", c2, TRUE, FALSE, 2) }
=============================================================================
