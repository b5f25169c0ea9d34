------------------------------ MODULE MCIntake ------------------------------
(***************************************************************************)
(* Small instances of AgentFeedIntake.  Bodies a and b carry the same      *)
(* meaning, a with evidence and b without, c another one; q is quarantined, *)
(* g carries a flag, u passes the handler and is refused by the database,  *)
(* r fails verification.                                                   *)
(***************************************************************************)
EXTENDS AgentFeedIntake, TLC

CONSTANTS h1, h2, e1, e2, a, b, c, q, g, u, r, f1, f2

MCPayload == {a, b, c, q, g, u, r}

MCVerdict ==
  (a :> "observation") @@ (b :> "observation") @@ (c :> "observation") @@
  (q :> "quarantine") @@ (g :> "flagged") @@ (u :> "unstorable") @@ (r :> "refused")

MCFingerprintOf ==
  (a :> f1) @@ (b :> f1) @@ (c :> f2) @@ (q :> f2) @@ (g :> f1) @@ (u :> f2) @@ (r :> f2)

Signed(event, payload, attempt, signing) ==
  [event |-> event, payload |-> payload, attempt |-> attempt, signing |-> signing]

HandlerSymmetry == Permutations({h1, h2})

(* Under one event id a finding, a retry of it, another body, a quarantined *)
(* body and a flagged one; under the other a finding with the meaning of    *)
(* the first, signed twice for one attempt, and bodies that fail            *)
(* verification and the assertions of the database.                        *)
MixedDeliveries ==
  { Signed(e1, a, 1, "s"), Signed(e1, a, 2, "t"), Signed(e1, c, 3, "u"),
    Signed(e1, q, 1, "v"), Signed(e1, g, 2, "w"),
    Signed(e2, b, 1, "s"), Signed(e2, b, 1, "t"), Signed(e2, u, 2, "u"), Signed(e2, r, 3, "v") }

(* Two events with one meaning; the network may repeat each delivery.      *)
RetryDeliveries == { Signed(e1, a, 1, "s"), Signed(e2, b, 1, "t") }
=============================================================================
