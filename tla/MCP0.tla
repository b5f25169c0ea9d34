-------------------------------- MODULE MCP0 --------------------------------
(***************************************************************************)
(* Small instances of P0Operations.                                        *)
(***************************************************************************)
EXTENDS P0Operations, TLC

CONSTANTS p1, p2, p3, t1, t2, i1, i2

Symmetry == Permutations({p1, p2, p3})

End(status, scope, outcome) == [status |-> status, scope |-> scope, outcome |-> outcome]

(* Success on both targets, unscoped, or on a signed one; both reported     *)
(* under the signature of one; one reported without a signature; one input  *)
(* rejected and one target late.                                            *)
SomeEnds ==
  { End("completed", {}, [t \in {t1, t2} |-> "resolved"]),
    End("completed", {t2}, [t \in {t2} |-> "resolved"]),
    End("completed", {t2}, [t \in {t1, t2} |-> "resolved"]),
    End("completed", {}, [t \in {t2} |-> "resolved"]),
    End("partial", {}, [t \in {t1, t2} |-> IF t = t1 THEN "validation_rejected" ELSE "timeout"]) }

(* Runs with a report that is beyond their worklist, or not what they owe.  *)
Astray ==
  {r \in Run : report[r] # NoWork /\ ~ (ScopeReported(r) /\ Reported(r) \subseteq worklist[r].targets)}

Twice == {r \in Run : report[r] # NoWork /\ report[r].event > 1}

(* Bounds: next to a report astray one run prepares, and one run signs a    *)
(* second event.  A third run only prepares, when the other two are on      *)
(* record, each with one event, and all three have one input.               *)
ThirdRunIsPlain ==
  LET busy == {r \in Run : pc[r] # "idle"}
      told == {r \in busy : pc[r] # "prepared"}
  IN /\ Cardinality(Twice) < 2
     /\ Astray # {} => Cardinality(told) = 1 /\ busy # Run
     /\ busy = Run =>
          /\ Twice = {} /\ Cardinality(told) = 2
          /\ \A r \in told : runs[r] # "open"
          /\ \A q, r \in Run : worklist[q].input = worklist[r].input

UtcAndTokyo == {0, 1}
=============================================================================
