--------------------------- MODULE ResolveStacking ---------------------------
(***************************************************************************)
(* resolveStacking, called with one table of candidates in the order of    *)
(* their ids, and then in another order.                                   *)
(***************************************************************************)
EXTENDS Stacking

CONSTANTS
  Rule,    \* rule_ids
  Families \* families of tables of candidates: functions on Rule

ASSUME StackingAssumption ==
  /\ Rule \subseteq Nat \ {NoBase} /\ IsFiniteSet(Rule)
  /\ \A tables \in Families : \A s \in tables :
       /\ DOMAIN s = Rule
       /\ \A r \in Rule :
            /\ s[r].eligible \in BOOLEAN /\ s[r].includes \in BOOLEAN /\ s[r].isBase \in BOOLEAN
            /\ s[r].precedence \in Int /\ s[r].value \in Int
            /\ s[r].conflicts \subseteq Nat /\ IsFiniteSet(s[r].conflicts)

VARIABLES table, order, selected

vars == <<table, order, selected>>

Orders ==
  {q \in [1..Cardinality(Rule) -> Rule] : \A i, j \in DOMAIN q : q[i] = q[j] => i = j}

Init ==
  /\ \E tables \in Families : table \in tables
  /\ order = Ascending(Rule)
  /\ selected = Resolve(table, order)

Next ==
  /\ order = Ascending(Rule)
  /\ \E again \in Orders \ {order} :
       /\ order' = again
       /\ selected' = Resolve(table, again)
  /\ UNCHANGED table

Spec == Init /\ [][Next]_vars

-----------------------------------------------------------------------------
(* What is paid is compatible, in whatever order conflicts, replacement and *)
(* best-of were decided: no two rules that conflict, one best-of rule of a  *)
(* group, a replacing rule alone in its group ("keeps unrelated groups      *)
(* additive", m1b-stacking.test.ts, line 105).                              *)
SelectedIsCompatible ==
  \A a, b \in selected : a # b =>
    /\ b \notin table[a].conflicts
    /\ table[a].group = table[b].group =>
         /\ "replaces_group" \notin {table[a].mode, table[b].mode}
         /\ {table[a].mode, table[b].mode} # {"best_of_group"}

(* The rules that pay q as a part of themselves.                            *)
Includers(q) == {c \in Rule : table[c].includes /\ q \in IncludedBases(table, c)}

(* A rule is paid only with the rules it requires, or with a paid rule that *)
(* includes the required one ("a base may intentionally be represented by   *)
(* its parent", m1b-stacking.ts, line 391), and no base is paid beside a    *)
(* rule that includes it ("does not double-count a standalone base",        *)
(* m1b-stacking.test.ts, line 86).  Excepted is a required rule whose       *)
(* parent is itself included, by another rule or by naming itself as its    *)
(* base: the code suppresses that parent too and does not look at           *)
(* dependencies again.                                                      *)
RequirementsAreCounted ==
  \A a \in selected :
    /\ \A q \in table[a].requires \ selected :
         \/ Includers(q) \cap selected # {}
         \/ \E c \in Includers(q) : Includers(c) # {}
    /\ table[a].includes => IncludedBases(table, a) \cap selected = {}

Chained ==
  \E a, b \in Rule : table[a].includes /\ table[b].includes /\ b \in IncludedBases(table, a) \ {a}

(* "is deterministic under candidate reordering" (m1b-stacking.test.ts,     *)
(* line 99): the order of the input decides nothing unless a rule that      *)
(* includes others is itself included.                                      *)
OrderDecidesNothing == [][Chained \/ selected' = selected]_vars
=============================================================================
