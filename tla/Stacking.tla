------------------------------ MODULE Stacking ------------------------------
(***************************************************************************)
(* The stacking kernel, packages/rule-engine/src/m1b-stacking.ts, as       *)
(* operators on a table s of candidates:                                   *)
(*   [eligible, group, mode, precedence, value, includes, base, isBase,    *)
(*    requires, conflicts]                                                 *)
(* indexed by rule_id.  Ids are numbers, their order is that of            *)
(* localeCompare.  A candidate without base_rule_id has NoBase.            *)
(***************************************************************************)
EXTENDS Integers, FiniteSets, SequencesExt

NoBase == 0

Mode == {"additive", "replaces_group", "best_of_group", "includes_base"}

(* ids, the least first.                                                    *)
Ascending(ids) ==
  [i \in 1..Cardinality(ids) |->
     CHOOSE r \in ids : Cardinality({q \in ids : q <= r}) = i]

(* priorityCompare: precedence, then value, then rule_id.                  *)
Outranks(s, a, b) ==
  \/ s[a].precedence > s[b].precedence
  \/ /\ s[a].precedence = s[b].precedence
     /\ s[a].value > s[b].value \/ (s[a].value = s[b].value /\ a < b)

PaysMore(s, a, b) ==
  s[a].value > s[b].value \/ (s[a].value = s[b].value /\ Outranks(s, a, b))

(* What is left of ids when every rule without one of its required rules is *)
(* rejected, until nothing changes: the largest set that supports itself.   *)
Supported(s, ids) ==
  UNION {kept \in SUBSET ids : \A r \in kept : s[r].requires \subseteq kept}

-----------------------------------------------------------------------------
(* Conflicts are fought in the order of rule_id, once for a pair.  A rule   *)
(* that loses in its own turn still fights the rest of its list.            *)

Fight(s, a, fight, b) ==
  IF b \notin fight.active \/ {a, b} \in fight.done THEN fight
  ELSE [active |-> fight.active \ {IF Outranks(s, b, a) THEN a ELSE b},
        done   |-> fight.done \cup {{a, b}}]

TakeTurn(s, fight, a) ==
  IF a \notin fight.active THEN fight
  ELSE FoldLeft(LAMBDA f, b : Fight(s, a, f, b), fight, Ascending(s[a].conflicts))

(* Mutant of Turns: conflicts are fought in the order of the input.         *)
TurnsAsGiven(s, ids, order) == SelectSeq(order, LAMBDA r : r \in ids)

Turns(s, ids, order) == Ascending(ids)

AfterConflicts(s, ids, order) ==
  FoldLeft(LAMBDA f, a : TakeTurn(s, f, a), [active |-> ids, done |-> {}],
           Turns(s, ids, order)).active

Rivals(s, r, ids, mode) ==
  {q \in ids \ {r} : s[q].group = s[r].group /\ s[q].mode = mode}

AfterReplacement(s, ids) ==
  {r \in ids :
     LET replacers == Rivals(s, r, ids, "replaces_group")
     IN \/ replacers = {}
        \/ /\ s[r].mode = "replaces_group"
           /\ \A q \in replacers : Outranks(s, r, q)}

(* Mutant of AfterBestOf: every rule of the best value is kept.             *)
AfterBestOfTied(s, ids) ==
  {r \in ids : s[r].mode = "best_of_group" =>
     \A q \in Rivals(s, r, ids, "best_of_group") : s[r].value >= s[q].value}

AfterBestOf(s, ids) ==
  {r \in ids : s[r].mode = "best_of_group" =>
     \A q \in Rivals(s, r, ids, "best_of_group") : PaysMore(s, r, q)}

IncludedBases(s, r) ==
  IF s[r].base # NoBase THEN {s[r].base}
  ELSE {b \in DOMAIN s \ {r} : s[b].isBase /\ s[b].group = s[r].group}

(* In the order of the input: a base that is suppressed suppresses nothing. *)
AfterInclusion(s, ids, order) ==
  FoldLeft(LAMBDA left, r : IF r \in left /\ s[r].includes
                            THEN left \ IncludedBases(s, r) ELSE left,
           ids, order)

(* Mutant of Standing: dependencies are only checked at the beginning.      *)
StandingOnce(s, order) ==
  LET eligible == {r \in DOMAIN s : s[r].eligible}
  IN AfterBestOf(s, AfterReplacement(s, AfterConflicts(s, Supported(s, eligible), order)))

(* What stands before bases are suppressed; dependencies are checked again. *)
Standing(s, order) ==
  LET eligible == {r \in DOMAIN s : s[r].eligible}
  IN Supported(s,
       AfterBestOf(s, AfterReplacement(s, AfterConflicts(s, Supported(s, eligible), order))))

Resolve(s, order) == AfterInclusion(s, Standing(s, order), order)
=============================================================================
