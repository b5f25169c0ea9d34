----------------------------- MODULE MCStacking -----------------------------
(***************************************************************************)
(* resolveStacking on every table of three families: rules that require    *)
(* and conflict, rules that compete in groups, rules that include others.  *)
(***************************************************************************)
EXTENDS ResolveStacking

MCRule == 1..3

Plain == [eligible |-> TRUE, group |-> "g", mode |-> "additive", precedence |-> 0, value |-> 1,
          includes |-> FALSE, base |-> NoBase, isBase |-> FALSE, requires |-> {}, conflicts |-> {}]

Three(row(_)) == <<row(1), row(2), row(3)>>

Others == {f \in [MCRule -> SUBSET MCRule] : \A r \in MCRule : r \notin f[r]}

(* Every order of priority but one: equal precedence goes to the value.     *)
Precedences == {h \in [MCRule -> 0..1] : h[3] = 1 => h[1] = 1 /\ h[2] = 0}

(* Any requirements and conflicts.                                         *)
Related ==
  {Three(LAMBDA r : [Plain EXCEPT !.requires = f[1][r], !.conflicts = f[2][r],
                                 !.precedence = f[3][r], !.value = r]) :
     f \in Others \X Others \X Precedences}

(* Any modes in two groups, one rule that requires or excludes another.     *)
Grouped ==
  {Three(LAMBDA r : [Plain EXCEPT !.mode = f[1][r], !.group = f[2][r], !.value = f[3][r],
                                 !.precedence = IF r = 3 THEN 1 ELSE 0,
                                 !.requires = f[4][r], !.conflicts = f[5][r]]) :
     f \in [MCRule -> Mode \ {"includes_base"}] \X {h \in [MCRule -> {"g", "h"}] : h[1] = "g"}
           \X {v \in [MCRule -> 1..2] : \E r \in MCRule : v[r] = 1}
           \X {g \in Others : Cardinality(UNION {{r} \X g[r] : r \in MCRule}) <= 1}
           \X {g \in Others : \A r \in {1, 3} : g[r] = {}}}

(* Any inclusions, by name or of the base rules of the group.               *)
Including ==
  {Three(LAMBDA r : [Plain EXCEPT !.includes = f[1][r], !.base = f[2][r], !.isBase = f[3][r],
                                 !.mode = IF f[1][r] THEN "includes_base" ELSE "additive",
                                 !.requires = f[4][r], !.eligible = f[5][r]]) :
     f \in [MCRule -> BOOLEAN] \X [MCRule -> NoBase..3] \X {h \in [MCRule -> BOOLEAN] : h[3]}
           \X {g \in Others : \A r \in {2, 3} : g[r] = {}}
           \X {e \in [MCRule -> BOOLEAN] : e[1] /\ e[2]}}

MCFamilies == {Related, Grouped, Including}
=============================================================================
