------------------------------- MODULE MCPlan -------------------------------
(***************************************************************************)
(* A small instance of PurchasePlan.  Rules 1 and 2 share the group of     *)
(* caps "month", of which rule 2 has two; rule 3 requires rule 1 and has a *)
(* cap per operation, shared with rule 4, which competes with rule 2 for   *)
(* the best of their group and has a limit of spend; rule 5 includes rule  *)
(* 1 and conflicts with rule 3.                                            *)
(***************************************************************************)
EXTENDS PurchasePlan, TLC

Cap(id, key, place, limit, spendLimit, partial) ==
  [id |-> id, key |-> key, place |-> place,
   perOperation |-> key = "operation", resets |-> key # "operation",
   notRequired |-> key # "month", limit |-> limit, spendLimit |-> spendLimit, partial |-> partial]

Stack(group, mode, requires, conflicts) ==
  [eligible |-> TRUE, group |-> group, mode |-> mode, precedence |-> 0, value |-> 0,
   includes |-> mode = "includes_base", base |-> NoBase, isBase |-> FALSE,
   requires |-> requires, conflicts |-> conflicts]

Month(id, place) == Cap(id, "month", place, 4, NoLimit, TRUE)
Once  == Cap("operation", "operation", 1, 3, NoLimit, FALSE)
Spend == Cap("spend", "spend", 2, NoLimit, 4, TRUE)

MCReward ==
  << [stacking |-> [Stack("g", "additive", {}, {}) EXCEPT !.isBase = TRUE],
      caps |-> {Month("base", 1)}, clawback |-> "proportional"],
     [stacking |-> Stack("h", "best_of_group", {}, {}),
      caps |-> {Month("bonus", 1), Month("base", 2)}, clawback |-> "full"],
     [stacking |-> Stack("i", "additive", {1}, {}), caps |-> {Once}, clawback |-> "proportional"],
     [stacking |-> Stack("h", "best_of_group", {}, {}), caps |-> {Once, Spend}, clawback |-> "none"],
     [stacking |-> Stack("g", "includes_base", {}, {3}), caps |-> {}, clawback |-> "unknown"] >>

Progress(status, low, high, period) ==
  [status |-> status, low |-> low, high |-> high, spendLow |-> 0, spendHigh |-> 0,
   period |-> period]

MCKey == {"month", "base", "bonus", "operation", "spend"}

User(month, base, bonus, spend) ==
  [k \in MCKey |-> CASE k = "month" -> month [] k = "base" -> base [] k = "bonus" -> bonus
                     [] k = "spend" -> spend [] OTHER -> NoProgress]

(* The cap is partly used, perhaps used up, of unknown use, said not to     *)
(* apply, not reported, or reported for each cap of the group.              *)
MCReported ==
  { User(Progress("known", 1, 1, 1), NoProgress, NoProgress, NoProgress),
    User(Progress("known", 1, 1, NoPeriod), NoProgress, NoProgress,
         Progress("unknown", 0, 0, NoPeriod)),
    User(Progress("estimated", 0, 3, 1), NoProgress, NoProgress, NoProgress),
    User(Progress("unknown", 0, 0, NoPeriod), NoProgress, NoProgress, NoProgress),
    User(Progress("not_applicable", 0, 0, NoPeriod), NoProgress, NoProgress, NoProgress),
    User(NoProgress, NoProgress, NoProgress, NoProgress),
    User(NoProgress, Progress("known", 3, 3, 1), Progress("known", 1, 1, 1), NoProgress),
    User(NoProgress, Progress("unknown", 0, 0, NoPeriod), Progress("estimated", 1, 2, NoPeriod),
         NoProgress) }

Buy(amount, period, units) == [amount |-> amount, period |-> period, units |-> units]

MCOffer ==
  { Buy(2, 1, <<2, 2, 2, 2>>), Buy(2, 2, <<1, 3, 3>>), Buy(3, 1, <<5, 1, 4>>),
    Buy(2, 1, <<2, 2, 2, 4, 3>>), Buy(2, 1, (2 :> 1) @@ (3 :> 1) @@ (4 :> 2)) }

(* A user in the middle of one month, purchases in the next.                *)
LastMonth == { User(Progress("known", 1, 1, 1), NoProgress, NoProgress, NoProgress) }
NextMonth == { Buy(2, 2, <<3>>) }
=============================================================================
