---------------------------- MODULE PurchasePlan ----------------------------
(***************************************************************************)
(* evaluateNativePlan (packages/rule-engine/src/engine.ts): the operations *)
(* of a plan are evaluated one by one against caps whose progress they     *)
(* share.  An operation depends on those before it only, so that a plan is *)
(* chosen as it is evaluated.                                              *)
(*                                                                         *)
(* Purchases are paid by external funding; transfers, lots of points, and  *)
(* the matching of rules with an operation are not part of this module.    *)
(***************************************************************************)
EXTENDS Stacking, RewardCaps, Functions

CONSTANTS
  Reward,       \* rules: [stacking, caps, clawback], indexed by rule_id
  Key,          \* keys of cap progress
  Period,       \* periods in which caps are used
  Reported,     \* cap progress that users report: functions on Key
  Offer,        \* purchases: [amount, period, units], units by rule
  MaxOperations \* bound on the operations of a plan

CapRecord ==
  [id : Key, key : Key, place : Nat,
   perOperation : BOOLEAN, resets : BOOLEAN, notRequired : BOOLEAN,
   limit : Nat \cup {NoLimit}, spendLimit : Nat \cup {NoLimit}, partial : BOOLEAN]

ProgressRecord ==
  [status : {"known", "estimated", "unknown", "not_applicable"}, low : Nat, high : Nat,
   spendLow : Nat, spendHigh : Nat, period : Period \cup {NoPeriod}]

ASSUME PlanAssumption ==
  /\ MaxOperations \in Nat
  /\ NoProgress \notin ProgressRecord
  /\ DOMAIN Reward \in SUBSET Nat /\ IsFiniteSet(DOMAIN Reward)
  /\ \A r \in DOMAIN Reward :
       /\ Reward[r].caps \subseteq CapRecord /\ IsFiniteSet(Reward[r].caps)
       /\ \A c \in Reward[r].caps : c.resets \/ c.perOperation
       /\ {"value", "conflicts"} \subseteq DOMAIN Reward[r].stacking
       /\ Reward[r].stacking.conflicts \subseteq Nat
       /\ IsFiniteSet(Reward[r].stacking.conflicts)
  \* The cap_id of one cap is not the shared_cap_group of others.
  /\ \A r, s \in DOMAIN Reward : \A c \in Reward[r].caps, d \in Reward[s].caps :
       d.key = c.id => d.key = c.key
  /\ Reported \subseteq [Key -> ProgressRecord \cup {NoProgress}]
  /\ \A o \in Offer :
       /\ o.amount \in Nat \ {0} /\ o.period \in Period /\ DOMAIN o.units \subseteq DOMAIN Reward
       /\ \A r \in DOMAIN o.units : o.units[r] \in Nat

VARIABLES
  reported,   \* cap_progress of the user's state
  operations, \* those evaluated: [kind, amount, period, original]
  progress,   \* planCapProgress
  rewards,    \* reward components: [operation, rule, sign, units, of]
  valid       \* the plan is eligible

vars == <<reported, operations, progress, rewards, valid>>

Init ==
  /\ reported \in Reported /\ progress = reported
  /\ operations = <<>> /\ rewards = {} /\ valid = TRUE

Current == Len(operations) + 1

-----------------------------------------------------------------------------
(* processRewardRules.  Every rule is capped against the same progress,     *)
(* then the rules are stacked by what is left of them, then those selected  *)
(* are capped again, one after the other, reserving what they are paid.     *)

AllowedTo(r, now, o, units) == Allowed(Reward[r].caps, now, o.period, units, o.amount)

Capped(o) ==
  LET units == [r \in DOMAIN o.units |-> AllowedTo(r, progress, o, o.units[r])]
  IN Restrict(units, {r \in DOMAIN units : units[r] > 0})

Candidates(units) ==
  [r \in DOMAIN units |-> [Reward[r].stacking EXCEPT !.value = units[r]]]

(* Mutant of PayRule: the units of the first evaluation are paid.           *)
PayRuleAsCapped(o, units, payment, r) ==
  LET caps == Reward[r].caps
      now  == Reserve(payment.now, caps, units[r], o.amount)
  IN [now  |-> now,
      plan |-> [k \in Key |-> IF k \in LastingKeys(caps) THEN now[k] ELSE payment.plan[k]],
      paid |-> payment.paid \cup {<<r, units[r]>>}]

PayRule(o, units, payment, r) ==
  LET caps == Reward[r].caps
      left == AllowedTo(r, payment.now, o, units[r])
      now  == Reserve(payment.now, caps, left, o.amount)
  IN IF left = 0 THEN payment
     ELSE [now  |-> now,
           plan |-> [k \in Key |-> IF k \in LastingKeys(caps) THEN now[k] ELSE payment.plan[k]],
           paid |-> payment.paid \cup {<<r, left>>}]

Payment(o) ==
  LET units    == Capped(o)
      selected == Resolve(Candidates(units), Ascending(DOMAIN units))
  IN FoldLeft(LAMBDA payment, r : PayRule(o, units, payment, r),
              [now |-> progress, plan |-> progress, paid |-> {}], Ascending(selected))

Purchase(o) ==
  LET payment == Payment(o)
  IN /\ operations' = Append(operations, [kind |-> "purchase", amount |-> o.amount,
                                          period |-> o.period, original |-> 0])
     /\ progress' = payment.plan
     /\ rewards' = rewards \cup
          {[operation |-> Current, rule |-> p[1], sign |-> "credit", units |-> p[2],
            of |-> Current] : p \in payment.paid}
     /\ UNCHANGED <<reported, valid>>

-----------------------------------------------------------------------------
(* processLifecycleOperation.                                               *)

Amount == [j \in DOMAIN operations |-> operations[j].amount]

(* Refunds that were rejected count as well.                                *)
Returned(i) ==
  SumFunctionOnSet(Amount, {j \in DOMAIN operations : operations[j].original = i})

(* Mutant of Returnable: earlier refunds are not counted.                   *)
ReturnableAlone(kind, i, amount) ==
  /\ operations[i].kind = "purchase"
  /\ IF kind = "reversal" THEN amount = operations[i].amount ELSE amount <= operations[i].amount

Returnable(kind, i, amount) ==
  /\ operations[i].kind = "purchase"
  /\ IF kind = "reversal" THEN amount = operations[i].amount ELSE amount <= operations[i].amount
  /\ Returned(i) + amount <= operations[i].amount

(* A reversal passes no policy, which is full clawback.                     *)
DebitedFor(kind, r) ==
  IF kind = "reversal" THEN "full" ELSE Reward[r].clawback

Debits(kind, i, amount) ==
  {[operation |-> Current, rule |-> c.rule, sign |-> "debit", of |-> i,
    units |-> Clawback(DebitedFor(kind, c.rule), c.units, amount, operations[i].amount)] :
     c \in {c \in rewards : c.operation = i /\ DebitedFor(kind, c.rule) \in {"full", "proportional"}}}

Return(kind, i, amount) ==
  /\ operations' = Append(operations, [kind |-> kind, amount |-> amount,
                                       period |-> NoPeriod, original |-> i])
  /\ IF Returnable(kind, i, amount)
     THEN rewards' = rewards \cup Debits(kind, i, amount) /\ UNCHANGED valid
     ELSE valid' = FALSE /\ UNCHANGED rewards
  /\ UNCHANGED <<reported, progress>>

Next ==
  /\ Len(operations) < MaxOperations
  /\ \/ \E o \in Offer : Purchase(o)
     \/ \E kind \in {"refund", "reversal"}, i \in DOMAIN operations :
          \E amount \in 1..operations[i].amount : Return(kind, i, amount)

Spec == Init /\ [][Next]_vars

-----------------------------------------------------------------------------
Credits(rules) == {c \in rewards : c.sign = "credit" /\ c.rule \in rules}

Units(components) == SumFunctionOnSet([c \in components |-> c.units], components)

CapsOn(k)  == {c \in UNION {Reward[r].caps : r \in DOMAIN Reward} : c.key = k}
RulesOn(k) == {r \in DOMAIN Reward : k \in Keys(Reward[r].caps)}

Limit(k) == Max({c.limit : c \in CapsOn(k)})

(* Keys whose caps limit units only, over operations or within each one.    *)
LimitsUnits(k, perOperation) ==
  /\ CapsOn(k) # {}
  /\ \A c \in CapsOn(k) :
       c.perOperation = perOperation /\ c.limit # NoLimit /\ c.spendLimit = NoLimit

(* What the caps on k see of what was reported: one report, if that is of k *)
(* itself, or one for each cap.                                             *)
Reports(k) == {Seen(reported, c) : c \in CapsOn(k)}

(* No operation that earned under k lies outside a period reported.         *)
InPeriod(k) ==
  \A p \in Reports(k) :
    \/ p = NoProgress \/ p.period = NoPeriod
    \/ \A c \in Credits(RulesOn(k)) : operations[c.operation].period = p.period

(* A cap that sees report p must know its use and does not.                 *)
Unknown(c, p) ==
  IF p = NoProgress THEN ~ c.notRequired /\ ~ c.perOperation ELSE p.status = "unknown"

(* Units that a cap takes for used at least.                                *)
Spent(p) == IF p = NoProgress \/ p.status = "not_applicable" THEN 0 ELSE p.high

(* "A reward cannot exceed its remaining cap"                               *)
(* (docs/03_reward_rule_specification.md, line 236), in the sum of all      *)
(* rules and operations that share it, while an unknown use is not taken    *)
(* for none: every rule was capped against the same progress before any was *)
(* reserved.  What is left of a group is told by the report on the group,   *)
(* or, where its caps were reported one by one, by that on one of them: the *)
(* reservation forgets the others.                                          *)
CapIsShared ==
  \A k \in Key :
    /\ LimitsUnits(k, FALSE) /\ InPeriod(k) =>
         \E c \in CapsOn(k) :
           IF Unknown(c, Seen(reported, c)) THEN Credits(RulesOn(k)) = {}
           ELSE Units(Credits(RulesOn(k))) <= Left(Limit(k), Spent(Seen(reported, c)))
    /\ LimitsUnits(k, TRUE) /\ Reports(k) = {NoProgress} =>
         \A i \in DOMAIN operations :
           Units({c \in Credits(RulesOn(k)) : c.operation = i}) <= Limit(k)

(* However a purchase is returned, in parts or at once: the debits of a     *)
(* proportional reward stay within the refunded share of it ("it never      *)
(* debits more units than the refunded share", m1b-lifecycle.ts, line 262), *)
(* and only a purchase that is returned whole loses all of it.              *)
ClawbackWithinShare ==
  \A c \in Credits({r \in DOMAIN Reward : Reward[r].clawback # "full"}) :
    LET debits   == {d \in rewards : d.sign = "debit" /\ d.of = c.operation /\ d.rule = c.rule}
        accepted == {d.operation : d \in {d \in rewards : d.sign = "debit" /\ d.of = c.operation}}
        paid     == operations[c.operation].amount
        refunded == SumFunctionOnSet(Amount, accepted)
    IN /\ Units(debits) <= c.units
       /\ Units(debits) * paid <= c.units * refunded
       /\ (Units(debits) = c.units /\ c.units > 0) => refunded = paid

(* "caps cannot be exceeded" (docs/04_implementation_plan.md, line 135), in *)
(* each period, for caps that start anew in each.                           *)
CapHeldInEachPeriod ==
  \A k \in Key : LimitsUnits(k, FALSE) =>
    \A p \in {o.period : o \in Offer} :
      Units({c \in Credits(RulesOn(k)) : operations[c.operation].period = p}) <= Limit(k)
=============================================================================
