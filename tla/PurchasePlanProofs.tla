-------------------------- MODULE PurchasePlanProofs --------------------------
(***************************************************************************)
(* Proofs about PurchasePlan, for every finite set of rules with whatever  *)
(* caps, for whatever users report, and for plans of every length.         *)
(***************************************************************************)
EXTENDS PurchasePlan, OperatorTheorems, TLAPS

-----------------------------------------------------------------------------
(* What the tables hold.                                                    *)

Use == ProgressRecord \cup {NoProgress}

Operation ==
  [kind : {"purchase", "refund", "reversal"}, amount : Nat \ {0},
   period : Period \cup {NoPeriod}, original : Nat]

Component ==
  [operation : Nat, rule : DOMAIN Reward, sign : {"credit", "debit"}, units : Nat, of : Nat]

TypeInv ==
  /\ reported \in [Key -> Use] /\ progress \in [Key -> Use]
  /\ operations \in Seq(Operation)
  /\ rewards \subseteq Component /\ IsFiniteSet(rewards)

(* A credit belongs to its purchase, a debit to the return of one; an       *)
(* operation has one component of a rule.                                   *)
ComponentInv ==
  /\ \A c \in rewards :
       /\ c.operation \in DOMAIN operations /\ c.of \in DOMAIN operations
       /\ operations[c.of].kind = "purchase"
       /\ c.sign = "credit" => c.of = c.operation
       /\ c.sign = "debit" => /\ operations[c.operation].kind # "purchase"
                              /\ operations[c.operation].original = c.of
  /\ \A c, d \in rewards : c.operation = d.operation /\ c.rule = d.rule => c = d

(* Of a key k, after reports rep: the use that one of its caps sees was     *)
(* known, and progress p is at least that and what the components earned,   *)
(* which is within what it leaves of the limit.                             *)
Backed(k, rep, p, comps) ==
  \E c \in CapsOn(k) :
    /\ ~ Unknown(c, Seen(rep, c))
    /\ p \in ProgressRecord /\ p.status \in {"known", "estimated"}
    /\ p.period = IF Seen(rep, c) = NoProgress THEN NoPeriod ELSE Seen(rep, c).period
    /\ Spent(Seen(rep, c)) + Units(comps) <= p.high
    /\ Units(comps) <= Left(Limit(k), Spent(Seen(rep, c)))

KeyHolds(k, rep, p, comps) ==
  \/ p = rep[k] /\ comps = {}
  \/ Backed(k, rep, p, comps)

CapInv ==
  \A k \in Key :
    /\ CapsOn(k) = {} => progress[k] = reported[k]
    /\ LimitsUnits(k, FALSE) /\ InPeriod(k) => KeyHolds(k, reported, progress[k], Credits(RulesOn(k)))
    /\ LimitsUnits(k, TRUE) =>
         /\ progress[k] = reported[k]
         /\ Reports(k) = {NoProgress} =>
              \A i \in DOMAIN operations :
                Units({c \in Credits(RulesOn(k)) : c.operation = i}) <= Limit(k)

(* Of a purchase: its debits under a rule, and the returns that debited.    *)
DebitsOf(i, r) == {d \in rewards : d.sign = "debit" /\ d.of = i /\ d.rule = r}

Accepted(i) == {d.operation : d \in {d \in rewards : d.sign = "debit" /\ d.of = i}}

ShareInv ==
  /\ \A i \in DOMAIN operations : SumFunctionOnSet(Amount, Accepted(i)) <= operations[i].amount
  /\ \A c \in rewards : c.sign = "credit" /\ Reward[c.rule].clawback # "full" =>
       Units(DebitsOf(c.operation, c.rule)) * operations[c.operation].amount
         <= c.units * SumFunctionOnSet(Amount, Accepted(c.operation))

PlanInv == TypeInv /\ ComponentInv /\ CapInv /\ ShareInv

-----------------------------------------------------------------------------
(* Sums of units, and limits.                                               *)

LEMMA UnitsOfNone == Units({}) = 0
BY SumOfNone DEF Units

LEMMA UnitsType ==
  ASSUME NEW S \in SUBSET Component, IsFiniteSet(S)
  PROVE  Units(S) \in Nat
<1> DEFINE w == [c \in S |-> c.units]
<1>1. \A x \in S : w[x] \in Nat
  BY DEF Component
<1> HIDE DEF w
<1>2. SumFunctionOnSet(w, S) \in Nat
  BY <1>1, SumRecursion
<1> QED
  BY <1>2 DEF Units, w

(* A further component adds no more than its units.                         *)
LEMMA UnitsWith ==
  ASSUME NEW S \in SUBSET Component, IsFiniteSet(S), NEW d \in Component
  PROVE  Units(S \cup {d}) <= Units(S) + d.units
<1>1. Units(S) \in Nat /\ d.units \in Nat
  BY UnitsType DEF Component
<1>2. CASE d \in S
  <2>1. S \cup {d} = S
    BY <1>2
  <2>2. Units(S \cup {d}) = Units(S)
    BY <2>1, Zenon
  <2> QED
    BY <1>1, <2>2
<1>3. CASE d \notin S
  <2> DEFINE w == [c \in S |-> c.units]
             v == [c \in S \cup {d} |-> c.units]
  <2>1. /\ \A x \in S : w[x] \in Nat /\ w[x] = v[x]
        /\ \A x \in S : v[x] \in Nat
        /\ v[d] = d.units
    BY DEF Component
  <2>2. Units(S) = SumFunctionOnSet(w, S) /\ Units(S \cup {d}) = SumFunctionOnSet(v, S \cup {d})
    BY DEF Units
  <2> HIDE DEF w, v
  <2>3. SumFunctionOnSet(w, S) = SumFunctionOnSet(v, S)
    BY <2>1, SumSame
  <2>4. SumFunctionOnSet(v, S \cup {d}) = v[d] + SumFunctionOnSet(v, S)
    BY <1>1, <1>3, <2>1, SumWith
  <2> QED
    BY <1>1, <2>1, <2>2, <2>3, <2>4
<1> QED
  BY <1>2, <1>3

(* The limit of a key is one of its caps', and none of theirs is greater.   *)
LEMMA LimitIsGreatest ==
  ASSUME NEW k \in Key, CapsOn(k) # {}, \A c \in CapsOn(k) : c.limit # NoLimit
  PROVE  /\ Limit(k) \in Nat
         /\ \A c \in CapsOn(k) : c.limit \in Nat /\ c.limit <= Limit(k)
<1> DEFINE caps == [r \in DOMAIN Reward |-> Reward[r].caps]
           all == {Reward[r].caps : r \in DOMAIN Reward}
           limits == {c.limit : c \in CapsOn(k)}
           limit == [c \in CapsOn(k) |-> c.limit]
<1>1. IsFiniteSet(all)
  <2>1. caps \in Surjection(DOMAIN Reward, all)
    BY DEF Surjection
  <2>2. IsFiniteSet(DOMAIN Reward)
    BY PlanAssumption
  <2> HIDE DEF all, caps
  <2> QED
    BY <2>1, <2>2, FS_Surjection
<1>2. \A T \in all : IsFiniteSet(T)
  BY PlanAssumption
<1>3. IsFiniteSet(UNION all)
  BY <1>1, <1>2, FS_UNION
<1>4. CapsOn(k) \subseteq UNION all
  BY DEF CapsOn
<1>5. IsFiniteSet(CapsOn(k))
  BY <1>3, <1>4, FS_Subset
<1>6. \A c \in CapsOn(k) : c \in CapRecord
  BY PlanAssumption DEF CapsOn
<1>7. limits \in SUBSET Nat /\ limits # {}
  BY <1>6 DEF CapRecord
<1>8. IsFiniteSet(limits)
  <2>1. limit \in Surjection(CapsOn(k), limits)
    BY DEF Surjection
  <2> HIDE DEF limit, limits
  <2> QED
    BY <1>5, <2>1, FS_Surjection
<1>9. Limit(k) = CHOOSE x \in limits : \A y \in limits : x >= y
  BY DEF Limit, Max
<1>10. \A c \in CapsOn(k) : c.limit \in limits
  OBVIOUS
<1> HIDE DEF limits
<1>11. \E x \in limits : \A y \in limits : y <= x
  BY <1>7, <1>8, GreatestOfFinite
<1>12. \E x \in limits : \A y \in limits : x >= y
  BY <1>7, <1>11
<1>13. Limit(k) \in limits /\ \A y \in limits : Limit(k) >= y
  BY <1>9, <1>12
<1> QED
  BY <1>7, <1>10, <1>13

-----------------------------------------------------------------------------
(* What a cap allows.                                                       *)

LEMMA UsedType ==
  ASSUME NEW c \in CapRecord, NEW p \in Use, NEW period
  PROVE  LET used == Used(c, p, period)
         IN /\ used.low \in Nat /\ used.high \in Nat /\ used.spendHigh \in Nat
            /\ ~ ResetApplied(c, p, period) =>
                 IF p = NoProgress
                 THEN used = IF c.perOperation \/ c.notRequired THEN Unused ELSE AnyUse(c)
                 ELSE /\ p.status = "unknown" => used = AnyUse(c)
                      /\ p.status # "unknown" => used.high = Spent(p)
<1> DEFINE used == Used(c, p, period)
           needed == ~ c.perOperation /\ ~ c.notRequired
           none == [Unused EXCEPT !.sure = ~ needed]
           seen == [sure |-> \/ p.status = "known"
                             \/ p.low = p.high /\ p.spendLow = p.spendHigh,
                    low |-> p.low, high |-> p.high, spendLow |-> p.spendLow, spendHigh |-> p.spendHigh]
<1>1. /\ ResetApplied(c, p, period) => p # NoProgress
      /\ p # NoProgress => p \in ProgressRecord
  BY DEF ResetApplied, Use
<1>2. /\ Unused.low = 0 /\ Unused.high = 0 /\ Unused.spendHigh = 0
      /\ none.low = 0 /\ none.high = 0 /\ none.spendHigh = 0
  BY DEF Unused
<1>3. AnyUse(c).low \in Nat /\ AnyUse(c).high \in Nat /\ AnyUse(c).spendHigh \in Nat
  BY DEF AnyUse, CapRecord
<1>4. /\ seen.low = p.low /\ seen.high = p.high /\ seen.spendHigh = p.spendHigh
      /\ p # NoProgress => p.low \in Nat /\ p.high \in Nat /\ p.spendHigh \in Nat
  BY <1>1 DEF ProgressRecord
<1> HIDE DEF none, seen
<1>5. used = CASE ResetApplied(c, p, period) -> Unused
               [] p = NoProgress -> IF needed THEN AnyUse(c) ELSE Unused
               [] OTHER -> CASE p.status = "unknown" -> AnyUse(c)
                             [] p.status = "not_applicable" -> none
                             [] OTHER -> seen
  BY DEF Used, none, seen
<1>6. ResetApplied(c, p, period) => used = Unused
  BY <1>1, <1>5
<1>7. p = NoProgress => used = IF needed THEN AnyUse(c) ELSE Unused
  BY <1>1, <1>5
<1>8. p # NoProgress /\ ~ ResetApplied(c, p, period) =>
        used = CASE p.status = "unknown" -> AnyUse(c)
                 [] p.status = "not_applicable" -> none
                 [] OTHER -> seen
  BY <1>5
<1> HIDE DEF used
<1>9. p # NoProgress /\ ~ ResetApplied(c, p, period) =>
        /\ p.status = "unknown" => used = AnyUse(c)
        /\ p.status = "not_applicable" => used = none
        /\ p.status \notin {"unknown", "not_applicable"} => used = seen
  BY <1>8
<1>10. /\ used.low \in Nat /\ used.high \in Nat /\ used.spendHigh \in Nat
       /\ p # NoProgress /\ ~ ResetApplied(c, p, period) /\ p.status # "unknown" => used.high = Spent(p)
  <2>1. used \in {Unused, AnyUse(c), none} \/ (p # NoProgress /\ used = seen)
    BY <1>6, <1>7, <1>9
  <2>2. used.low \in Nat /\ used.high \in Nat /\ used.spendHigh \in Nat
    BY <1>2, <1>3, <1>4, <2>1
  <2>3. ASSUME p # NoProgress, ~ ResetApplied(c, p, period), p.status # "unknown"
        PROVE  used.high = Spent(p)
    BY <1>2, <1>4, <1>9, <2>3 DEF Spent
  <2> QED
    BY <2>2, <2>3
<1> QED
  BY <1>7, <1>9, <1>10 DEF used

LEMMA AllowedByLeft ==
  ASSUME NEW c \in CapRecord, NEW p \in Use, NEW period,
         NEW units \in Nat, NEW spend \in Nat \ {0}
  PROVE  /\ AllowedBy(c, p, period, units, spend) \in Nat
         /\ c.limit # NoLimit /\ c.spendLimit = NoLimit =>
              AllowedBy(c, p, period, units, spend) <= Left(c.limit, Used(c, p, period).high)
<1> DEFINE used == Used(c, p, period)
           least == IF c.limit = NoLimit THEN 0 ELSE Lesser(units, Left(c.limit, used.high))
           most == IF c.limit = NoLimit THEN units ELSE Lesser(units, Left(c.limit, used.low))
           byReward == IF c.partial \/ least = units THEN least ELSE 0
           product == most * Lesser(spend, Left(c.spendLimit, used.spendHigh))
           bySpend == IF c.spendLimit = NoLimit \/ spend = 0 THEN 0 ELSE product \div spend
           surelyOver == /\ used.sure /\ ~ c.partial
                         /\ \/ most < units
                            \/ c.spendLimit # NoLimit /\ spend > Left(c.spendLimit, used.spendLow)
<1>1. AllowedBy(c, p, period, units, spend) = IF surelyOver THEN 0 ELSE Max({byReward, bySpend})
  BY DEF AllowedBy
<1>2. used.low \in Nat /\ used.high \in Nat /\ used.spendHigh \in Nat
  BY UsedType
<1> HIDE DEF used
<1>3. c.limit # NoLimit => c.limit \in Nat
  BY DEF CapRecord
<1>4. least \in Nat /\ most \in Nat
  BY <1>2, <1>3 DEF Lesser, Left, Positive
<1>5. c.limit # NoLimit => least <= Left(c.limit, used.high)
  BY <1>2, <1>3 DEF Lesser, Left, Positive
<1> HIDE DEF least, most
<1>6. c.spendLimit # NoLimit => product \in Nat
  <2> DEFINE part == Lesser(spend, Left(c.spendLimit, used.spendHigh))
  <2>1. c.spendLimit # NoLimit => part \in Nat
    BY <1>2 DEF CapRecord, Lesser, Left, Positive
  <2> HIDE DEF part
  <2>2. c.spendLimit # NoLimit => most * part \in Nat
    BY <1>4, <2>1
  <2> QED
    BY <2>2 DEF part
<1> HIDE DEF product
<1>7. bySpend \in Nat /\ byReward \in Nat
  BY <1>4, <1>6
<1>8. c.limit # NoLimit /\ c.spendLimit = NoLimit => bySpend = 0 /\ byReward <= Left(c.limit, used.high)
  <2>1. c.limit # NoLimit => Left(c.limit, used.high) \in Nat
    BY <1>2, <1>3 DEF Left, Positive
  <2> QED
    BY <1>4, <1>5, <2>1
<1> HIDE DEF bySpend, byReward, surelyOver
<1>9. Max({byReward, bySpend}) \in {byReward, bySpend}
  <2>1. byReward >= bySpend \/ bySpend >= byReward
    BY <1>7
  <2>2. \E x \in {byReward, bySpend} : \A y \in {byReward, bySpend} : x >= y
    BY <1>7, <2>1
  <2> QED
    BY <2>2 DEF Max
<1>10. c.limit # NoLimit => Left(c.limit, used.high) \in Nat
  BY <1>2, <1>3 DEF Left, Positive
<1> QED
  BY <1>1, <1>7, <1>8, <1>9, <1>10 DEF used

(* All caps of a rule together allow no more than each.                     *)
LEMMA AllowedIsLeast ==
  ASSUME NEW caps \in SUBSET CapRecord, NEW now \in [Key -> Use], NEW period,
         NEW units \in Nat, NEW spend \in Nat \ {0}
  PROVE  /\ Allowed(caps, now, period, units, spend) \in Nat
         /\ \A c \in caps :
              Allowed(caps, now, period, units, spend)
                <= AllowedBy(c, Seen(now, c), period, units, spend)
<1> DEFINE S == {units} \cup {AllowedBy(c, Seen(now, c), period, units, spend) : c \in caps}
<1>1. ASSUME NEW c \in caps PROVE AllowedBy(c, Seen(now, c), period, units, spend) \in Nat
  <2>1. c \in CapRecord /\ Seen(now, c) \in Use
    BY DEF CapRecord, Seen
  <2> QED
    BY <2>1, AllowedByLeft
<1>2. S \in SUBSET Nat /\ S # {}
  BY <1>1
<1>3. \A c \in caps : AllowedBy(c, Seen(now, c), period, units, spend) \in S
  OBVIOUS
<1>4. Allowed(caps, now, period, units, spend) = CHOOSE x \in S : \A y \in S : x <= y
  BY DEF Allowed, Min
<1> HIDE DEF S
<1>5. \E x \in S : \A y \in S : x <= y
  BY <1>2, LeastNumber
<1>6. /\ Allowed(caps, now, period, units, spend) \in S
      /\ \A y \in S : Allowed(caps, now, period, units, spend) <= y
  BY <1>4, <1>5
<1> QED
  BY <1>2, <1>3, <1>6

-----------------------------------------------------------------------------
(* What a payment does to one key.                                          *)

LEMMA AddType ==
  ASSUME NEW p \in Use, NEW units \in Nat, NEW spend \in Nat
  PROVE  /\ Add(p, units, spend) \in ProgressRecord
         /\ Add(p, units, spend).status \in {"known", "estimated"}
         /\ Add(p, units, spend).period = IF p = NoProgress THEN NoPeriod ELSE p.period
         /\ Add(p, units, spend).high = IF p = NoProgress THEN units ELSE p.high + units
         /\ p # NoProgress => p.high \in Nat /\ Spent(p) <= p.high
         /\ Spent(p) \in Nat
<1>1. CASE p = NoProgress
  BY <1>1 DEF Add, ProgressRecord, Spent
<1>2. CASE p # NoProgress
  <2>1. /\ p.low \in Nat /\ p.high \in Nat /\ p.spendLow \in Nat /\ p.spendHigh \in Nat
        /\ p.period \in Period \cup {NoPeriod}
    BY <1>2 DEF Use, ProgressRecord
  <2> QED
    BY <1>2, <2>1 DEF Add, ProgressRecord, Spent
<1> QED
  BY <1>1, <1>2

LEMMA FirstIsOn ==
  ASSUME NEW caps \in SUBSET CapRecord, NEW k \in Keys(caps)
  PROVE  FirstOn(caps, k) \in caps /\ FirstOn(caps, k).key = k
<1> DEFINE on == {c \in caps : c.key = k}
           places == {c.place : c \in on}
<1>1. places \in SUBSET Nat /\ places # {}
  BY DEF Keys, CapRecord
<1>2. \A c \in on : c.place \in places
  OBVIOUS
<1>3. \A n \in places : \E c \in on : c.place = n
  OBVIOUS
<1> HIDE DEF places
<1>4. PICK n \in places : \A m \in places : n <= m
  BY <1>1, LeastNumber
<1>5. PICK c \in on : c.place = n
  BY <1>3
<1>6. c \in caps /\ c.key = k /\ \A d \in caps : d.key = k => c.place <= d.place
  BY <1>2, <1>4, <1>5
<1> QED
  BY <1>6 DEF FirstOn

(* A rule is paid under k, its first cap there being c, which saw progress  *)
(* seen: that was p, or else the cap's own report.                          *)
LEMMA KeyIsReserved ==
  ASSUME TypeInv, NEW k \in Key, NEW c \in CapsOn(k),
         \A d \in CapsOn(k) : d.limit # NoLimit, c.spendLimit = NoLimit,
         NEW p \in Use, NEW seen \in Use, NEW period,
         p # NoProgress => seen = p, p = reported[k] => seen = Seen(reported, c),
         ~ ResetApplied(c, seen, period),
         NEW comps \in SUBSET Component, IsFiniteSet(comps),
         NEW new \in Component, NEW spend \in Nat, new.units # 0,
         new.units <= Left(c.limit, Used(c, seen, period).high),
         KeyHolds(k, reported, p, comps)
  PROVE  /\ ~ (seen # NoProgress /\ seen.status = "unknown")
         /\ Backed(k, reported, Add(seen, new.units, spend), comps \cup {new})
<1> DEFINE left == new.units
           all == comps \cup {new}
           used == Used(c, seen, period)
           sum == Add(seen, left, spend)
<1>1. left \in Nat /\ left > 0
  BY DEF Component
<1>2. Units(comps) \in Nat /\ Units(all) <= Units(comps) + left
  BY UnitsType, UnitsWith
<1>3. Units(all) \in Nat
  <2>1. all \in SUBSET Component /\ IsFiniteSet(all)
    BY FS_AddElement
  <2> QED
    BY <2>1, UnitsType
<1>4. comps = {} => Units(comps) = 0
  BY UnitsOfNone
<1>5. NoProgress \notin ProgressRecord
  BY PlanAssumption
<1>6. c \in CapRecord /\ c.limit \in Nat /\ c.limit <= Limit(k) /\ Limit(k) \in Nat
  BY LimitIsGreatest, PlanAssumption DEF CapsOn
<1>7. left <= Left(c.limit, used.high) /\ used.high \in Nat
  BY <1>6, UsedType
<1>8. IF seen = NoProgress
      THEN used = IF c.perOperation \/ c.notRequired THEN Unused ELSE AnyUse(c)
      ELSE /\ seen.status = "unknown" => used = AnyUse(c)
           /\ seen.status # "unknown" => used.high = Spent(seen)
  BY <1>6, UsedType
<1>9. used # AnyUse(c)
  <2>1. used = AnyUse(c) => used.high = c.limit
    BY DEF AnyUse
  <2> HIDE DEF used, left
  <2> QED
    BY <1>1, <1>6, <1>7, <2>1 DEF Left, Positive
<1>10. IF seen = NoProgress THEN (c.perOperation \/ c.notRequired) /\ used.high = 0
       ELSE seen.status # "unknown" /\ used.high = Spent(seen)
  BY <1>8, <1>9 DEF Unused
<1>11. used.high = Spent(seen)
  BY <1>10 DEF Spent
<1> HIDE DEF left, all, used, sum
<1>12. /\ sum \in ProgressRecord /\ sum.status \in {"known", "estimated"}
       /\ sum.period = IF seen = NoProgress THEN NoPeriod ELSE seen.period
       /\ sum.high = IF seen = NoProgress THEN left ELSE seen.high + left
       /\ seen # NoProgress => seen.high \in Nat /\ Spent(seen) <= seen.high
       /\ Spent(seen) \in Nat
  <2>1. left \in Nat /\ (seen # NoProgress => seen.status # "unknown")
    BY <1>1, <1>10
  <2> DEFINE added == Add(seen, left, spend)
  <2>2. /\ added \in ProgressRecord /\ added.status \in {"known", "estimated"}
        /\ added.period = IF seen = NoProgress THEN NoPeriod ELSE seen.period
        /\ added.high = IF seen = NoProgress THEN left ELSE seen.high + left
        /\ seen # NoProgress => seen.high \in Nat /\ Spent(seen) <= seen.high
        /\ Spent(seen) \in Nat
    BY <2>1, AddType
  <2>3. sum = added
    BY DEF sum
  <2> HIDE DEF added
  <2> QED
    BY <2>2, <2>3
<1>13. left <= Limit(k) - Spent(seen) /\ Spent(seen) + left <= sum.high
  <2>1. left <= c.limit - Spent(seen)
    BY <1>1, <1>6, <1>7, <1>11, <1>12 DEF Left, Positive
  <2>2. Spent(seen) + left <= sum.high
    BY <1>1, <1>12 DEF Spent
  <2> QED
    BY <1>1, <1>6, <1>12, <2>1, <2>2
<1>14. Backed(k, reported, sum, all)
  <2>1. CASE p = reported[k] /\ comps = {}
    <3>1. seen = Seen(reported, c) /\ ~ Unknown(c, Seen(reported, c))
      BY <1>10, <2>1 DEF Unknown
    <3>2. Units(all) <= left
      BY <1>1, <1>2, <1>3, <1>4, <2>1
    <3>3. Spent(seen) + Units(all) <= sum.high /\ Units(all) <= Left(Limit(k), Spent(seen))
      <4>1. sum.high \in Nat
        BY <1>12 DEF ProgressRecord
      <4> QED
        BY <1>1, <1>3, <1>6, <1>12, <1>13, <3>2, <4>1 DEF Left, Positive
    <3> QED
      BY <1>12, <3>1, <3>3 DEF Backed
  <2>2. CASE Backed(k, reported, p, comps)
    <3>1. PICK d \in CapsOn(k) :
            /\ ~ Unknown(d, Seen(reported, d))
            /\ p \in ProgressRecord /\ p.status \in {"known", "estimated"}
            /\ p.period = IF Seen(reported, d) = NoProgress THEN NoPeriod
                          ELSE Seen(reported, d).period
            /\ Spent(Seen(reported, d)) + Units(comps) <= p.high
            /\ Units(comps) <= Left(Limit(k), Spent(Seen(reported, d)))
      BY <2>2 DEF Backed
    <3>2. p # NoProgress /\ seen = p /\ Spent(seen) = p.high /\ p.high \in Nat
      BY <1>5, <3>1 DEF Spent, ProgressRecord
    <3> DEFINE base == Spent(Seen(reported, d))
    <3>3. base \in Nat
      <4>1. d \in CapRecord
        BY PlanAssumption DEF CapsOn
      <4>2. Seen(reported, d) \in Use
        BY <4>1 DEF Seen, TypeInv, CapRecord
      <4> QED
        BY <4>2 DEF Spent, Use, ProgressRecord
    <3>4. base + Units(comps) <= p.high
      BY <3>1
    <3> HIDE DEF base
    <3>5. base + Units(all) <= sum.high
      BY <1>1, <1>2, <1>3, <1>12, <3>2, <3>3, <3>4
    <3>6. Units(all) <= Left(Limit(k), base)
      BY <1>1, <1>2, <1>3, <1>6, <1>13, <3>2, <3>3, <3>4 DEF Left, Positive
    <3> QED
      BY <1>12, <3>1, <3>2, <3>5, <3>6 DEF Backed, base
  <2> QED
    BY <2>1, <2>2 DEF KeyHolds
<1> QED
  BY <1>10, <1>14 DEF left, all, sum

-----------------------------------------------------------------------------
(* The payment of a purchase, rule by rule.                                 *)

Purse ==
  [now : [Key -> Use], plan : [Key -> Use], paid : SUBSET ((DOMAIN Reward) \X Nat)]

CreditOf(x) ==
  [operation |-> Current, rule |-> x[1], sign |-> "credit", units |-> x[2], of |-> Current]

Earned(paid) == {CreditOf(x) : x \in paid}

On(k, comps) == {c \in comps : c.rule \in RulesOn(k)}

(* A table of the units each rule asks for.                                 *)
IsAsked(units) ==
  /\ DOMAIN units \subseteq DOMAIN Reward
  /\ \A r \in DOMAIN units : units[r] \in Nat

(* What the payment of a rule leaves of key k, c being its first cap there. *)
Reserved(now, k, c, units, spend) ==
  IF Seen(now, c) # NoProgress /\ Seen(now, c).status = "unknown" THEN now[k]
  ELSE Add(Seen(now, c), units, spend)

LEMMA PayRuleFacts ==
  ASSUME NEW o \in Offer, NEW units, IsAsked(units), NEW pay \in Purse,
         NEW r \in DOMAIN units
  PROVE  LET caps == Reward[r].caps
             left == AllowedTo(r, pay.now, o, units[r])
             next == PayRule(o, units, pay, r)
         IN /\ left \in Nat /\ next \in Purse
            /\ \A c \in caps : c.limit # NoLimit /\ c.spendLimit = NoLimit =>
                 left <= Left(c.limit, Used(c, Seen(pay.now, c), o.period).high)
            /\ left = 0 => next = pay
            /\ left # 0 =>
                 /\ next.paid = pay.paid \cup {<<r, left>>}
                 /\ \A k \in Key :
                      /\ k \notin Keys(caps) => next.now[k] = pay.now[k]
                      /\ k \in Keys(caps) =>
                           next.now[k] = Reserved(pay.now, k, FirstOn(caps, k), left, o.amount)
                      /\ next.plan[k] = IF k \in LastingKeys(caps) THEN next.now[k] ELSE pay.plan[k]
<1> DEFINE caps == Reward[r].caps
           left == AllowedTo(r, pay.now, o, units[r])
           now == Reserve(pay.now, caps, left, o.amount)
           plan == [k \in Key |-> IF k \in LastingKeys(caps) THEN now[k] ELSE pay.plan[k]]
           next == PayRule(o, units, pay, r)
<1>1. /\ o.amount \in Nat \ {0} /\ units[r] \in Nat /\ r \in DOMAIN Reward
      /\ caps \in SUBSET CapRecord
  BY PlanAssumption DEF IsAsked
<1>2. pay.now \in [Key -> Use] /\ pay.plan \in [Key -> Use]
      /\ pay.paid \subseteq (DOMAIN Reward) \X Nat
  BY DEF Purse
<1>3. left = Allowed(caps, pay.now, o.period, units[r], o.amount)
  BY DEF AllowedTo
<1>4. next = IF left = 0 THEN pay
             ELSE [now |-> now, plan |-> plan, paid |-> pay.paid \cup {<<r, left>>}]
  BY DEF PayRule
<1> HIDE DEF caps, left, next
<1>5. /\ left \in Nat
      /\ \A c \in caps : left <= AllowedBy(c, Seen(pay.now, c), o.period, units[r], o.amount)
  BY <1>1, <1>2, <1>3, AllowedIsLeast
<1>6. ASSUME NEW c \in caps, c.limit # NoLimit, c.spendLimit = NoLimit
      PROVE  left <= Left(c.limit, Used(c, Seen(pay.now, c), o.period).high)
  <2> DEFINE p == Seen(pay.now, c)
             by == AllowedBy(c, p, o.period, units[r], o.amount)
             most == Left(c.limit, Used(c, p, o.period).high)
  <2>1. c \in CapRecord /\ p \in Use
    BY <1>1, <1>2 DEF CapRecord, Seen
  <2>2. by \in Nat /\ by <= most
    <3> HIDE DEF p
    <3> QED
      BY <1>1, <1>6, <2>1, AllowedByLeft
  <2>3. left <= by
    BY <1>5
  <2>4. most \in Nat \/ most \in Int
    <3>1. Used(c, p, o.period).high \in Nat
      <4> HIDE DEF p
      <4> QED
        BY <2>1, UsedType
    <3>2. c.limit \in Nat
      BY <1>6, <2>1 DEF CapRecord
    <3> QED
      BY <3>1, <3>2 DEF Left, Positive
  <2> HIDE DEF by, most
  <2>5. left <= most
    BY <1>5, <2>2, <2>3, <2>4
  <2> QED
    BY <2>5 DEF most, p
<1>7. /\ now \in [Key -> Use]
      /\ \A k \in Key :
           now[k] = IF k \in Keys(caps) THEN Reserved(pay.now, k, FirstOn(caps, k), left, o.amount)
                    ELSE pay.now[k]
  <2>1. ASSUME NEW k \in Key, k \in Keys(caps)
        PROVE  Reserved(pay.now, k, FirstOn(caps, k), left, o.amount) \in Use
    <3>1. FirstOn(caps, k) \in CapRecord
      BY <1>1, <2>1, FirstIsOn
    <3>2. Seen(pay.now, FirstOn(caps, k)) \in Use
      BY <1>2, <3>1 DEF Seen, CapRecord
    <3>3. Add(Seen(pay.now, FirstOn(caps, k)), left, o.amount) \in ProgressRecord
      BY <1>1, <1>5, <3>2, AddType
    <3> QED
      BY <1>2, <3>3 DEF Reserved, Use
  <2>2. now = [k \in Key |->
                 IF k \in Keys(caps) THEN Reserved(pay.now, k, FirstOn(caps, k), left, o.amount)
                 ELSE pay.now[k]]
    BY <1>2 DEF Reserve, Reserved
  <2> HIDE DEF now
  <2> QED
    BY <1>2, <2>1, <2>2
<1> HIDE DEF now
<1>8. plan \in [Key -> Use]
  BY <1>2, <1>7
<1>9. next \in Purse
  <2>1. pay.paid \cup {<<r, left>>} \in SUBSET ((DOMAIN Reward) \X Nat)
    BY <1>1, <1>2, <1>5
  <2> HIDE DEF plan
  <2> QED
    BY <1>4, <1>7, <1>8, <2>1 DEF Purse
<1>10. ASSUME left # 0
       PROVE  /\ next.paid = pay.paid \cup {<<r, left>>}
              /\ \A k \in Key :
                   /\ k \notin Keys(caps) => next.now[k] = pay.now[k]
                   /\ k \in Keys(caps) =>
                        next.now[k] = Reserved(pay.now, k, FirstOn(caps, k), left, o.amount)
                   /\ next.plan[k] = IF k \in LastingKeys(caps) THEN next.now[k] ELSE pay.plan[k]
  BY <1>4, <1>7, <1>10
<1> QED
  BY <1>4, <1>5, <1>6, <1>9, <1>10 DEF caps, left, next

(* Of a key: what was earned under it before and in this payment.           *)
Lasting(k, pay) == Credits(RulesOn(k)) \cup On(k, Earned(pay.paid))

(* The period of the purchase is not another one than was reported.         *)
SamePeriod(k, o) ==
  \A p \in Reports(k) : p = NoProgress \/ p.period \in {NoPeriod, o.period}

KeyInv(k, o, pay) ==
  /\ CapsOn(k) = {} => pay.now[k] = reported[k] /\ pay.plan[k] = reported[k]
  /\ LimitsUnits(k, FALSE) =>
       /\ pay.plan[k] = pay.now[k]
       /\ On(k, Earned(pay.paid)) = {} => pay.now[k] = progress[k]
       /\ InPeriod(k) /\ SamePeriod(k, o) => KeyHolds(k, reported, pay.now[k], Lasting(k, pay))
  /\ LimitsUnits(k, TRUE) =>
       /\ pay.plan[k] = progress[k]
       /\ Reports(k) = {NoProgress} => KeyHolds(k, reported, pay.now[k], On(k, Earned(pay.paid)))

(* The progress that a cap sees before a rule is paid under its key: that   *)
(* of the key, or what was reported of the cap.                             *)
LEMMA SeenBefore ==
  ASSUME TypeInv, NEW k \in Key, NEW c \in CapsOn(k), NEW now \in [Key -> Use],
         \A q \in Key : CapsOn(q) = {} => now[q] = reported[q]
  PROVE  /\ c \in CapRecord /\ c.key = k
         /\ Seen(now, c) \in Use
         /\ now[k] # NoProgress => Seen(now, c) = now[k]
         /\ now[k] = reported[k] => Seen(now, c) = Seen(reported, c)
<1>1. PICK r \in DOMAIN Reward : c \in Reward[r].caps
  BY DEF CapsOn
<1>2. c \in CapRecord /\ c.key = k /\ c.id \in Key
  BY <1>1, PlanAssumption DEF CapsOn, CapRecord
<1>3. c.id = k \/ CapsOn(c.id) = {}
  <2>1. ASSUME NEW d \in CapsOn(c.id) PROVE c.id = k
    <3>1. PICK s \in DOMAIN Reward : d \in Reward[s].caps /\ d.key = c.id
      BY DEF CapsOn
    <3> QED
      BY <1>1, <1>2, <3>1, PlanAssumption
  <2> QED
    BY <2>1
<1> QED
  BY <1>2, <1>3 DEF Seen

LEMMA PayRuleKeepsKey ==
  ASSUME TypeInv, NEW o \in Offer, NEW units, IsAsked(units), NEW pay \in Purse,
         NEW r \in DOMAIN units, IsFiniteSet(Earned(pay.paid)),
         \A q \in Key : KeyInv(q, o, pay), NEW k \in Key
  PROVE  /\ IsFiniteSet(Earned(PayRule(o, units, pay, r).paid))
         /\ KeyInv(k, o, PayRule(o, units, pay, r))
<1> DEFINE caps == Reward[r].caps
           left == AllowedTo(r, pay.now, o, units[r])
           next == PayRule(o, units, pay, r)
           new == CreditOf(<<r, left>>)
<1>1. /\ left \in Nat /\ next \in Purse
      /\ \A c \in caps : c.limit # NoLimit /\ c.spendLimit = NoLimit =>
           left <= Left(c.limit, Used(c, Seen(pay.now, c), o.period).high)
      /\ left = 0 => next = pay
      /\ left # 0 =>
           /\ next.paid = pay.paid \cup {<<r, left>>}
           /\ \A q \in Key :
                /\ q \notin Keys(caps) => next.now[q] = pay.now[q]
                /\ q \in Keys(caps) =>
                     next.now[q] = Reserved(pay.now, q, FirstOn(caps, q), left, o.amount)
                /\ next.plan[q] = IF q \in LastingKeys(caps) THEN next.now[q] ELSE pay.plan[q]
  BY PayRuleFacts
<1>2. r \in DOMAIN Reward /\ caps \in SUBSET CapRecord /\ o.amount \in Nat
  BY PlanAssumption DEF IsAsked
<1>3. Current \in Nat
  BY DEF TypeInv, Current
<1>4. new \in Component /\ new.units = left /\ new.rule = r
  BY <1>1, <1>2, <1>3 DEF CreditOf, Component
<1>5. Earned(pay.paid) \in SUBSET Component
  BY <1>3 DEF Earned, CreditOf, Purse, Component
<1>6. left # 0 => Earned(next.paid) = Earned(pay.paid) \cup {new}
  BY <1>1 DEF Earned
<1>7. /\ k \in Keys(caps) <=> r \in RulesOn(k)
      /\ LastingKeys(caps) \subseteq Keys(caps)
      /\ \A c \in caps : c.key = k => c \in CapsOn(k)
  BY <1>2 DEF RulesOn, LastingKeys, CapsOn
<1> HIDE DEF caps, left, next, new
<1>8. IsFiniteSet(Earned(next.paid))
  <2>1. CASE left = 0
    BY <1>1, <2>1
  <2>2. CASE left # 0
    <3>1. IsFiniteSet(Earned(pay.paid) \cup {new})
      BY FS_AddElement
    <3> QED
      BY <1>6, <2>2, <3>1
  <2> QED
    BY <2>1, <2>2
<1>9. KeyInv(k, o, pay)
  OBVIOUS
<1>10. KeyInv(k, o, next)
  <2>1. CASE left = 0
    BY <1>1, <2>1
  <2>2. CASE left # 0 /\ r \notin RulesOn(k)
    <3>1. On(k, Earned(next.paid)) = On(k, Earned(pay.paid))
      BY <1>4, <1>6, <2>2 DEF On
    <3>2. next.now[k] = pay.now[k] /\ next.plan[k] = pay.plan[k]
      BY <1>1, <1>7, <2>2
    <3>3. Lasting(k, next) = Lasting(k, pay)
      BY <3>1, Zenon DEF Lasting
    <3> QED
      BY <1>9, <3>1, <3>2, <3>3 DEF KeyInv
  <2>3. CASE left # 0 /\ r \in RulesOn(k)
    <3> DEFINE p == pay.now[k]
               c == FirstOn(caps, k)
               seen == Seen(pay.now, c)
               sum == Add(seen, left, o.amount)
               here == On(k, Earned(pay.paid))
               all == Lasting(k, pay)
    <3>1. On(k, Earned(next.paid)) = here \cup {new}
      BY <1>4, <1>6, <2>3 DEF On
    <3>2. Lasting(k, next) = all \cup {new}
      BY <3>1 DEF Lasting
    <3>3. c \in caps /\ c.key = k /\ c \in CapsOn(k)
      BY <1>2, <1>7, <2>3, FirstIsOn
    <3>4. /\ ~ (seen # NoProgress /\ seen.status = "unknown") => next.now[k] = sum
          /\ c.limit # NoLimit /\ c.spendLimit = NoLimit => left <= Left(c.limit, Used(c, seen, o.period).high)
      BY <1>1, <1>7, <2>3, <3>3 DEF Reserved
    <3> HIDE DEF c
    <3>5. /\ c \in CapRecord /\ seen \in Use /\ p \in Use
          /\ p # NoProgress => seen = p
          /\ p = reported[k] => seen = Seen(reported, c)
      <4>1. pay.now \in [Key -> Use]
        BY DEF Purse
      <4>2. \A q \in Key : CapsOn(q) = {} => pay.now[q] = reported[q]
        BY DEF KeyInv
      <4> QED
        BY <3>3, <4>1, <4>2, SeenBefore
    <3>6. here \in SUBSET Component /\ IsFiniteSet(here) /\ all \in SUBSET Component /\ IsFiniteSet(all)
      <4>1. here \in SUBSET Component /\ IsFiniteSet(here)
        BY <1>5, FS_Subset DEF On
      <4>2. Credits(RulesOn(k)) \in SUBSET Component /\ IsFiniteSet(Credits(RulesOn(k)))
        BY FS_Subset DEF Credits, TypeInv
      <4> HIDE DEF here
      <4> QED
        BY <4>1, <4>2, FS_Union DEF Lasting, here
    <3> HIDE DEF p, here, all, seen, sum
    <3>7. ASSUME NEW perOperation \in BOOLEAN, LimitsUnits(k, perOperation),
                 ~ ResetApplied(c, seen, o.period),
                 NEW comps \in SUBSET Component, IsFiniteSet(comps), KeyHolds(k, reported, p, comps)
          PROVE  KeyHolds(k, reported, next.now[k], comps \cup {new})
      <4>1. (\A d \in CapsOn(k) : d.limit # NoLimit) /\ c.limit # NoLimit /\ c.spendLimit = NoLimit
        BY <3>3, <3>7 DEF LimitsUnits
      <4>2. new.units # 0 /\ new.units <= Left(c.limit, Used(c, seen, o.period).high)
        BY <1>4, <2>3, <3>4, <4>1
      <4>3. /\ ~ (seen # NoProgress /\ seen.status = "unknown")
            /\ Backed(k, reported, Add(seen, new.units, o.amount), comps \cup {new})
        BY <1>2, <1>4, <3>3, <3>5, <3>7, <4>1, <4>2, KeyIsReserved
      <4> QED
        BY <1>4, <3>4, <4>3 DEF KeyHolds, sum
    <3>8. ASSUME LimitsUnits(k, FALSE)
          PROVE  /\ next.plan[k] = next.now[k]
                 /\ InPeriod(k) /\ SamePeriod(k, o) => KeyHolds(k, reported, next.now[k], Lasting(k, next))
      <4>1. k \in LastingKeys(caps)
        BY <1>7, <2>3, <3>8 DEF LastingKeys, LimitsUnits
      <4>2. next.plan[k] = next.now[k]
        BY <1>1, <2>3, <4>1
      <4>3. ASSUME InPeriod(k), SamePeriod(k, o)
            PROVE  KeyHolds(k, reported, next.now[k], Lasting(k, next))
        <5>1. KeyHolds(k, reported, p, all)
          BY <1>9, <3>8, <4>3 DEF KeyInv, p, all
        <5>2. seen # NoProgress => seen.period \in {NoPeriod, o.period}
          <6>1. \A d \in CapsOn(k) : Seen(reported, d) = NoProgress
                                     \/ Seen(reported, d).period \in {NoPeriod, o.period}
            BY <4>3 DEF SamePeriod, Reports
          <6>2. CASE p = reported[k]
            BY <3>3, <3>5, <6>1, <6>2
          <6>3. CASE Backed(k, reported, p, all)
            <7>1. p \in ProgressRecord /\ p.period \in {NoPeriod, o.period}
              BY <6>1, <6>3 DEF Backed
            <7>2. p # NoProgress
              BY <7>1, PlanAssumption
            <7> QED
              BY <3>5, <7>1, <7>2
          <6> QED
            BY <5>1, <6>2, <6>3 DEF KeyHolds
        <5>3. ~ ResetApplied(c, seen, o.period)
          BY <5>2 DEF ResetApplied
        <5> QED
          BY <3>2, <3>6, <3>7, <3>8, <5>1, <5>3
      <4> QED
        BY <4>2, <4>3
    <3>9. ASSUME LimitsUnits(k, TRUE)
          PROVE  /\ next.plan[k] = progress[k]
                 /\ Reports(k) = {NoProgress} => KeyHolds(k, reported, next.now[k], On(k, Earned(next.paid)))
      <4>1. c.perOperation
        BY <3>3, <3>9 DEF LimitsUnits
      <4>2. k \notin LastingKeys(caps)
        BY <3>3, <4>1 DEF LastingKeys
      <4>3. next.plan[k] = progress[k]
        BY <1>1, <1>9, <2>3, <3>9, <4>2 DEF KeyInv
      <4>4. ASSUME Reports(k) = {NoProgress}
            PROVE  KeyHolds(k, reported, next.now[k], On(k, Earned(next.paid)))
        <5>1. KeyHolds(k, reported, p, here)
          BY <1>9, <3>9, <4>4 DEF KeyInv, p, here
        <5>2. \A d \in CapsOn(k) : Seen(reported, d) = NoProgress
          BY <4>4 DEF Reports
        <5>3. seen # NoProgress => seen.period = NoPeriod
          <6>1. CASE p = reported[k]
            BY <3>3, <3>5, <5>2, <6>1
          <6>2. CASE Backed(k, reported, p, here)
            <7>1. p \in ProgressRecord /\ p.period = NoPeriod
              BY <5>2, <6>2 DEF Backed
            <7>2. p # NoProgress
              BY <7>1, PlanAssumption
            <7> QED
              BY <3>5, <7>1, <7>2
          <6> QED
            BY <5>1, <6>1, <6>2 DEF KeyHolds
        <5>4. ~ ResetApplied(c, seen, o.period)
          BY <5>3 DEF ResetApplied
        <5> QED
          BY <3>1, <3>6, <3>7, <3>9, <5>1, <5>4
      <4> QED
        BY <4>3, <4>4
    <3>10. CapsOn(k) # {} /\ On(k, Earned(next.paid)) # {}
      BY <3>1, <3>3
    <3> QED
      BY <3>8, <3>9, <3>10 DEF KeyInv
  <2> QED
    BY <2>1, <2>2, <2>3
<1> QED
  BY <1>8, <1>10 DEF next

-----------------------------------------------------------------------------
(* A payment as the sequence of what is paid after each rule.               *)

Paying(g, o, units, n, seq) ==
  /\ g \in [0..n -> Purse]
  /\ g[0] = [now |-> progress, plan |-> progress, paid |-> {}]
  /\ g[n] = FoldLeft(LAMBDA payment, r : PayRule(o, units, payment, r), g[0], seq)
  /\ \A m \in 1..n : g[m] = PayRule(o, units, g[m - 1], seq[m])

LEMMA PaymentTrace ==
  ASSUME TypeInv, NEW o \in Offer, NEW units, IsAsked(units), NEW n \in Nat, NEW seq,
         DOMAIN seq = 1..n, \A i \in 1..n : seq[i] \in DOMAIN units
  PROVE  \E g : Paying(g, o, units, n, seq)
<1> DEFINE base == [now |-> progress, plan |-> progress, paid |-> {}]
           Folds(iter) ==
             iter = [t \in SUBSET (1..n) |->
                       IF t = {} THEN base
                       ELSE PayRule(o, units, iter[t \ {Greatest(t)}], seq[Greatest(t)])]
<1>1. FoldLeft(LAMBDA payment, r : PayRule(o, units, payment, r), base, seq)
        = (CHOOSE iter : Folds(iter))[1..n]
  BY Zenon DEF FoldLeft, MapThenFoldSet, Max, Greatest
<1>2. base \in Purse
  BY DEF Purse, TypeInv
<1>3. ASSUME NEW v \in Purse, NEW i \in 1..n PROVE PayRule(o, units, v, seq[i]) \in Purse
  <2>1. seq[i] \in DOMAIN units
    OBVIOUS
  <2> QED
    BY <2>1, PayRuleFacts
<1> HIDE DEF base
<1> DEFINE chosen == CHOOSE iter : Folds(iter)
<1>4. Folds(chosen)
  <2> DEFINE step == [p \in Purse \X (1..n) |-> PayRule(o, units, p[1], seq[p[2]])]
  <2>1. \A v \in Purse, i \in 1..n : step[<<v, i>>] = PayRule(o, units, v, seq[i])
    OBVIOUS
  <2> HIDE DEF step
  <2>2. \A v \in Purse, i \in 1..n : step[<<v, i>>] \in Purse
    BY <1>3, <2>1
  <2>3. PICK iter \in [SUBSET (1..n) -> Purse] : FoldsUp(iter, n, base, step)
    BY <1>2, <2>2, FoldExists
  <2>4. \A t \in SUBSET (1..n) : t # {} => Greatest(t) \in 1..n
    BY GreatestIsMember
  <2>5. \A t \in SUBSET (1..n) : t # {} =>
          step[<<iter[t \ {Greatest(t)}], Greatest(t)>>]
            = PayRule(o, units, iter[t \ {Greatest(t)}], seq[Greatest(t)])
    BY <2>1, <2>3, <2>4
  <2>6. Folds(iter)
    BY <2>3, <2>5 DEF FoldsUp
  <2> QED
    BY <2>6
<1> HIDE DEF chosen
<1>5. ASSUME NEW m \in 1..n
      PROVE  chosen[1..m] = PayRule(o, units, chosen[1..(m - 1)], seq[m])
  <2>1. m \in Nat \ {0} /\ 1..m \in SUBSET (1..n)
    OBVIOUS
  <2>2. Greatest(1..m) = m /\ (1..m) \ {m} = 1..(m - 1) /\ 1..m # {}
    BY <2>1, GreatestOfInterval
  <2> QED
    BY <1>4, <2>1, <2>2
<1>6. chosen[1..0] = base
  BY <1>4
<1> DEFINE g == [m \in 0..n |-> chosen[1..m]]
           Typed == {m \in 0..n : g[m] \in Purse}
<1>7. g[0] = base /\ g[n] = chosen[1..n]
  BY <1>6
<1>8. \A m \in 1..n : g[m] = PayRule(o, units, g[m - 1], seq[m])
  BY <1>5
<1> HIDE DEF g
<1>9. \A m \in 0..n : m \in Typed
  <2>1. 0 \in Typed
    BY <1>2, <1>7
  <2>2. ASSUME NEW m \in 1..n, m - 1 \in Typed PROVE m \in Typed
    <3>1. m - 1 \in 0..n /\ g[m - 1] \in Purse /\ m \in 0..n
      BY <2>2
    <3> QED
      BY <1>3, <1>8, <3>1
  <2> HIDE DEF Typed
  <2> QED
    BY <2>1, <2>2, RangeInduction
<1>10. g \in [0..n -> Purse]
  BY <1>9 DEF g
<1> QED
  BY <1>1, <1>7, <1>8, <1>10 DEF chosen, base, Paying

-----------------------------------------------------------------------------
(* What a whole payment leaves.                                             *)

PaymentInv(o, pay) ==
  /\ pay \in Purse /\ IsFiniteSet(Earned(pay.paid))
  /\ \A x, y \in pay.paid : x[1] = y[1] => x = y
  /\ \A k \in Key : KeyInv(k, o, pay)

LEMMA CappedIsAsked ==
  ASSUME TypeInv, NEW o \in Offer
  PROVE  IsAsked(Capped(o))
<1> DEFINE all == [r \in DOMAIN o.units |-> AllowedTo(r, progress, o, o.units[r])]
<1>1. ASSUME NEW r \in DOMAIN o.units PROVE all[r] \in Nat /\ r \in DOMAIN Reward
  <2>1. /\ o.amount \in Nat \ {0} /\ o.units[r] \in Nat /\ r \in DOMAIN Reward
        /\ Reward[r].caps \in SUBSET CapRecord /\ progress \in [Key -> Use]
    BY PlanAssumption DEF TypeInv
  <2>2. Allowed(Reward[r].caps, progress, o.period, o.units[r], o.amount) \in Nat
    BY <2>1, AllowedIsLeast
  <2> QED
    BY <2>1, <2>2 DEF AllowedTo
<1>2. Capped(o) = Restrict(all, {r \in DOMAIN all : all[r] > 0})
  BY DEF Capped
<1>3. DOMAIN all = DOMAIN o.units
  OBVIOUS
<1> HIDE DEF all
<1> QED
  BY <1>1, <1>2, <1>3 DEF Restrict, IsAsked

(* The rules that are paid, each of them once.                              *)
LEMMA SelectedOnce ==
  ASSUME NEW units, IsAsked(units)
  PROVE  LET selected == Resolve(Candidates(units), Ascending(DOMAIN units))
             n == Cardinality(selected)
         IN /\ n \in Nat /\ Ascending(selected) \in [1..n -> DOMAIN units]
            /\ \A i, j \in 1..n : Ascending(selected)[i] = Ascending(selected)[j] => i = j
<1> DEFINE ids == DOMAIN units
           s == Candidates(units)
           selected == Resolve(s, Ascending(ids))
           n == Cardinality(ids)
<1>1. ids \in SUBSET Int /\ IsFiniteSet(ids)
  BY PlanAssumption, FS_Subset DEF IsAsked
<1>2. DOMAIN s = ids /\ \A r \in ids : s[r] = [Reward[r].stacking EXCEPT !.value = units[r]]
  BY DEF Candidates
<1>3. ASSUME NEW r \in ids PROVE s[r].conflicts \subseteq Int /\ IsFiniteSet(s[r].conflicts)
  <2>1. r \in DOMAIN Reward
    BY DEF IsAsked
  <2>2. /\ "conflicts" \in DOMAIN Reward[r].stacking
        /\ Reward[r].stacking.conflicts \subseteq Int
        /\ IsFiniteSet(Reward[r].stacking.conflicts)
    BY <2>1, PlanAssumption
  <2>3. s[r].conflicts = Reward[r].stacking.conflicts
    BY <1>2, <2>2
  <2> QED
    BY <2>2, <2>3
<1>4. n \in Nat /\ DOMAIN Ascending(ids) = 1..n
  BY <1>1, AscendingIds
<1> HIDE DEF ids, s, n
<1>5. selected \subseteq ids
  <2> DEFINE seq == Ascending(ids)
  <2>1. DOMAIN seq = 1..n
    BY <1>4
  <2> HIDE DEF seq
  <2>2. Resolve(s, seq) \subseteq DOMAIN s
    BY <1>1, <1>2, <1>3, <1>4, <2>1, ResolveChooses
  <2> QED
    BY <1>2, <2>2 DEF seq
<1> HIDE DEF selected
<1>6. selected \in SUBSET Int /\ IsFiniteSet(selected)
  BY <1>1, <1>5, FS_Subset
<1>7. /\ Cardinality(selected) \in Nat
      /\ Ascending(selected) \in [1..Cardinality(selected) -> selected]
      /\ \A i, j \in 1..Cardinality(selected) :
           Ascending(selected)[i] = Ascending(selected)[j] => i = j
  BY <1>6, AscendingIds
<1> QED
  BY <1>5, <1>7 DEF selected, s, ids

LEMMA PaymentHolds ==
  ASSUME TypeInv, ComponentInv, CapInv, NEW o \in Offer
  PROVE  PaymentInv(o, Payment(o))
<1> DEFINE units == Capped(o)
           selected == Resolve(Candidates(units), Ascending(DOMAIN units))
           seq == Ascending(selected)
           n == Cardinality(selected)
           base == [now |-> progress, plan |-> progress, paid |-> {}]
<1>1. IsAsked(units)
  BY CappedIsAsked
<1>2. Payment(o) = FoldLeft(LAMBDA payment, r : PayRule(o, units, payment, r), base, seq)
  BY DEF Payment
<1> HIDE DEF units
<1>3. /\ n \in Nat /\ seq \in [1..n -> DOMAIN units]
      /\ \A i, j \in 1..n : seq[i] = seq[j] => i = j
  BY <1>1, SelectedOnce
<1> HIDE DEF seq, n, selected
<1>4. DOMAIN seq = 1..n /\ \A i \in 1..n : seq[i] \in DOMAIN units
  BY <1>3
<1>5. PICK g : Paying(g, o, units, n, seq)
  BY <1>1, <1>3, <1>4, PaymentTrace
<1>6. /\ g \in [0..n -> Purse] /\ g[0] = base
      /\ g[n] = Payment(o)
      /\ \A m \in 1..n : g[m] = PayRule(o, units, g[m - 1], seq[m])
  BY <1>2, <1>5 DEF Paying
<1> DEFINE Good(m) ==
      /\ PaymentInv(o, g[m])
      /\ \A x \in g[m].paid : \E i \in 1..m : x[1] = seq[i]
<1>7. Good(0)
  <2>1. g[0].paid = {} /\ g[0].now = progress /\ g[0].plan = progress /\ g[0] \in Purse
    <3>1. base.paid = {} /\ base.now = progress /\ base.plan = progress
      OBVIOUS
    <3>2. 0 \in 0..n
      BY <1>3
    <3> HIDE DEF base
    <3> QED
      BY <1>6, <3>1, <3>2
  <2>2. Earned(g[0].paid) = {}
    BY <2>1 DEF Earned
  <2>3. ASSUME NEW k \in Key PROVE KeyInv(k, o, g[0])
    <3>1. On(k, Earned(g[0].paid)) = {} /\ Lasting(k, g[0]) = Credits(RulesOn(k))
      BY <2>2 DEF On, Lasting
    <3>2. LimitsUnits(k, FALSE) /\ InPeriod(k) => KeyHolds(k, reported, progress[k], Credits(RulesOn(k)))
      BY DEF CapInv
    <3>3. LimitsUnits(k, FALSE) /\ InPeriod(k) => KeyHolds(k, reported, g[0].now[k], Lasting(k, g[0]))
      BY <2>1, <3>1, <3>2, Zenon
    <3>4. /\ LimitsUnits(k, TRUE) => progress[k] = reported[k]
          /\ CapsOn(k) = {} => progress[k] = reported[k]
      BY DEF CapInv
    <3>5. LimitsUnits(k, TRUE) => KeyHolds(k, reported, g[0].now[k], On(k, Earned(g[0].paid)))
      BY <2>1, <3>1, <3>4, Zenon DEF KeyHolds
    <3> QED
      BY <2>1, <3>3, <3>4, <3>5 DEF KeyInv
  <2>4. IsFiniteSet(Earned(g[0].paid))
    BY <2>2, FS_EmptySet
  <2> QED
    BY <2>1, <2>3, <2>4 DEF PaymentInv
<1>8. ASSUME NEW m \in 1..n, Good(m - 1) PROVE Good(m)
  <2> DEFINE pay == g[m - 1]
             r == seq[m]
             left == AllowedTo(r, pay.now, o, units[r])
             next == PayRule(o, units, pay, r)
  <2>1. g[m] = next /\ PaymentInv(o, pay) /\ r \in DOMAIN units /\ pay \in Purse
    BY <1>4, <1>6, <1>8 DEF PaymentInv
  <2>2. \A x \in pay.paid : \E i \in 1..(m - 1) : x[1] = seq[i]
    BY <1>8
  <2>3. \A x \in pay.paid : x[1] # r
    <3>1. \A i \in 1..(m - 1) : seq[i] # seq[m]
      BY <1>3
    <3> QED
      BY <2>2, <3>1
  <2>4. r = seq[m]
    OBVIOUS
  <2> HIDE DEF pay, r
  <2>5. /\ next \in Purse
        /\ left = 0 => next = pay
        /\ left # 0 => next.paid = pay.paid \cup {<<r, left>>}
    BY <1>1, <2>1, PayRuleFacts
  <2>6. ASSUME NEW k \in Key PROVE IsFiniteSet(Earned(next.paid)) /\ KeyInv(k, o, next)
    <3>1. IsFiniteSet(Earned(pay.paid)) /\ \A q \in Key : KeyInv(q, o, pay)
      BY <2>1 DEF PaymentInv
    <3> QED
      BY <1>1, <2>1, <3>1, PayRuleKeepsKey
  <2>7. IsFiniteSet(Earned(next.paid))
    <3>1. CASE left = 0
      BY <2>1, <2>5, <3>1 DEF PaymentInv
    <3>2. CASE left # 0
      <4>1. Earned(next.paid) = Earned(pay.paid) \cup {CreditOf(<<r, left>>)}
        BY <2>5, <3>2 DEF Earned
      <4>2. IsFiniteSet(Earned(pay.paid) \cup {CreditOf(<<r, left>>)})
        BY <2>1, FS_AddElement DEF PaymentInv
      <4> QED
        BY <4>1, <4>2
    <3> QED
      BY <3>1, <3>2
  <2> HIDE DEF next, left
  <2>8. \A x, y \in next.paid : x[1] = y[1] => x = y
    BY <2>1, <2>3, <2>5 DEF PaymentInv
  <2>9. \A x \in next.paid : x \in pay.paid \/ x[1] = seq[m]
    BY <2>4, <2>5
  <2>10. \A x \in next.paid : \E i \in 1..m : x[1] = seq[i]
    <3>1. m \in 1..m /\ \A i \in 1..(m - 1) : i \in 1..m
      OBVIOUS
    <3> QED
      BY <2>2, <2>9, <3>1
  <2> QED
    BY <2>1, <2>5, <2>6, <2>7, <2>8, <2>10 DEF PaymentInv
<1>9. Good(n)
  <2> DEFINE S == {m \in 0..n : Good(m)}
  <2> HIDE DEF Good
  <2>1. 0 \in S
    BY <1>3, <1>7
  <2>2. \A m \in 1..n : m - 1 \in S => m \in S
    BY <1>3, <1>8
  <2> HIDE DEF S
  <2>3. \A m \in 0..n : m \in S
    BY <1>3, <2>1, <2>2, RangeInduction
  <2> QED
    BY <1>3, <2>3 DEF S
<1> QED
  BY <1>6, <1>9

-----------------------------------------------------------------------------
(* Operations are only added.                                               *)

LEMMA OperationsGrow ==
  ASSUME TypeInv, NEW op \in Operation, operations' = Append(operations, op)
  PROVE  /\ operations' \in Seq(Operation) /\ Current \in Nat
         /\ Current \notin DOMAIN operations
         /\ DOMAIN operations' = DOMAIN operations \cup {Current}
         /\ \A j \in DOMAIN operations : operations'[j] = operations[j]
         /\ operations'[Current] = op
         /\ \A j \in DOMAIN operations : operations[j] \in Operation
         /\ DOMAIN operations \subseteq Nat /\ IsFiniteSet(DOMAIN operations)
<1>1. operations \in Seq(Operation) /\ Len(operations) \in Nat
  BY DEF TypeInv
<1>2. DOMAIN operations = 1..Len(operations) /\ IsFiniteSet(1..Len(operations))
  BY <1>1, FS_Interval
<1>3. Current \notin DOMAIN operations /\ Current \in Nat
  BY <1>1, <1>2 DEF Current
<1>4. DOMAIN operations' = 1..(Len(operations) + 1)
  BY <1>1
<1>5. \A j \in DOMAIN operations : operations'[j] = operations[j] /\ operations[j] \in Operation
  BY <1>1
<1>6. operations'[Current] = op
  BY <1>1 DEF Current
<1>7. DOMAIN operations' = DOMAIN operations \cup {Current}
  BY <1>1, <1>2, <1>4 DEF Current
<1> QED
  BY <1>1, <1>2, <1>3, <1>5, <1>6, <1>7

(* What was paid by operations that were there before.                      *)
LEMMA SumsAreKept ==
  ASSUME TypeInv, NEW op \in Operation, operations' = Append(operations, op),
         NEW S \in SUBSET (DOMAIN operations)
  PROVE  /\ SumFunctionOnSet(Amount, S) \in Nat
         /\ SumFunctionOnSet(Amount', S) = SumFunctionOnSet(Amount, S)
         /\ SumFunctionOnSet(Amount', S \cup {Current}) = op.amount + SumFunctionOnSet(Amount, S)
<1>1. /\ Current \notin DOMAIN operations
      /\ DOMAIN operations' = DOMAIN operations \cup {Current}
      /\ \A j \in DOMAIN operations : operations'[j] = operations[j]
      /\ operations'[Current] = op
      /\ \A j \in DOMAIN operations : operations[j] \in Operation
      /\ IsFiniteSet(DOMAIN operations)
  BY OperationsGrow
<1> DEFINE w == Amount
           v == Amount'
<1>2. /\ \A j \in S : w[j] \in Nat /\ w[j] = v[j] /\ v[j] \in Nat
      /\ v[Current] = op.amount /\ op.amount \in Nat
  BY <1>1 DEF Amount, Operation
<1>3. IsFiniteSet(S) /\ Current \notin S
  BY <1>1, FS_Subset
<1>4. SumFunctionOnSet(Amount, S) = SumFunctionOnSet(w, S)
      /\ SumFunctionOnSet(Amount', S) = SumFunctionOnSet(v, S)
      /\ SumFunctionOnSet(Amount', S \cup {Current}) = SumFunctionOnSet(v, S \cup {Current})
  OBVIOUS
<1> HIDE DEF w, v
<1>5. SumFunctionOnSet(w, S) \in Nat
  BY <1>2, <1>3, SumRecursion
<1>6. SumFunctionOnSet(w, S) = SumFunctionOnSet(v, S)
  BY <1>2, <1>3, SumSame
<1>7. SumFunctionOnSet(v, S \cup {Current}) = v[Current] + SumFunctionOnSet(v, S)
  BY <1>2, <1>3, SumWith
<1> QED
  BY <1>2, <1>4, <1>5, <1>6, <1>7

LEMMA AcceptedAreOperations ==
  ASSUME ComponentInv, NEW i
  PROVE  /\ Accepted(i) \subseteq {j \in DOMAIN operations : operations[j].original = i}
         /\ i \notin DOMAIN operations => Accepted(i) = {}
BY DEF ComponentInv, Accepted

-----------------------------------------------------------------------------
(* The inductive invariant holds at first.                                  *)

LEMMA InitPlan == Init => PlanInv
<1> SUFFICES ASSUME Init PROVE PlanInv
  OBVIOUS
<1>1. /\ reported \in [Key -> Use] /\ progress = reported
      /\ operations = <<>> /\ rewards = {}
  BY PlanAssumption DEF Init, Use
<1>2. TypeInv
  BY <1>1, FS_EmptySet DEF TypeInv
<1>3. ComponentInv
  BY <1>1 DEF ComponentInv
<1>4. CapInv
  <2>1. \A k \in Key : Credits(RulesOn(k)) = {}
    BY <1>1 DEF Credits
  <2>2. DOMAIN operations = {}
    BY <1>1
  <2> QED
    BY <1>1, <2>1, <2>2 DEF CapInv, KeyHolds
<1>5. ShareInv
  BY <1>1 DEF ShareInv
<1> QED
  BY <1>2, <1>3, <1>4, <1>5 DEF PlanInv

-----------------------------------------------------------------------------
(* A purchase.                                                              *)

LEMMA PurchaseFacts ==
  ASSUME PlanInv, NEW o \in Offer, Purchase(o)
  PROVE  \E pay : \E op \in Operation :
           /\ PaymentInv(o, pay)
           /\ op.kind = "purchase" /\ op.period = o.period
           /\ operations' = Append(operations, op)
           /\ progress' = pay.plan /\ rewards' = rewards \cup Earned(pay.paid)
           /\ reported' = reported
<1> DEFINE pay == Payment(o)
           op == [kind |-> "purchase", amount |-> o.amount, period |-> o.period, original |-> 0]
<1>1. PaymentInv(o, pay)
  BY PaymentHolds DEF PlanInv
<1>2. op \in Operation
  BY PlanAssumption DEF Operation
<1>3. /\ operations' = Append(operations, op)
      /\ progress' = pay.plan /\ reported' = reported
      /\ rewards' = rewards \cup Earned(pay.paid)
  BY DEF Purchase, Earned, CreditOf
<1> QED
  BY <1>1, <1>2, <1>3

LEMMA PurchaseKeeps ==
  ASSUME PlanInv, NEW o \in Offer, Purchase(o)
  PROVE  PlanInv'
<1>1. PICK pay : \E op \in Operation :
        /\ PaymentInv(o, pay)
        /\ op.kind = "purchase" /\ op.period = o.period
        /\ operations' = Append(operations, op)
        /\ progress' = pay.plan /\ rewards' = rewards \cup Earned(pay.paid)
        /\ reported' = reported
  BY PurchaseFacts
<1>2. PICK op \in Operation :
        /\ PaymentInv(o, pay)
        /\ op.kind = "purchase" /\ op.period = o.period
        /\ operations' = Append(operations, op)
        /\ progress' = pay.plan /\ rewards' = rewards \cup Earned(pay.paid)
        /\ reported' = reported
  BY <1>1
<1> DEFINE earned == Earned(pay.paid)
<1>3. TypeInv /\ ComponentInv /\ CapInv /\ ShareInv
  BY DEF PlanInv
<1>4. /\ operations' \in Seq(Operation) /\ Current \in Nat
      /\ Current \notin DOMAIN operations
      /\ DOMAIN operations' = DOMAIN operations \cup {Current}
      /\ \A j \in DOMAIN operations : operations'[j] = operations[j]
      /\ operations'[Current] = op
      /\ \A j \in DOMAIN operations : operations[j] \in Operation
  BY <1>2, <1>3, OperationsGrow
<1>5. /\ earned \in SUBSET Component /\ IsFiniteSet(earned)
      /\ \A e \in earned : e.sign = "credit" /\ e.operation = Current /\ e.of = Current
      /\ \A e, f \in earned : e.rule = f.rule => e = f
  <2>1. pay \in Purse /\ IsFiniteSet(earned) /\ \A x, y \in pay.paid : x[1] = y[1] => x = y
    BY <1>2 DEF PaymentInv
  <2>2. \A x \in pay.paid : CreditOf(x) \in Component
    BY <1>4, <2>1 DEF CreditOf, Purse, Component
  <2>3. \A x \in pay.paid : /\ CreditOf(x).sign = "credit" /\ CreditOf(x).operation = Current
                            /\ CreditOf(x).of = Current /\ CreditOf(x).rule = x[1]
    BY DEF CreditOf
  <2> QED
    BY <2>1, <2>2, <2>3 DEF Earned
<1>6. rewards' = rewards \cup earned
  BY <1>2
<1> HIDE DEF earned
<1>7. TypeInv'
  <2>1. IsFiniteSet(rewards \cup earned)
    BY <1>3, <1>5, FS_Union DEF TypeInv
  <2>2. progress' \in [Key -> Use] /\ reported' \in [Key -> Use]
    BY <1>2, <1>3 DEF TypeInv, PaymentInv, Purse
  <2> QED
    BY <1>3, <1>4, <1>5, <1>6, <2>1, <2>2 DEF TypeInv
<1>8. ComponentInv'
  <2>1. \A c \in rewards : c.operation \in DOMAIN operations /\ c.of \in DOMAIN operations
    BY <1>3 DEF ComponentInv
  <2>2. ASSUME NEW c \in rewards'
        PROVE  /\ c.operation \in DOMAIN operations' /\ c.of \in DOMAIN operations'
               /\ operations'[c.of].kind = "purchase"
               /\ c.sign = "credit" => c.of = c.operation
               /\ c.sign = "debit" => /\ operations'[c.operation].kind # "purchase"
                                      /\ operations'[c.operation].original = c.of
    <3>1. CASE c \in rewards
      BY <1>3, <1>4, <2>1, <3>1 DEF ComponentInv
    <3>2. CASE c \in earned
      BY <1>2, <1>4, <1>5, <3>2
    <3> QED
      BY <1>6, <3>1, <3>2
  <2>3. ASSUME NEW c \in rewards', NEW d \in rewards', c.operation = d.operation, c.rule = d.rule
        PROVE  c = d
    <3>1. CASE c \in rewards /\ d \in rewards
      BY <1>3, <2>3, <3>1 DEF ComponentInv
    <3>2. CASE c \in earned /\ d \in earned
      BY <1>5, <2>3, <3>2
    <3> QED
      BY <1>4, <1>5, <1>6, <2>1, <2>3, <3>1, <3>2
  <2> QED
    BY <2>2, <2>3 DEF ComponentInv
<1>9. CapInv'
  <2> SUFFICES ASSUME NEW k \in Key
               PROVE  /\ CapsOn(k) = {} => progress'[k] = reported'[k]
                      /\ LimitsUnits(k, FALSE) /\ InPeriod(k)' =>
                           KeyHolds(k, reported', progress'[k], Credits(RulesOn(k))')
                      /\ LimitsUnits(k, TRUE) =>
                           /\ progress'[k] = reported'[k]
                           /\ Reports(k)' = {NoProgress} =>
                                \A i \in DOMAIN operations' :
                                  Units({c \in Credits(RulesOn(k))' : c.operation = i}) <= Limit(k)
    BY DEF CapInv
  <2> DEFINE old == Credits(RulesOn(k))
             new == Credits(RulesOn(k))'
             here == On(k, earned)
  <2>1. new = Lasting(k, pay)
    <3>1. new = old \cup here
      BY <1>5, <1>6 DEF Credits, On, RulesOn
    <3> QED
      BY <3>1 DEF Lasting, earned
  <2>2. KeyInv(k, o, pay)
    BY <1>2 DEF PaymentInv
  <2>3. /\ progress'[k] = pay.plan[k] /\ reported' = reported
        /\ Reports(k)' = Reports(k)
    BY <1>2 DEF Reports
  <2>4. ASSUME LimitsUnits(k, FALSE), InPeriod(k)'
        PROVE  KeyHolds(k, reported', progress'[k], new)
    <3>1. InPeriod(k)
      <4>1. \A c \in old : c \in new /\ operations'[c.operation] = operations[c.operation]
        BY <1>3, <1>4, <1>6 DEF Credits, RulesOn, ComponentInv
      <4> QED
        BY <2>3, <2>4, <4>1 DEF InPeriod
    <3>2. KeyHolds(k, reported, pay.plan[k], Lasting(k, pay))
      <4>1. CASE here = {}
        <5>1. Lasting(k, pay) = old
          BY <4>1 DEF Lasting, earned
        <5>2. KeyHolds(k, reported, progress[k], old)
          BY <1>3, <2>4, <3>1 DEF CapInv
        <5>3. pay.plan[k] = progress[k]
          BY <2>2, <2>4, <4>1 DEF KeyInv, earned
        <5> QED
          BY <5>1, <5>2, <5>3, Zenon
      <4>2. CASE here # {}
        <5>1. PICK e \in here : TRUE
          BY <4>2
        <5>2. e \in Credits(RulesOn(k))' /\ e.operation = Current
          BY <1>5, <1>6 DEF On, Credits, RulesOn
        <5>3. SamePeriod(k, o)
          BY <1>2, <1>4, <2>3, <2>4, <5>2 DEF InPeriod, SamePeriod
        <5>4. pay.plan[k] = pay.now[k] /\ KeyHolds(k, reported, pay.now[k], Lasting(k, pay))
          BY <2>2, <2>4, <3>1, <5>3 DEF KeyInv
        <5> QED
          BY <5>4, Zenon
      <4> QED
        BY <4>1, <4>2
    <3> HIDE DEF new
    <3> QED
      BY <2>1, <2>3, <3>2, Zenon
  <2>5. ASSUME LimitsUnits(k, TRUE)
        PROVE  /\ progress'[k] = reported'[k]
               /\ Reports(k)' = {NoProgress} =>
                    \A i \in DOMAIN operations' : Units({c \in new : c.operation = i}) <= Limit(k)
    <3>1. progress'[k] = reported'[k]
      BY <1>3, <2>2, <2>3, <2>5 DEF KeyInv, CapInv
    <3>2. ASSUME Reports(k)' = {NoProgress}, NEW i \in DOMAIN operations'
          PROVE  Units({c \in new : c.operation = i}) <= Limit(k)
      <4>1. \A c \in old : c.operation \in DOMAIN operations
        BY <1>3 DEF Credits, ComponentInv
      <4>2. \A c \in here : c.operation = Current
        BY <1>5 DEF On
      <4>3. new = old \cup here
        BY <2>1 DEF Lasting, earned
      <4>4. Units(here) <= Limit(k)
        <5>1. KeyHolds(k, reported, pay.now[k], here)
          BY <2>2, <2>3, <2>5, <3>2 DEF KeyInv, earned
        <5>2. \A d \in CapsOn(k) : Seen(reported, d) = NoProgress
          BY <2>3, <3>2 DEF Reports
        <5>3. Limit(k) \in Nat
          BY <2>5, LimitIsGreatest DEF LimitsUnits
        <5>4. here \in SUBSET Component /\ IsFiniteSet(here)
          BY <1>5, FS_Subset DEF On
        <5> HIDE DEF here
        <5>5. Units(here) \in Nat /\ (here = {} => Units(here) = 0)
          BY <5>4, UnitsType, UnitsOfNone
        <5>6. Backed(k, reported, pay.now[k], here) => Units(here) <= Left(Limit(k), 0)
          BY <5>2 DEF Backed, Spent
        <5> QED
          BY <5>1, <5>3, <5>5, <5>6 DEF KeyHolds, Left, Positive
      <4>5. i # Current => Units({c \in old : c.operation = i}) <= Limit(k)
        BY <1>3, <1>4, <2>3, <2>5, <3>2 DEF CapInv
      <4> HIDE DEF old, new, here
      <4>6. CASE i = Current
        <5>1. {c \in new : c.operation = i} = here
          BY <1>4, <4>1, <4>2, <4>3, <4>6
        <5> QED
          BY <4>4, <5>1, Zenon
      <4>7. CASE i # Current
        <5>1. {c \in new : c.operation = i} = {c \in old : c.operation = i}
          BY <4>2, <4>3, <4>7
        <5> QED
          BY <4>5, <4>7, <5>1, Zenon
      <4> QED
        BY <4>6, <4>7
    <3> QED
      BY <3>1, <3>2
  <2>6. CapsOn(k) = {} => progress'[k] = reported'[k]
    BY <2>2, <2>3 DEF KeyInv
  <2> QED
    BY <2>4, <2>5, <2>6
<1>10. ShareInv'
  <2>1. \A i, r : DebitsOf(i, r)' = DebitsOf(i, r)
    BY <1>5, <1>6 DEF DebitsOf
  <2>2. \A i : Accepted(i)' = Accepted(i)
    BY <1>5, <1>6 DEF Accepted
  <2>3. ASSUME NEW i
        PROVE  /\ SumFunctionOnSet(Amount', Accepted(i)') = SumFunctionOnSet(Amount, Accepted(i))
               /\ i \notin DOMAIN operations => SumFunctionOnSet(Amount, Accepted(i)) = 0
    <3> DEFINE S == Accepted(i)
    <3>1. S \in SUBSET (DOMAIN operations) /\ (i \notin DOMAIN operations => S = {})
      BY <1>3, AcceptedAreOperations
    <3>2. Accepted(i)' = S
      BY <2>2
    <3> HIDE DEF S
    <3>3. SumFunctionOnSet(Amount', S) = SumFunctionOnSet(Amount, S)
      BY <1>2, <1>3, <3>1, SumsAreKept
    <3>4. i \notin DOMAIN operations => SumFunctionOnSet(Amount, S) = 0
      BY <3>1, SumOfNone
    <3> QED
      BY <3>2, <3>3, <3>4, Zenon DEF S
  <2>4. ASSUME NEW i \in DOMAIN operations'
        PROVE  SumFunctionOnSet(Amount', Accepted(i)') <= operations'[i].amount
    <3>1. CASE i \in DOMAIN operations
      BY <1>3, <1>4, <2>3, <3>1 DEF ShareInv
    <3>2. CASE i = Current
      <4>1. operations'[i].amount \in Nat
        BY <1>4, <3>2 DEF Operation
      <4>2. SumFunctionOnSet(Amount', Accepted(i)') = 0
        BY <1>4, <2>3, <3>2
      <4> QED
        BY <4>1, <4>2
    <3> QED
      BY <1>4, <3>1, <3>2
  <2>5. ASSUME NEW c \in rewards', c.sign = "credit", Reward[c.rule].clawback # "full"
        PROVE  Units(DebitsOf(c.operation, c.rule)') * operations'[c.operation].amount
                 <= c.units * SumFunctionOnSet(Amount', Accepted(c.operation)')
    <3>1. CASE c \in rewards
      <4>1. c.operation \in DOMAIN operations
        BY <1>3, <3>1 DEF ComponentInv
      <4>2. Units(DebitsOf(c.operation, c.rule)) * operations[c.operation].amount
              <= c.units * SumFunctionOnSet(Amount, Accepted(c.operation))
        BY <1>3, <2>5, <3>1 DEF ShareInv
      <4>3. /\ Units(DebitsOf(c.operation, c.rule)') = Units(DebitsOf(c.operation, c.rule))
            /\ operations'[c.operation] = operations[c.operation]
            /\ SumFunctionOnSet(Amount', Accepted(c.operation)')
                 = SumFunctionOnSet(Amount, Accepted(c.operation))
        BY <1>4, <2>1, <2>3, <4>1, Zenon
      <4> QED
        BY <4>2, <4>3
    <3>2. CASE c \in earned
      <4>1. c.operation = Current /\ Current \notin DOMAIN operations /\ c.units \in Nat
        BY <1>4, <1>5, <3>2 DEF Component
      <4>2. SumFunctionOnSet(Amount', Accepted(c.operation)') = 0
        BY <2>3, <4>1
      <4>3. DebitsOf(c.operation, c.rule) = {}
        BY <1>3, <4>1 DEF DebitsOf, ComponentInv
      <4>4. Units(DebitsOf(c.operation, c.rule)') = 0
        BY <2>1, <4>3, UnitsOfNone, Zenon
      <4>5. operations'[c.operation].amount \in Nat
        BY <1>4, <4>1 DEF Operation
      <4> QED
        BY <4>1, <4>2, <4>4, <4>5
    <3> QED
      BY <1>6, <3>1, <3>2
  <2> QED
    BY <2>4, <2>5 DEF ShareInv
<1> QED
  BY <1>7, <1>8, <1>9, <1>10 DEF PlanInv

-----------------------------------------------------------------------------
(* A refund or a reversal, accepted or not.                                 *)

(* A debit takes back no more of what was earned than was refunded of what  *)
(* was paid.                                                                *)
LEMMA ClawbackShare ==
  ASSUME NEW policy \in {"full", "proportional"}, NEW units \in Nat,
         NEW refunded \in Nat, NEW paid \in Nat \ {0}
  PROVE  /\ Clawback(policy, units, refunded, paid) \in Nat
         /\ (policy = "full" => refunded = paid) =>
              Clawback(policy, units, refunded, paid) * paid <= units * refunded
<1> DEFINE product == units * refunded
           part == product \div paid
<1>1. product \in Nat
  OBVIOUS
<1>2. CASE policy = "full"
  <2>1. Clawback(policy, units, refunded, paid) = units
    BY <1>2 DEF Clawback
  <2>2. refunded = paid => units * paid <= units * refunded
    OBVIOUS
  <2> QED
    BY <1>2, <2>1, <2>2
<1>3. CASE policy = "proportional"
  <2>1. Clawback(policy, units, refunded, paid) = part
    BY <1>3 DEF Clawback
  <2> HIDE DEF product
  <2>2. part \in Nat /\ part * paid <= product
    BY <1>1
  <2> QED
    BY <2>1, <2>2 DEF product
<1> QED
  BY <1>2, <1>3

(* Shares add up.                                                           *)
LEMMA SharesAdd ==
  ASSUME NEW u \in Nat, NEW v \in Nat, NEW w \in Nat, NEW p \in Nat,
         NEW e \in Nat, NEW s \in Nat, NEW a \in Nat,
         w <= u + v, u * p <= e * s, v * p <= e * a
  PROVE  w * p <= e * (a + s)
<1>1. w * p <= (u + v) * p
  OBVIOUS
<1>2. (u + v) * p = u * p + v * p
  OBVIOUS
<1>3. e * (a + s) = e * a + e * s
  OBVIOUS
<1>4. u * p \in Nat /\ v * p \in Nat /\ w * p \in Nat /\ e * a \in Nat /\ e * s \in Nat
  OBVIOUS
<1> QED
  BY <1>1, <1>2, <1>3, <1>4

(* The debits of an accepted return: one of each credit, and no others.     *)
LEMMA DebitFacts ==
  ASSUME TypeInv, ComponentInv, NEW kind \in {"refund", "reversal"},
         NEW i \in DOMAIN operations, NEW amount \in Nat \ {0}, Returnable(kind, i, amount)
  PROVE  /\ Debits(kind, i, amount) \in SUBSET Component /\ IsFiniteSet(Debits(kind, i, amount))
         /\ \A d \in Debits(kind, i, amount) :
              /\ d.sign = "debit" /\ d.operation = Current /\ d.of = i
              /\ \A c \in rewards :
                   /\ c.operation = i /\ c.rule = d.rule
                   /\ Reward[c.rule].clawback # "full"
                   => d.units * operations[i].amount <= c.units * amount
         /\ \A d, e \in Debits(kind, i, amount) : d.rule = e.rule => d = e
<1> DEFINE Debit(c) ==
             [operation |-> Current, rule |-> c.rule, sign |-> "debit", of |-> i,
              units |-> Clawback(DebitedFor(kind, c.rule), c.units, amount, operations[i].amount)]
           from == {c \in rewards : c.operation = i
                                    /\ DebitedFor(kind, c.rule) \in {"full", "proportional"}}
           paid == operations[i].amount
<1>1. Debits(kind, i, amount) = {Debit(c) : c \in from}
  BY DEF Debits
<1>2. paid \in Nat \ {0} /\ i \in Nat /\ Current \in Nat
  <2>1. operations \in Seq(Operation)
    BY DEF TypeInv
  <2>2. operations[i] \in Operation /\ i \in Nat /\ Len(operations) \in Nat
    BY <2>1
  <2> QED
    BY <2>2 DEF Operation, Current
<1>3. IsFiniteSet(from)
  BY FS_Subset DEF TypeInv
<1>4. ASSUME NEW c \in from
      PROVE  /\ Debit(c) \in Component
             /\ Debit(c).sign = "debit" /\ Debit(c).operation = Current
             /\ Debit(c).of = i /\ Debit(c).rule = c.rule
             /\ Reward[c.rule].clawback # "full" => Debit(c).units * paid <= c.units * amount
  <2> DEFINE policy == DebitedFor(kind, c.rule)
             units == Clawback(policy, c.units, amount, paid)
  <2>1. policy \in {"full", "proportional"} /\ c.units \in Nat /\ c.rule \in DOMAIN Reward
    BY DEF TypeInv, Component
  <2>2. Reward[c.rule].clawback # "full" => (policy = "full" => amount = paid)
    BY DEF DebitedFor, Returnable
  <2>3. Debit(c).units = units
    OBVIOUS
  <2> HIDE DEF policy, paid
  <2>4. /\ units \in Nat
        /\ (policy = "full" => amount = paid) => units * paid <= c.units * amount
    BY <1>2, <2>1, ClawbackShare
  <2> HIDE DEF units
  <2>5. Debit(c) = [operation |-> Current, rule |-> c.rule, sign |-> "debit", of |-> i, units |-> units]
    BY DEF units, policy, paid
  <2> HIDE DEF Debit
  <2> QED
    BY <1>2, <2>1, <2>2, <2>4, <2>5 DEF Component
<1> HIDE DEF Debit
<1>5. \A c, d \in from : c.rule = d.rule => c = d
  BY DEF ComponentInv
<1>6. IsFiniteSet({Debit(c) : c \in from})
  <2> DEFINE debit == [c \in from |-> Debit(c)]
             debits == {Debit(c) : c \in from}
  <2>1. debit \in Surjection(from, debits)
    BY DEF Surjection
  <2> HIDE DEF debit, debits, from
  <2>2. IsFiniteSet(debits)
    BY <1>3, <2>1, FS_Surjection
  <2> QED
    BY <2>2 DEF debits
<1>7. ASSUME NEW d \in Debits(kind, i, amount)
      PROVE  /\ d.sign = "debit" /\ d.operation = Current /\ d.of = i
             /\ \A c \in rewards :
                  /\ c.operation = i /\ c.rule = d.rule
                  /\ Reward[c.rule].clawback # "full"
                  => d.units * paid <= c.units * amount
  <2>1. PICK b \in from : d = Debit(b)
    BY <1>1
  <2>2. \A c \in rewards : c.operation = i /\ c.rule = d.rule => c = b
    BY <1>4, <2>1 DEF ComponentInv
  <2> QED
    BY <1>4, <2>1, <2>2
<1>8. \A d, e \in Debits(kind, i, amount) : d.rule = e.rule => d = e
  BY <1>1, <1>4, <1>5
<1>9. Debits(kind, i, amount) \in SUBSET Component
  BY <1>1, <1>4
<1> QED
  BY <1>1, <1>6, <1>7, <1>8, <1>9

(* What a return does to the tables, debits being none if it is refused.    *)
Taken(kind, i, amount) == IF Returnable(kind, i, amount) THEN Debits(kind, i, amount) ELSE {}

LEMMA ReturnFacts ==
  ASSUME PlanInv, NEW kind \in {"refund", "reversal"}, NEW i \in DOMAIN operations,
         NEW amount \in 1..operations[i].amount, Return(kind, i, amount)
  PROVE  \E op \in Operation :
           /\ op.kind = kind /\ op.amount = amount /\ op.original = i
           /\ operations' = Append(operations, op)
           /\ rewards' = rewards \cup Taken(kind, i, amount)
           /\ progress' = progress /\ reported' = reported
<1> DEFINE op == [kind |-> kind, amount |-> amount, period |-> NoPeriod, original |-> i]
<1>1. operations \in Seq(Operation)
  BY DEF PlanInv, TypeInv
<1>2. i \in Nat /\ operations[i] \in Operation
  BY <1>1
<1>3. op \in Operation
  BY <1>2 DEF Operation
<1>4. rewards' = rewards \cup Taken(kind, i, amount)
  BY DEF Return, Taken
<1>5. operations' = Append(operations, op) /\ progress' = progress /\ reported' = reported
  BY DEF Return
<1> QED
  BY <1>3, <1>4, <1>5

LEMMA ReturnKeeps ==
  ASSUME PlanInv, NEW kind \in {"refund", "reversal"}, NEW i \in DOMAIN operations,
         NEW amount \in 1..operations[i].amount, Return(kind, i, amount)
  PROVE  PlanInv'
<1>1. PICK op \in Operation :
        /\ op.kind = kind /\ op.amount = amount /\ op.original = i
        /\ operations' = Append(operations, op)
        /\ rewards' = rewards \cup Taken(kind, i, amount)
        /\ progress' = progress /\ reported' = reported
  BY ReturnFacts
<1> DEFINE taken == Taken(kind, i, amount)
<1>2. TypeInv /\ ComponentInv /\ CapInv /\ ShareInv
  BY DEF PlanInv
<1>3. /\ operations' \in Seq(Operation) /\ Current \in Nat
      /\ Current \notin DOMAIN operations
      /\ DOMAIN operations' = DOMAIN operations \cup {Current}
      /\ \A j \in DOMAIN operations : operations'[j] = operations[j]
      /\ operations'[Current] = op
      /\ \A j \in DOMAIN operations : operations[j] \in Operation
      /\ IsFiniteSet(DOMAIN operations)
  BY <1>1, <1>2, OperationsGrow
<1>4. amount \in Nat \ {0} /\ operations[i].amount \in Nat \ {0}
  BY <1>3 DEF Operation
<1>5. /\ taken \in SUBSET Component /\ IsFiniteSet(taken)
      /\ \A d \in taken :
           /\ d.sign = "debit" /\ d.operation = Current /\ d.of = i
           /\ operations[i].kind = "purchase"
           /\ Returned(i) + amount <= operations[i].amount
           /\ \A c \in rewards :
                c.operation = i /\ c.rule = d.rule /\ Reward[c.rule].clawback # "full"
                => d.units * operations[i].amount <= c.units * amount
      /\ \A d, e \in taken : d.rule = e.rule => d = e
  <2>1. CASE Returnable(kind, i, amount)
    <3>1. taken = Debits(kind, i, amount)
      BY <2>1 DEF Taken
    <3>2. operations[i].kind = "purchase" /\ Returned(i) + amount <= operations[i].amount
      BY <2>1 DEF Returnable
    <3>3. /\ Debits(kind, i, amount) \in SUBSET Component /\ IsFiniteSet(Debits(kind, i, amount))
          /\ \A d \in Debits(kind, i, amount) :
               /\ d.sign = "debit" /\ d.operation = Current /\ d.of = i
               /\ \A c \in rewards :
                    /\ c.operation = i /\ c.rule = d.rule
                    /\ Reward[c.rule].clawback # "full"
                    => d.units * operations[i].amount <= c.units * amount
          /\ \A d, e \in Debits(kind, i, amount) : d.rule = e.rule => d = e
      BY <1>2, <1>4, <2>1, DebitFacts
    <3> HIDE DEF taken
    <3> QED
      BY <3>1, <3>2, <3>3
  <2>2. CASE ~ Returnable(kind, i, amount)
    <3>1. taken = {}
      BY <2>2 DEF Taken
    <3> HIDE DEF taken
    <3> QED
      BY <3>1, FS_EmptySet
  <2> QED
    BY <2>1, <2>2
<1>6. rewards' = rewards \cup taken
  BY <1>1
<1> HIDE DEF taken
<1>7. \A c \in rewards : c.operation \in DOMAIN operations /\ c.of \in DOMAIN operations
  BY <1>2 DEF ComponentInv
<1>8. TypeInv'
  <2>1. IsFiniteSet(rewards \cup taken)
    BY <1>2, <1>5, FS_Union DEF TypeInv
  <2> QED
    BY <1>1, <1>2, <1>3, <1>5, <1>6, <2>1 DEF TypeInv
<1>9. ComponentInv'
  <2>1. ASSUME NEW c \in rewards'
        PROVE  /\ c.operation \in DOMAIN operations' /\ c.of \in DOMAIN operations'
               /\ operations'[c.of].kind = "purchase"
               /\ c.sign = "credit" => c.of = c.operation
               /\ c.sign = "debit" => /\ operations'[c.operation].kind # "purchase"
                                      /\ operations'[c.operation].original = c.of
    <3>1. CASE c \in rewards
      BY <1>2, <1>3, <1>7, <3>1 DEF ComponentInv
    <3>2. CASE c \in taken
      BY <1>1, <1>3, <1>5, <3>2
    <3> QED
      BY <1>6, <3>1, <3>2
  <2>2. ASSUME NEW c \in rewards', NEW d \in rewards', c.operation = d.operation, c.rule = d.rule
        PROVE  c = d
    <3>1. CASE c \in rewards /\ d \in rewards
      BY <1>2, <2>2, <3>1 DEF ComponentInv
    <3>2. CASE c \in taken /\ d \in taken
      BY <1>5, <2>2, <3>2
    <3> QED
      BY <1>3, <1>5, <1>6, <1>7, <2>2, <3>1, <3>2
  <2> QED
    BY <2>1, <2>2 DEF ComponentInv
<1>10. CapInv'
  <2> SUFFICES ASSUME NEW k \in Key
               PROVE  /\ CapsOn(k) = {} => progress'[k] = reported'[k]
                      /\ LimitsUnits(k, FALSE) /\ InPeriod(k)' =>
                           KeyHolds(k, reported', progress'[k], Credits(RulesOn(k))')
                      /\ LimitsUnits(k, TRUE) =>
                           /\ progress'[k] = reported'[k]
                           /\ Reports(k)' = {NoProgress} =>
                                \A j \in DOMAIN operations' :
                                  Units({c \in Credits(RulesOn(k))' : c.operation = j}) <= Limit(k)
    BY DEF CapInv
  <2> DEFINE old == Credits(RulesOn(k))
             new == Credits(RulesOn(k))'
  <2>1. new = old
    BY <1>5, <1>6 DEF Credits, RulesOn
  <2>2. \A c \in old : c.operation \in DOMAIN operations
    BY <1>7 DEF Credits
  <2>3. Reports(k)' = Reports(k)
    BY <1>1 DEF Reports
  <2>4. InPeriod(k)' => InPeriod(k)
    <3>1. \A c \in old : operations'[c.operation] = operations[c.operation]
      BY <1>3, <2>2
    <3> QED
      BY <2>1, <2>3, <3>1 DEF InPeriod
  <2>5. /\ CapsOn(k) = {} => progress[k] = reported[k]
        /\ LimitsUnits(k, FALSE) /\ InPeriod(k) => KeyHolds(k, reported, progress[k], old)
        /\ LimitsUnits(k, TRUE) =>
             /\ progress[k] = reported[k]
             /\ Reports(k) = {NoProgress} =>
                  \A j \in DOMAIN operations : Units({c \in old : c.operation = j}) <= Limit(k)
    BY <1>2 DEF CapInv
  <2>6. ASSUME LimitsUnits(k, TRUE), NEW j \in DOMAIN operations' \ DOMAIN operations
        PROVE  Units({c \in old : c.operation = j}) <= Limit(k)
    <3>1. {c \in old : c.operation = j} = {}
      BY <2>2, <2>6
    <3>2. Units({c \in old : c.operation = j}) = 0
      BY <3>1, UnitsOfNone, Zenon
    <3>3. Limit(k) \in Nat
      BY <2>6, LimitIsGreatest DEF LimitsUnits
    <3> HIDE DEF old
    <3> QED
      BY <3>2, <3>3
  <2> HIDE DEF old
  <2>7. \A j : {c \in new : c.operation = j} = {c \in old : c.operation = j}
    BY <2>1
  <2>8. \A j : Units({c \in old : c.operation = j}) <= Limit(k)
               => Units({c \in new : c.operation = j}) <= Limit(k)
    BY <2>7, Zenon
  <2>9. LimitsUnits(k, FALSE) /\ InPeriod(k)' => KeyHolds(k, reported', progress'[k], new)
    BY <1>1, <2>1, <2>4, <2>5, Zenon
  <2>10. LimitsUnits(k, TRUE) =>
           /\ progress'[k] = reported'[k]
           /\ Reports(k)' = {NoProgress} =>
                \A j \in DOMAIN operations' : Units({c \in new : c.operation = j}) <= Limit(k)
    BY <1>1, <1>3, <2>3, <2>5, <2>6, <2>8
  <2> QED
    BY <1>1, <2>5, <2>9, <2>10
<1>11. ShareInv'
  <2> DEFINE paid == operations[i].amount
             before(j) == SumFunctionOnSet(Amount, Accepted(j))
             after(j) == SumFunctionOnSet(Amount', Accepted(j)')
  <2>1. ASSUME NEW j
        PROVE  /\ before(j) \in Nat
               /\ j # i \/ taken = {} => after(j) = before(j)
               /\ j = i /\ taken # {} => after(j) = amount + before(j)
               /\ j \notin DOMAIN operations => before(j) = 0
    <3> DEFINE S == Accepted(j)
    <3>1. S \in SUBSET (DOMAIN operations) /\ (j \notin DOMAIN operations => S = {})
      BY <1>2, AcceptedAreOperations
    <3>2. j # i \/ taken = {} => Accepted(j)' = S
      BY <1>5, <1>6 DEF Accepted
    <3>3. j = i /\ taken # {} => Accepted(j)' = S \cup {Current}
      BY <1>5, <1>6 DEF Accepted
    <3> HIDE DEF S
    <3>4. /\ SumFunctionOnSet(Amount, S) \in Nat
          /\ SumFunctionOnSet(Amount', S) = SumFunctionOnSet(Amount, S)
          /\ SumFunctionOnSet(Amount', S \cup {Current}) = op.amount + SumFunctionOnSet(Amount, S)
      BY <1>1, <1>2, <3>1, SumsAreKept
    <3>5. j \notin DOMAIN operations => SumFunctionOnSet(Amount, S) = 0
      BY <3>1, SumOfNone
    <3>6. j # i \/ taken = {} => after(j) = SumFunctionOnSet(Amount', S)
      BY <3>2, Zenon
    <3>7. j = i /\ taken # {} => after(j) = SumFunctionOnSet(Amount', S \cup {Current})
      BY <3>3, Zenon
    <3>8. before(j) = SumFunctionOnSet(Amount, S)
      BY DEF S
    <3> HIDE DEF before, after
    <3> QED
      BY <1>1, <3>4, <3>5, <3>6, <3>7, <3>8
  <2>2. taken # {} => before(i) <= Returned(i) /\ Returned(i) + amount <= paid /\ Returned(i) \in Nat
    <3> DEFINE w == Amount
               all == {j \in DOMAIN operations : operations[j].original = i}
    <3>1. IsFiniteSet(all)
      BY <1>3, FS_Subset
    <3>2. \A j \in all : w[j] \in Nat
      BY <1>3 DEF Amount, Operation
    <3>3. Accepted(i) \in SUBSET all
      BY <1>2, AcceptedAreOperations
    <3>4. Returned(i) = SumFunctionOnSet(w, all) /\ before(i) = SumFunctionOnSet(w, Accepted(i))
      BY DEF Returned
    <3> HIDE DEF w, all
    <3>5. SumFunctionOnSet(w, Accepted(i)) <= SumFunctionOnSet(w, all)
      BY <3>1, <3>2, <3>3, SumOfPart
    <3>6. SumFunctionOnSet(w, all) \in Nat
      BY <3>1, <3>2, SumRecursion
    <3> QED
      BY <1>5, <3>4, <3>5, <3>6
  <2> HIDE DEF before, after
  <2>3. ASSUME NEW j \in DOMAIN operations' PROVE after(j) <= operations'[j].amount
    <3>1. CASE j = i /\ taken # {}
      BY <1>3, <1>4, <2>1, <2>2, <3>1
    <3>2. CASE j \in DOMAIN operations /\ (j # i \/ taken = {})
      <4>1. before(j) <= operations[j].amount
        BY <1>2, <3>2 DEF ShareInv, before
      <4> QED
        BY <1>3, <2>1, <3>2, <4>1
    <3>3. CASE j = Current
      <4>1. operations'[j].amount \in Nat /\ j # i
        BY <1>3, <3>3 DEF Operation
      <4> QED
        BY <1>3, <2>1, <3>3, <4>1
    <3> QED
      BY <1>3, <3>1, <3>2, <3>3
  <2>4. ASSUME NEW c \in rewards', c.sign = "credit", Reward[c.rule].clawback # "full"
        PROVE  Units(DebitsOf(c.operation, c.rule)') * operations'[c.operation].amount
                 <= c.units * after(c.operation)
    <3> DEFINE j == c.operation
               old == DebitsOf(j, c.rule)
               new == DebitsOf(j, c.rule)'
    <3>1. c \in rewards /\ c \in Component /\ c.units \in Nat /\ j \in DOMAIN operations
      BY <1>2, <1>5, <1>6, <1>7, <2>4 DEF TypeInv, Component
    <3>2. /\ operations'[j] = operations[j] /\ operations[j].amount \in Nat
      BY <1>3, <3>1 DEF Operation
    <3>3. Units(old) * operations[j].amount <= c.units * before(j)
      BY <1>2, <2>4, <3>1 DEF ShareInv, before
    <3>4. old \in SUBSET Component /\ IsFiniteSet(old)
      BY <1>2, FS_Subset DEF DebitsOf, TypeInv
    <3>5. new = old \cup {d \in taken : d.of = j /\ d.rule = c.rule}
      BY <1>5, <1>6 DEF DebitsOf
    <3> HIDE DEF old, new
    <3>6. Units(old) \in Nat
      BY <3>4, UnitsType
    <3>7. CASE \E d \in taken : d.of = j /\ d.rule = c.rule
      <4>1. PICK d \in taken : d.of = j /\ d.rule = c.rule
        BY <3>7
      <4>2. j = i /\ taken # {}
        BY <1>5, <4>1
      <4>3. new = old \cup {d}
        <5>1. {e \in taken : e.of = j /\ e.rule = c.rule} = {d}
          BY <1>5, <4>1
        <5> QED
          BY <3>5, <5>1
      <4>4. d \in Component /\ d.units \in Nat
        BY <1>5 DEF Component
      <4>5. Units(new) <= Units(old) + d.units /\ Units(new) \in Nat
        <5>1. Units(old \cup {d}) <= Units(old) + d.units
          BY <3>4, <4>4, UnitsWith
        <5>2. old \cup {d} \in SUBSET Component /\ IsFiniteSet(old \cup {d})
          BY <3>4, <4>4, FS_AddElement
        <5>3. Units(old \cup {d}) \in Nat
          BY <5>2, UnitsType
        <5>4. Units(new) = Units(old \cup {d})
          BY <4>3, Zenon
        <5> QED
          BY <5>1, <5>3, <5>4
      <4>6. d.units * operations[j].amount <= c.units * amount
        BY <1>5, <2>4, <3>1, <4>1, <4>2
      <4>7. before(j) \in Nat /\ after(j) = amount + before(j)
        BY <2>1, <4>2
      <4>8. Units(new) * operations[j].amount <= c.units * (amount + before(j))
        BY <1>4, <3>1, <3>2, <3>3, <3>6, <4>4, <4>5, <4>6, <4>7, SharesAdd
      <4> QED
        BY <3>2, <4>7, <4>8 DEF new
    <3>8. CASE ~ \E d \in taken : d.of = j /\ d.rule = c.rule
      <4>1. new = old
        BY <3>5, <3>8
      <4>2. Units(new) = Units(old)
        BY <4>1, Zenon
      <4>3. before(j) \in Nat /\ after(j) \in {before(j), amount + before(j)}
        BY <2>1
      <4>4. c.units * before(j) <= c.units * after(j)
        <5>1. after(j) \in Nat /\ before(j) <= after(j)
          BY <1>4, <4>3
        <5> QED
          BY <3>1, <4>3, <5>1
      <4>5. Units(old) * operations[j].amount \in Nat /\ c.units * before(j) \in Nat
            /\ c.units * after(j) \in Nat
        BY <1>4, <3>1, <3>2, <3>6, <4>3
      <4>6. Units(old) * operations[j].amount <= c.units * after(j)
        BY <3>3, <4>4, <4>5
      <4>7. Units(new) * operations'[j].amount <= c.units * after(j)
        BY <3>2, <4>2, <4>6
      <4> QED
        BY <4>7 DEF new
    <3> QED
      BY <3>7, <3>8
  <2> QED
    BY <2>3, <2>4 DEF ShareInv, after
<1> QED
  BY <1>8, <1>9, <1>10, <1>11 DEF PlanInv

LEMMA NextPlan == PlanInv /\ [Next]_vars => PlanInv'
<1> SUFFICES ASSUME PlanInv, [Next]_vars
             PROVE  PlanInv'
  OBVIOUS
<1>1. CASE \E o \in Offer : Purchase(o)
  BY <1>1, PurchaseKeeps
<1>2. CASE \E kind \in {"refund", "reversal"}, i \in DOMAIN operations :
             \E amount \in 1..operations[i].amount : Return(kind, i, amount)
  BY <1>2, ReturnKeeps
<1>3. CASE UNCHANGED vars
  <2>1. /\ reported' = reported /\ progress' = progress
        /\ operations' = operations /\ rewards' = rewards
    BY <1>3 DEF vars
  <2>2. TypeInv'
    BY <2>1 DEF PlanInv, TypeInv
  <2>3. ComponentInv'
    BY <2>1 DEF PlanInv, ComponentInv
  <2>4. CapInv'
    BY <2>1 DEF PlanInv, CapInv, InPeriod, Reports, Credits
  <2>5. Amount' = Amount /\ \A j : Accepted(j)' = Accepted(j)
    BY <2>1 DEF Amount, Accepted
  <2>6. ShareInv'
    BY <2>1, <2>5 DEF PlanInv, ShareInv, DebitsOf
  <2> QED
    BY <2>2, <2>3, <2>4, <2>6 DEF PlanInv
<1> QED
  BY <1>1, <1>2, <1>3 DEF Next

-----------------------------------------------------------------------------
(* What the invariant says of caps and of clawbacks.                        *)

LEMMA CapsFollow == PlanInv => CapIsShared
<1> SUFFICES ASSUME PlanInv, NEW k \in Key, LimitsUnits(k, FALSE), InPeriod(k)
             PROVE  \E c \in CapsOn(k) :
                      IF Unknown(c, Seen(reported, c)) THEN Credits(RulesOn(k)) = {}
                      ELSE Units(Credits(RulesOn(k))) <= Left(Limit(k), Spent(Seen(reported, c)))
  BY DEF CapIsShared, PlanInv, CapInv
<1> DEFINE all == Credits(RulesOn(k))
<1>1. KeyHolds(k, reported, progress[k], all)
  BY DEF PlanInv, CapInv
<1>2. ASSUME all = {} PROVE \A c \in CapsOn(k) : Units(all) <= Left(Limit(k), Spent(Seen(reported, c)))
  <2>1. Units(all) = 0
    BY <1>2, UnitsOfNone, Zenon
  <2>2. Limit(k) \in Nat
    BY LimitIsGreatest DEF LimitsUnits
  <2>3. ASSUME NEW c \in CapsOn(k) PROVE Spent(Seen(reported, c)) \in Nat
    <3>1. c \in CapRecord
      BY PlanAssumption DEF CapsOn
    <3>2. Seen(reported, c) \in Use
      BY <3>1 DEF Seen, PlanInv, TypeInv, CapRecord
    <3> QED
      BY <3>2 DEF Spent, Use, ProgressRecord
  <2> HIDE DEF all
  <2> QED
    BY <2>1, <2>2, <2>3 DEF Left, Positive
<1>3. CapsOn(k) # {}
  BY DEF LimitsUnits
<1> HIDE DEF all
<1>4. CASE all = {}
  BY <1>2, <1>3, <1>4 DEF all
<1>5. CASE Backed(k, reported, progress[k], all)
  BY <1>5 DEF Backed, all
<1> QED
  BY <1>1, <1>4, <1>5 DEF KeyHolds

(* A share of what was paid is no more than all of it, and is all of it     *)
(* only if everything was returned.                                         *)
LEMMA ShareOfPaid ==
  ASSUME NEW u \in Nat, NEW units \in Nat, NEW paid \in Nat \ {0}, NEW refunded \in Nat,
         u * paid <= units * refunded, refunded <= paid
  PROVE  /\ u <= units
         /\ u = units /\ units > 0 => refunded = paid
<1>1. units * refunded <= units * paid
  OBVIOUS
<1>2. u * paid <= units * paid
  <2>1. u * paid \in Nat /\ units * paid \in Nat /\ units * refunded \in Nat
    OBVIOUS
  <2> QED
    BY <1>1, <2>1
<1>3. u <= units
  <2> SUFFICES ASSUME units + 1 <= u PROVE FALSE
    OBVIOUS
  <2>1. (units + 1) * paid <= u * paid
    OBVIOUS
  <2>2. (units + 1) * paid = units * paid + paid
    OBVIOUS
  <2>3. u * paid \in Nat /\ units * paid \in Nat
    OBVIOUS
  <2> QED
    BY <1>2, <2>1, <2>2, <2>3
<1>4. ASSUME u = units, units > 0, refunded + 1 <= paid PROVE FALSE
  <2>1. units * (refunded + 1) <= units * paid
    BY <1>4
  <2>2. units * (refunded + 1) = units * refunded + units
    OBVIOUS
  <2>3. units * paid \in Nat /\ units * refunded \in Nat
    OBVIOUS
  <2> QED
    BY <1>4, <2>1, <2>2, <2>3
<1> QED
  BY <1>3, <1>4

LEMMA ClawbacksFollow == PlanInv => ClawbackWithinShare
<1> SUFFICES ASSUME PlanInv,
                    NEW c \in Credits({r \in DOMAIN Reward : Reward[r].clawback # "full"})
             PROVE  LET debits   == {d \in rewards :
                                       d.sign = "debit" /\ d.of = c.operation /\ d.rule = c.rule}
                        accepted == {d.operation :
                                       d \in {d \in rewards : d.sign = "debit" /\ d.of = c.operation}}
                        paid     == operations[c.operation].amount
                        refunded == SumFunctionOnSet(Amount, accepted)
                    IN /\ Units(debits) <= c.units
                       /\ Units(debits) * paid <= c.units * refunded
                       /\ (Units(debits) = c.units /\ c.units > 0) => refunded = paid
  BY DEF ClawbackWithinShare
<1> DEFINE i == c.operation
           u == Units(DebitsOf(i, c.rule))
           paid == operations[i].amount
           refunded == SumFunctionOnSet(Amount, Accepted(i))
<1>1. TypeInv /\ ComponentInv /\ ShareInv
  BY DEF PlanInv
<1>2. /\ c \in rewards /\ c \in Component /\ c.units \in Nat /\ c.sign = "credit"
      /\ Reward[c.rule].clawback # "full"
  BY <1>1 DEF Credits, TypeInv, Component
<1>3. i \in DOMAIN operations
  BY <1>1, <1>2 DEF ComponentInv
<1>4. /\ paid \in Nat \ {0} /\ IsFiniteSet(DOMAIN operations)
      /\ \A j \in DOMAIN operations : operations[j].amount \in Nat
  <2>1. operations \in Seq(Operation)
    BY <1>1 DEF TypeInv
  <2>2. DOMAIN operations = 1..Len(operations) /\ Len(operations) \in Nat
    BY <2>1
  <2>3. IsFiniteSet(1..Len(operations))
    BY <2>2, FS_Interval
  <2>4. \A j \in DOMAIN operations : operations[j] \in Operation
    BY <2>1
  <2> QED
    BY <1>3, <2>2, <2>3, <2>4 DEF Operation
<1>5. u \in Nat
  <2>1. DebitsOf(i, c.rule) \in SUBSET Component /\ IsFiniteSet(DebitsOf(i, c.rule))
    BY <1>1, FS_Subset DEF DebitsOf, TypeInv
  <2> QED
    BY <2>1, UnitsType
<1>6. refunded \in Nat
  <2> DEFINE S == Accepted(i)
             w == Amount
  <2>1. S \in SUBSET (DOMAIN operations)
    BY <1>1, AcceptedAreOperations
  <2>2. IsFiniteSet(S)
    BY <1>4, <2>1, FS_Subset
  <2>3. \A j \in S : w[j] \in Nat
    BY <1>4, <2>1 DEF Amount
  <2> HIDE DEF S, w
  <2>4. SumFunctionOnSet(w, S) \in Nat
    BY <2>2, <2>3, SumRecursion
  <2> QED
    BY <2>4 DEF S, w
<1>7. u * paid <= c.units * refunded /\ refunded <= paid
  BY <1>1, <1>2, <1>3 DEF ShareInv
<1> HIDE DEF u, paid, refunded
<1>8. u <= c.units /\ (u = c.units /\ c.units > 0 => refunded = paid)
  BY <1>2, <1>4, <1>5, <1>6, <1>7, ShareOfPaid
<1> QED
  BY <1>7, <1>8 DEF u, paid, refunded, DebitsOf, Accepted

-----------------------------------------------------------------------------
(* evaluateNativePlan (engine.ts, line 2168) keeps planCapProgress at least *)
(* what one cap of the key saw reported plus what was earned, one component *)
(* of a rule in every operation, and the debits of a purchase in proportion *)
(* to its returns.                                                          *)
THEOREM PlanInvariant == Spec => []PlanInv
<1>1. Init => PlanInv
  BY InitPlan
<1>2. PlanInv /\ [Next]_vars => PlanInv'
  BY NextPlan
<1> QED
  BY <1>1, <1>2, PTL DEF Spec

(* Whatever rules share a cap and however many operations use it:           *)
(* processRewardRules with reserveCapProgress (engine.ts, lines 820, 1176)  *)
(* never pays more under its key than its limit leaves of what users        *)
(* reported of it, or of one of its caps where they reported those one by   *)
(* one, and nothing while that is unknown; a cap of each operation holds    *)
(* within each.                                                             *)
THEOREM CapsAreShared == Spec => []CapIsShared
<1>1. PlanInv => CapIsShared
  BY CapsFollow
<1> QED
  BY <1>1, PlanInvariant, PTL

(* However often processLifecycleOperation (engine.ts) returns a purchase,  *)
(* in parts or at once: the debits of a reward that is not clawed back in   *)
(* full stay within the share of the purchase that was returned.            *)
THEOREM ClawbacksStayWithin == Spec => []ClawbackWithinShare
<1>1. PlanInv => ClawbackWithinShare
  BY ClawbacksFollow
<1> QED
  BY <1>1, PlanInvariant, PTL
===============================================================================
