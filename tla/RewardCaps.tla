----------------------------- MODULE RewardCaps -----------------------------
(***************************************************************************)
(* Caps (packages/rule-engine/src/m1b-caps.ts), their reservation by the   *)
(* engine (engine.ts) and the clawback of refunds (m1b-lifecycle.ts), as   *)
(* operators.  Of the ranges that a cap evaluation returns, the engine     *)
(* uses the minimum of the allowed reward: the operators give that one.    *)
(*                                                                         *)
(* A cap is [id, key, place, perOperation, resets, notRequired, limit,     *)
(* spendLimit, partial]: key is shared_cap_group, or cap_id (id) without   *)
(* one; place is the cap's among those of its rule; perOperation, that     *)
(* cap_type or reset.period say so, resets, that reset.period does not; a  *)
(* limit may be NoLimit.  Progress on a key is NoProgress, or [status,     *)
(* low, high, spendLow, spendHigh, period]: a range of units and of spend  *)
(* used, observed in a period or in none.  Amounts are whole: the engine   *)
(* throws when a share of a spend limit is not.                            *)
(***************************************************************************)
EXTENDS Integers, FiniteSetsExt

CONSTANTS NoLimit, NoProgress, NoPeriod

Positive(n) == IF n > 0 THEN n ELSE 0

Lesser(m, n) == IF m < n THEN m ELSE n

Left(limit, used) == Positive(limit - used)

(* "A progress record may be keyed by cap_id or by shared_cap_group"        *)
(* (m1b-caps.ts, line 94): the group's is read before the cap's own.        *)
Seen(progress, cap) ==
  IF progress[cap.key] # NoProgress THEN progress[cap.key] ELSE progress[cap.id]

(* resetDetails: progress of another period is taken for none at all.  A    *)
(* period that was not observed is the one of the operation.                *)
ResetApplied(cap, progress, period) ==
  /\ progress # NoProgress /\ cap.resets
  /\ progress.period # NoPeriod /\ progress.period # period

(* progressRange: units and spend used, between low and high.               *)
Unused == [sure |-> TRUE, low |-> 0, high |-> 0, spendLow |-> 0, spendHigh |-> 0]

AnyUse(cap) ==
  [sure |-> FALSE, low |-> 0, high |-> IF cap.limit = NoLimit THEN 0 ELSE cap.limit,
   spendLow |-> 0, spendHigh |-> IF cap.spendLimit = NoLimit THEN 0 ELSE cap.spendLimit]

(* Progress that is not_applicable, of a cap for which it should be, is      *)
(* uncertain, with no use.                                                  *)
Used(cap, progress, period) ==
  LET needed == ~ cap.perOperation /\ ~ cap.notRequired
  IN CASE ResetApplied(cap, progress, period) -> Unused
       [] progress = NoProgress -> IF needed THEN AnyUse(cap) ELSE Unused
       [] OTHER ->
            CASE progress.status = "unknown" -> AnyUse(cap)
              [] progress.status = "not_applicable" -> [Unused EXCEPT !.sure = ~ needed]
              [] OTHER ->
                   [sure |-> \/ progress.status = "known"
                             \/ progress.low = progress.high /\ progress.spendLow = progress.spendHigh,
                    low |-> progress.low, high |-> progress.high,
                    spendLow |-> progress.spendLow, spendHigh |-> progress.spendHigh]

(* evaluateCap: at least so many of the units asked for are allowed.        *)
AllowedBy(cap, progress, period, units, spend) ==
  LET used == Used(cap, progress, period)
      least == IF cap.limit = NoLimit THEN 0 ELSE Lesser(units, Left(cap.limit, used.high))
      most  == IF cap.limit = NoLimit THEN units ELSE Lesser(units, Left(cap.limit, used.low))
      byReward == IF cap.partial \/ least = units THEN least ELSE 0
      bySpend ==
        IF cap.spendLimit = NoLimit \/ spend = 0 THEN 0
        ELSE (most * Lesser(spend, Left(cap.spendLimit, used.spendHigh))) \div spend
      surelyOver ==
        /\ used.sure /\ ~ cap.partial
        /\ \/ most < units
           \/ cap.spendLimit # NoLimit /\ spend > Left(cap.spendLimit, used.spendLow)
  IN IF surelyOver THEN 0 ELSE Max({byReward, bySpend})

(* evaluateCaps: shared groups add nothing to the minimum over the caps.    *)
Allowed(caps, progress, period, units, spend) ==
  Min({units} \cup {AllowedBy(c, Seen(progress, c), period, units, spend) : c \in caps})

-----------------------------------------------------------------------------
(* reserveCapProgress.  Progress keeps the period it was observed in.       *)

Keys(caps) == {c.key : c \in caps}

Add(progress, units, spend) ==
  IF progress = NoProgress
  THEN [status |-> "known", low |-> units, high |-> units,
        spendLow |-> spend, spendHigh |-> spend, period |-> NoPeriod]
  ELSE [status |-> IF progress.status = "estimated" THEN "estimated" ELSE "known",
        low |-> progress.low + units, high |-> progress.high + units,
        spendLow |-> progress.spendLow + spend, spendHigh |-> progress.spendHigh + spend,
        period |-> progress.period]

FirstOn(caps, k) ==
  CHOOSE c \in caps : c.key = k /\ \A d \in caps : d.key = k => c.place <= d.place

(* The first of the rule's caps on a key finds what its progress was; that  *)
(* which is unknown stays so.                                               *)
Reserve(progress, caps, units, spend) ==
  [k \in DOMAIN progress |->
     IF k \in Keys(caps)
     THEN LET seen == Seen(progress, FirstOn(caps, k))
          IN IF seen # NoProgress /\ seen.status = "unknown" THEN progress[k]
             ELSE Add(seen, units, spend)
     ELSE progress[k]]

(* What other operations of the plan see: not the caps of one operation,    *)
(* nor a key that such a cap of the rule shares.                            *)
LastingKeys(caps) == {k \in Keys(caps) : \A c \in caps : c.key = k => ~ c.perOperation}

-----------------------------------------------------------------------------
(* calculateClawbackAdjustment for a refund: units to debit.                *)

(* Nothing is debited under an unknown or provider defined policy.          *)
Clawback(policy, earned, refunded, paid) ==
  CASE policy = "full" -> earned
    [] policy = "proportional" -> (earned * refunded) \div paid
    [] OTHER -> 0
=============================================================================
