--------------------------- MODULE RouteAllocation ---------------------------
(***************************************************************************)
(* One balance of points spread over the transfer routes to one target     *)
(* (packages/rule-engine/src/point-route-optimizer.ts, allocate).          *)
(*                                                                         *)
(* A transfer rule (an edge) is [id, from, to, src, dst, min, increment,   *)
(* amounts, request, cap, key, tierMin, tierMax, fee, percent, partial,    *)
(* direct, opens, closes, days]: dst units are paid for src; min,          *)
(* increment and the published amounts are the grid; request and cap are   *)
(* the maxima of one request and of one period, the period's counted under *)
(* key; the rule applies while the period's use is in tierMin .. tierMax-1; *)
(* percent is [num, den, up].  Any of them may be None.  A request is      *)
(* [rules, from, to, balance, used, steps], used giving the use of each    *)
(* key so far, or None when it is not known.                               *)
(*                                                                         *)
(* Amounts are whole, so the percentage never makes the algebraic bound of *)
(* alignSource too high and its decrement never applies.  Balances do not  *)
(* expire within the request.  Every pair of a balance and a target has    *)
(* counters of its own in the code: one pair is a behaviour here.          *)
(***************************************************************************)
EXTENDS Integers, FiniteSets, SequencesExt

CONSTANTS None, Requests, MaxLegs

(* What assertEdge and assertRequest let through, of whole amounts.  A      *)
(* ratio and an increment are positive, or evaluateTransfer refuses them.   *)
ASSUME RequestsAssumption ==
  /\ MaxLegs \in Nat \ {0}
  /\ None \notin Int
  /\ \A q \in Requests :
       /\ q.balance \in Nat /\ q.steps \in Nat /\ IsFiniteSet(q.rules)
       /\ \A e \in q.rules :
            /\ q.used[e.key] \in Nat \cup {None}
            /\ e.src \in Nat \ {0} /\ e.dst \in Nat \ {0} /\ e.fee \in Nat
            /\ {e.min, e.request, e.cap, e.tierMin, e.tierMax, e.days} \subseteq Nat \cup {None}
            /\ e.increment \in (Nat \ {0}) \cup {None} /\ e.partial \in BOOLEAN
            /\ e.amounts # None =>
                 e.increment = None /\ e.amounts \subseteq Nat /\ IsFiniteSet(e.amounts)
            /\ e.percent # None =>
                 /\ e.percent.num \in Nat /\ e.percent.den \in Nat \ {0}
                 /\ e.percent.up \in BOOLEAN

VARIABLES
  request,   \* the balance, the target and the rules
  left,      \* the balance that is not allocated
  ledger,    \* what is left of each period maximum, by key
  usage,     \* the use of each key in the period
  legs,      \* the allocated legs, in order
  feasible,  \* how many routes were feasible in the first round
  outcome    \* "open", the label of the allocation, or the error

vars == <<request, left, ledger, usage, legs, feasible, outcome>>

-----------------------------------------------------------------------------
(* Rules and routes.                                                       *)

(* The use of a limited rule must be known: it is not taken for none.       *)
Usable(q) ==
  {e \in q.rules : {e.cap, e.tierMin, e.tierMax} # {None} => q.used[e.key] # None}

CapsAt(q, key) ==
  {IF e.cap > q.used[key] THEN e.cap - q.used[key] ELSE 0 :
     e \in {r \in Usable(q) : r.cap # None /\ r.key = key}}

Keys(q) == {e.key : e \in q.rules}

IsRoute(q, path) ==
  LET n == Len(path)
      asset(i) == IF i = 0 THEN q.from ELSE path[i].to
  IN /\ path[n].to = q.to
     /\ \A i \in 1..n : path[i].from = asset(i - 1) /\ (path[i].direct => i = 1)
     /\ \A i, j \in 0..n : asset(i) = asset(j) => i = j

Routes(q) == {path \in UNION {[1..n -> Usable(q)] : n \in 1..q.steps} : IsRoute(q, path)}

-----------------------------------------------------------------------------
(* One hop.                                                                *)

Fee(e, n) ==
  e.fee + IF e.percent = None THEN 0
          ELSE IF e.percent.up THEN -((-(n * e.percent.num)) \div e.percent.den)
          ELSE (n * e.percent.num) \div e.percent.den

CapLeft(e, capsLeft) == IF e.cap = None THEN None ELSE capsLeft[e.key]

TierLeft(e, used) == IF e.tierMax = None THEN None ELSE e.tierMax - used

Limited(n, limits) == Min({n} \cup (limits \ {None}))

(* alignSource: what moves out of so many units, 0 when nothing can.       *)
OnGrid(e, n) ==
  LET origin == IF e.min = None THEN 0 ELSE e.min
  IN IF e.increment # None
     THEN IF n < origin THEN 0 ELSE origin + ((n - origin) \div e.increment) * e.increment
     ELSE IF e.amounts # None THEN Max({a \in e.amounts : a <= n} \cup {0})
     ELSE n

(* Mutant of Aligned: the percentage is taken off, not added on top.        *)
AlignedByDiscount(e, available, capLeft, tierLeft) ==
  LET paid == available - e.fee
      most == IF e.percent = None THEN paid
              ELSE (paid * (e.percent.den - e.percent.num)) \div e.percent.den
      n == OnGrid(e, Limited(most, {e.request, capLeft, tierLeft}))
  IN IF paid >= 0 /\ n > 0 /\ (e.min # None => n >= e.min) /\ n + Fee(e, n) <= available
     THEN n ELSE 0

Aligned(e, available, capLeft, tierLeft) ==
  LET paid == available - e.fee
      most == IF e.percent = None THEN paid
              ELSE (paid * e.percent.den) \div (e.percent.den + e.percent.num)
      n == OnGrid(e, Limited(most, {e.request, capLeft, tierLeft}))
  IN IF paid >= 0 /\ n > 0 /\ (e.min # None => n >= e.min) /\ n + Fee(e, n) <= available
     THEN n ELSE 0

(* evaluateTransfer of an aligned amount: what it would refuse is not       *)
(* aligned, and what it pays is rounded down.                              *)
Paid(e, n) == (n * e.dst) \div e.src

Open(e, day) ==
  \/ day = None
  \/ (e.opens # None => e.opens <= day) /\ (e.closes # None => day < e.closes)

-----------------------------------------------------------------------------
(* One leg.                                                                *)

(* Mutant of Before: the amount before a hop is taken for the one after.    *)
BeforeUnconverted(e, after, capsLeft, used) ==
  LET limits == {e.request, CapLeft(e, capsLeft), TierLeft(e, used[e.key]), after} \ {None}
  IN IF limits = {} THEN None ELSE Min(limits) + Fee(e, Min(limits))

(* backwardCapacity: the most that a hop can take without leaving something *)
(* behind its own maxima or the most after it, None when there is none; and *)
(* the most that the first hop of a path can take.                          *)
Before(e, after, capsLeft, used) ==
  LET source == IF after = None THEN None ELSE (after * e.src) \div e.dst
      limits == {e.request, CapLeft(e, capsLeft), TierLeft(e, used[e.key]), source} \ {None}
  IN IF limits = {} THEN None ELSE Min(limits) + Fee(e, Min(limits))

Capacity(path, capsLeft, used) ==
  FoldLeft(LAMBDA after, e : Before(e, after, capsLeft, used), None, Reverse(path))

(* nonPartialCapFailure: a rule that does not take part of a request is     *)
(* asked for all that the hops before it would bring.                      *)
Over(e, n, capsLeft) ==
  ~ e.partial /\ \E limit \in {e.request, CapLeft(e, capsLeft)} \ {None} : n > limit + Fee(e, limit)

Asked(w, e, capsLeft, used) ==
  IF w.over \/ Over(e, w.amount, capsLeft) THEN [w EXCEPT !.over = TRUE]
  ELSE [w EXCEPT !.amount = Paid(e, Aligned(e, w.amount, CapLeft(e, capsLeft),
                                            TierLeft(e, used[e.key])))]

Overasked(path, input, capsLeft, used) ==
  FoldLeft(LAMBDA w, e : Asked(w, e, capsLeft, used), [amount |-> input, over |-> FALSE], path).over

MovedBy(hops, key) ==
  SumFunctionOnSet([i \in DOMAIN hops |-> hops[i].moved], {i \in DOMAIN hops : hops[i].rule.key = key})

(* evaluateLeg: the hops until one fails.  The units that a hop moves count *)
(* for the tiers of the hops after it, but not for their period maximum.    *)
Walked(w, e, capsLeft, used) ==
  LET use   == used[e.key] + MovedBy(w.hops, e.key)
      moved == Aligned(e, w.amount, CapLeft(e, capsLeft), TierLeft(e, use))
  IN IF /\ Open(e, w.day)
        /\ e.tierMin # None => use >= e.tierMin
        /\ e.tierMax # None => use < e.tierMax
        /\ moved > 0
     THEN [amount |-> Paid(e, moved),
           day    |-> IF w.day = None \/ e.days = None THEN None ELSE w.day + e.days,
           hops   |-> Append(w.hops, [rule |-> e, given |-> w.amount, moved |-> moved,
                                      fee |-> Fee(e, moved), paid |-> Paid(e, moved)])]
     ELSE [w EXCEPT !.amount = 0]

Hops(path, input, capsLeft, used) ==
  FoldLeft(LAMBDA w, e : Walked(w, e, capsLeft, used),
           [amount |-> input, day |-> 0, hops |-> <<>>], path).hops

Legs(q, input, capsLeft, used) ==
  LET accepted(path) == LET most == Capacity(path, capsLeft, used)
                        IN IF most # None /\ most < input THEN most ELSE input
      walked == {<<path, Hops(path, accepted(path), capsLeft, used)>> :
                   path \in {p \in Routes(q) : ~ Overasked(p, input, capsLeft, used)}}
  IN {[hops |-> w[2], consumed |-> w[2][1].moved + w[2][1].fee, produced |-> Last(w[2]).paid] :
        w \in {v \in walked : Len(v[2]) = Len(v[1])}}

(* The most produced for a unit consumed; ties are decided by a hash.       *)
Best(offers) ==
  {l \in offers : \A m \in offers : m.produced * l.consumed <= l.produced * m.consumed}

LedgerAfter(capsLeft, l) == [key \in DOMAIN capsLeft |-> capsLeft[key] - MovedBy(l.hops, key)]

UsageAfter(used, l) == [key \in DOMAIN used |-> used[key] + MovedBy(l.hops, key)]

-----------------------------------------------------------------------------
(* The allocation.                                                         *)

InitialLedger(q) ==
  [key \in {k \in Keys(q) : CapsAt(q, k) # {}} |-> CHOOSE n \in CapsAt(q, key) : TRUE]

InitialUsage(q) == [key \in Keys(q) |-> IF q.used[key] = None THEN 0 ELSE q.used[key]]

Init ==
  /\ request \in Requests
  /\ left = request.balance
  /\ ledger = InitialLedger(request)
  /\ usage = InitialUsage(request)
  /\ legs = <<>>
  /\ feasible = 0
  /\ outcome = IF \E key \in Keys(request) : Cardinality(CapsAt(request, key)) > 1
               THEN "point_route_shared_cap_conflict" ELSE "open"

(* Mutant of Counted: the second leg is priced with the use before the      *)
(* first.                                                                  *)
NotCounted(l) == UNCHANGED <<ledger, usage>>

Counted(l) == ledger' = LedgerAfter(ledger, l) /\ usage' = UsageAfter(usage, l)

(* One round: the best leg for what is left is allocated.                   *)
Allocate ==
  /\ outcome = "open"
  /\ Len(legs) < MaxLegs /\ left > 0
  /\ LET offers == Legs(request, left, ledger, usage)
     IN /\ \E l \in Best(offers) :
             /\ legs' = Append(legs, l)
             /\ left' = left - l.consumed
             /\ Counted(l)
        /\ feasible' = IF legs = <<>> THEN Cardinality(offers) ELSE feasible
  /\ UNCHANGED <<request, outcome>>

Finish ==
  /\ outcome = "open"
  /\ \/ Len(legs) = MaxLegs
     \/ left = 0
     \/ Legs(request, left, ledger, usage) = {}
  /\ outcome' = IF Len(legs) = 1 /\ left = 0 THEN "exact_single_leg"
                ELSE IF Len(legs) = 1 /\ feasible = 1 THEN "exact_only_route"
                ELSE "greedy_marginal_value"
  /\ UNCHANGED <<request, left, ledger, usage, legs, feasible>>

Next == Allocate \/ Finish

Spec == Init /\ [][Next]_vars

-----------------------------------------------------------------------------
(* What was used of each key, and what was left, before a leg was priced.   *)
UseBefore(j) ==
  [key \in Keys(request) |->
     InitialUsage(request)[key] +
       SumFunctionOnSet([i \in DOMAIN legs |-> MovedBy(legs[i].hops, key)], 1..(j - 1))]

LeftBefore(j) ==
  request.balance - SumFunctionOnSet([i \in DOMAIN legs |-> legs[i].consumed], 1..(j - 1))

(* A leg crosses no two rules of one key: their hops would each be given    *)
(* all that is left under it.                                              *)
KeysOnce(l) ==
  \A a, b \in DOMAIN l.hops : l.hops[a].rule.key = l.hops[b].rule.key => a = b

OwnMaxima(e, used) ==
  {e.request, IF e.cap = None THEN None ELSE e.cap - used[e.key]} \ {None}

Maxima(e, used) == OwnMaxima(e, used) \cup ({TierLeft(e, used[e.key])} \ {None})

Fits(l, used) ==
  \A i \in DOMAIN l.hops :
    LET h == l.hops[i]
        use == used[h.rule.key]
    IN /\ h.rule.cap # None => use + h.moved <= h.rule.cap
       /\ h.rule.tierMin # None => use >= h.rule.tierMin
       /\ h.rule.tierMax # None => use + h.moved <= h.rule.tierMax

(* "The next round genuinely re-prices the alternatives" (line 1203): what  *)
(* the legs moved under a key is within its maximum, and within the tier    *)
(* each leg was priced with; no unit is used twice.                        *)
CountersHeld ==
  /\ left >= 0 /\ left = LeftBefore(Len(legs) + 1)
  /\ \A j \in DOMAIN legs : KeysOnce(legs[j]) => Fits(legs[j], UseBefore(j))

Uncut(l, input, used) ==
  \A i \in DOMAIN l.hops :
    LET h == l.hops[i]
    IN /\ i > 1 => \A most \in Maxima(h.rule, used) : h.given <= most + Fee(h.rule, most)
       /\ i = 1 /\ ~ h.rule.partial =>
            \A most \in OwnMaxima(h.rule, used) : input <= most + Fee(h.rule, most)

(* "Largest input the first hop can accept without stranding units          *)
(* downstream" (line 752): no maximum of a later hop leaves units behind,   *)
(* though its minimum, steps and published amounts may; and a rule that     *)
(* takes no part of a request was asked for no more than its maxima, the    *)
(* tier apart (line 823).                                                  *)
NothingIsCut ==
  \A j \in DOMAIN legs : KeysOnce(legs[j]) => Uncut(legs[j], LeftBefore(j), UseBefore(j))

(* What a rule accepts of so many units: its fee is paid from them too.     *)
Acceptable(h, used, n) ==
  LET e == h.rule
      origin == IF e.min = None THEN 0 ELSE e.min
  IN /\ n + Fee(e, n) <= h.given
     /\ \A most \in Maxima(e, used) : n <= most
     /\ n >= origin
     /\ e.increment # None => (n - origin) % e.increment = 0
     /\ e.amounts # None => n \in e.amounts

(* A percentage that is rounded down leaves more than the algebraic bound   *)
(* takes.                                                                  *)
Largest(l, used) ==
  \A i \in DOMAIN l.hops :
    LET h == l.hops[i]
    IN /\ Acceptable(h, used, h.moved)
       /\ (h.rule.percent # None => h.rule.percent.up) =>
            \A n \in (h.moved + 1)..h.given : ~ Acceptable(h, used, n)

(* "Largest amount this edge will accept out of `available`" (line 631).    *)
LargestAccepted ==
  \A j \in DOMAIN legs : KeysOnce(legs[j]) => Largest(legs[j], UseBefore(j))
=============================================================================
