------------------------ MODULE RouteAllocationProofs ------------------------
(***************************************************************************)
(* Proofs about allocate, for every set of requests that assertEdge and    *)
(* assertRequest let through: rules, routes of any length, balances, uses  *)
(* and numbers of legs.  From below: quotients of integers; one hop        *)
(* (alignSource, the fee, what is paid); the three folds along a path,     *)
(* opened into the sequence of what each hop leaves; a leg when it is      *)
(* priced; the rounds.                                                     *)
(***************************************************************************)
EXTENDS RouteAllocation, OperatorTheorems, TLAPS

-----------------------------------------------------------------------------
(* Products and quotients of integers.                                      *)

LEMMA ProductType == ASSUME NEW a \in Int, NEW b \in Int PROVE a * b \in Int
OBVIOUS

LEMMA ProductMonotone ==
  ASSUME NEW a \in Int, NEW b \in Int, NEW c \in Nat, a <= b
  PROVE  a * c <= b * c
OBVIOUS

LEMMA ProductReflects ==
  ASSUME NEW a \in Int, NEW b \in Int, NEW c \in Nat, a * c < b * c
  PROVE  a < b
OBVIOUS

LEMMA QuotientBounds ==
  ASSUME NEW a \in Int, NEW b \in Nat \ {0}
  PROVE  /\ a \div b \in Int
         /\ (a \div b) * b <= a
         /\ a < (a \div b) * b + b
OBVIOUS

(* The quotient is the greatest number whose multiple fits.                 *)
LEMMA QuotientIsGreatest ==
  ASSUME NEW a \in Int, NEW b \in Nat \ {0}, NEW q \in Int
  PROVE  q * b <= a <=> q <= a \div b
<1> DEFINE d == a \div b
<1>1. d \in Int /\ d * b <= a /\ a < d * b + b
  BY QuotientBounds
<1> HIDE DEF d
<1>2. q * b \in Int /\ d * b \in Int /\ (d + 1) * b \in Int /\ (d + 1) * b = d * b + b
  BY <1>1
<1>3. ASSUME q <= d PROVE q * b <= d * b
  BY <1>1, <1>3, ProductMonotone
<1>4. ASSUME q * b <= a PROVE q < d + 1
  <2>1. q * b < (d + 1) * b
    BY <1>1, <1>2, <1>4
  <2>2. d + 1 \in Int /\ b \in Nat
    BY <1>1
  <2> QED
    BY <2>1, <2>2, ProductReflects
<1>5. q <= d <=> q < d + 1
  BY <1>1
<1> QED
  BY <1>1, <1>2, <1>3, <1>4, <1>5 DEF d

LEMMA QuotientMonotone ==
  ASSUME NEW a \in Int, NEW c \in Int, a <= c, NEW b \in Nat \ {0}
  PROVE  a \div b <= c \div b
<1> DEFINE d == a \div b
<1>1. d \in Int /\ d * b <= a
  BY QuotientBounds
<1> HIDE DEF d
<1>2. d * b <= c
  <2>1. d * b \in Int
    BY <1>1
  <2> QED
    BY <1>1, <2>1
<1> QED
  BY <1>1, <1>2, QuotientIsGreatest DEF d

LEMMA QuotientOfNatural ==
  ASSUME NEW a \in Nat, NEW b \in Nat \ {0}
  PROVE  a \div b \in Nat
<1>1. 0 * b <= a /\ 0 \in Int
  OBVIOUS
<1>2. 0 <= a \div b /\ a \div b \in Int
  BY <1>1, QuotientIsGreatest, QuotientBounds
<1> QED
  BY <1>2

LEMMA Remainder ==
  ASSUME NEW a \in Int, NEW b \in Nat \ {0}
  PROVE  /\ a % b = 0 => (a \div b) * b = a
         /\ \A q \in Int : (q * b) % b = 0
OBVIOUS

-----------------------------------------------------------------------------
(* The least of a few numbers, any of which may be missing.                 *)

Maybe == Int \cup {None}

HasLeast(S) == S = {} \/ \E x \in S : \A y \in S : x <= y

LEMMA LeastWithOneMore ==
  ASSUME NEW S \in SUBSET Int, HasLeast(S), NEW a \in Maybe
  PROVE  S \cup ({a} \ {None}) \in SUBSET Int /\ HasLeast(S \cup ({a} \ {None}))
<1>1. CASE a = None
  <2>1. S \cup ({a} \ {None}) = S
    BY <1>1
  <2> QED
    BY <2>1
<1>2. CASE a # None
  <2>1. S \cup ({a} \ {None}) = S \cup {a} /\ a \in Int
    BY <1>2 DEF Maybe
  <2>2. CASE S = {}
    BY <2>1, <2>2 DEF HasLeast
  <2>3. CASE S # {}
    <3>1. PICK x \in S : \A y \in S : x <= y
      BY <2>3 DEF HasLeast
    <3>2. CASE x <= a
      BY <2>1, <3>1, <3>2 DEF HasLeast
    <3>3. CASE ~ (x <= a)
      <4>1. \A y \in S \cup {a} : a <= y
        BY <2>1, <3>1, <3>3
      <4> QED
        BY <2>1, <4>1 DEF HasLeast
    <3> QED
      BY <3>2, <3>3
  <2> QED
    BY <2>2, <2>3
<1> QED
  BY <1>1, <1>2

LEMMA LeastOfFew ==
  ASSUME NEW a \in Maybe, NEW b \in Maybe, NEW c \in Maybe, NEW d \in Maybe
  PROVE  LET S == {a, b, c, d} \ {None}
         IN S \in SUBSET Int /\ (S # {} => Min(S) \in S /\ \A y \in S : Min(S) <= y)
<1> DEFINE S1 == {} \cup ({a} \ {None})
           S2 == S1 \cup ({b} \ {None})
           S3 == S2 \cup ({c} \ {None})
           S4 == S3 \cup ({d} \ {None})
           S  == {a, b, c, d} \ {None}
<1>1. {} \in SUBSET Int /\ HasLeast({})
  BY DEF HasLeast
<1>2. S1 \in SUBSET Int /\ HasLeast(S1)
  BY <1>1, LeastWithOneMore
<1>3. S2 \in SUBSET Int /\ HasLeast(S2)
  <2> HIDE DEF S1
  <2> QED
    BY <1>2, LeastWithOneMore
<1>4. S3 \in SUBSET Int /\ HasLeast(S3)
  <2> HIDE DEF S2
  <2> QED
    BY <1>3, LeastWithOneMore
<1>5. S4 \in SUBSET Int /\ HasLeast(S4)
  <2> HIDE DEF S3
  <2> QED
    BY <1>4, LeastWithOneMore
<1>6. S4 = S
  OBVIOUS
<1> HIDE DEF S4
<1>7. S \in SUBSET Int /\ HasLeast(S)
  BY <1>5, <1>6
<1> HIDE DEF S
<1>8. ASSUME S # {} PROVE \E x \in S : \A y \in S : x <= y
  BY <1>7, <1>8 DEF HasLeast
<1>9. ASSUME S # {} PROVE Min(S) \in S /\ \A y \in S : Min(S) <= y
  BY <1>8, <1>9 DEF Min
<1> QED
  BY <1>7, <1>9 DEF S

-----------------------------------------------------------------------------
(* One hop.                                                                *)

IsRule(e) ==
  /\ e.src \in Nat \ {0} /\ e.dst \in Nat \ {0} /\ e.fee \in Nat
  /\ {e.min, e.request, e.cap, e.tierMin, e.tierMax, e.days} \subseteq Nat \cup {None}
  /\ e.increment \in (Nat \ {0}) \cup {None} /\ e.partial \in BOOLEAN
  /\ e.amounts # None =>
       e.increment = None /\ e.amounts \subseteq Nat /\ IsFiniteSet(e.amounts)
  /\ e.percent # None =>
       e.percent.num \in Nat /\ e.percent.den \in Nat \ {0} /\ e.percent.up \in BOOLEAN

(* The fee grows with what is moved.                                        *)
LEMMA FeeGrows ==
  ASSUME NEW e, IsRule(e), NEW n \in Int, NEW m \in Int, n <= m
  PROVE  Fee(e, n) \in Int /\ Fee(e, m) \in Int /\ Fee(e, n) <= Fee(e, m)
<1>1. CASE e.percent = None
  BY <1>1 DEF Fee, IsRule
<1>2. CASE e.percent # None
  <2> DEFINE num == e.percent.num
             den == e.percent.den
             a == n * num
             b == m * num
  <2>1. num \in Nat /\ den \in Nat \ {0} /\ e.percent.up \in BOOLEAN /\ e.fee \in Nat
    BY <1>2 DEF IsRule
  <2> HIDE DEF num, den
  <2>2. a \in Int /\ b \in Int /\ a <= b
    BY <2>1, ProductMonotone
  <2> HIDE DEF a, b
  <2>3. a \div den <= b \div den /\ a \div den \in Int /\ b \div den \in Int
    BY <2>1, <2>2, QuotientMonotone, QuotientBounds
  <2>4. (-b) \div den <= (-a) \div den /\ (-b) \div den \in Int /\ (-a) \div den \in Int
    BY <2>1, <2>2, QuotientMonotone, QuotientBounds
  <2>5. \A x \in {n, m} :
          Fee(e, x) = e.fee + IF e.percent.up THEN -((-(x * num)) \div den) ELSE (x * num) \div den
    BY <1>2 DEF Fee, num, den
  <2>6. /\ Fee(e, n) = e.fee + IF e.percent.up THEN -((-a) \div den) ELSE a \div den
        /\ Fee(e, m) = e.fee + IF e.percent.up THEN -((-b) \div den) ELSE b \div den
    BY <2>5 DEF a, b
  <2> QED
    BY <2>1, <2>3, <2>4, <2>6
<1> QED
  BY <1>1, <1>2

LEMMA FeeOfNatural ==
  ASSUME NEW e, IsRule(e), NEW n \in Nat
  PROVE  Fee(e, n) \in Nat
<1>1. Fee(e, 0) \in Int /\ Fee(e, n) \in Int /\ Fee(e, 0) <= Fee(e, n)
  <2>1. 0 \in Int /\ n \in Int /\ 0 <= n
    OBVIOUS
  <2> QED
    BY <2>1, FeeGrows
<1>2. Fee(e, 0) = e.fee
  <2>1. CASE e.percent = None
    BY <2>1 DEF Fee, IsRule
  <2>2. CASE e.percent # None
    <3>1. e.percent.num \in Nat /\ e.percent.den \in Nat \ {0} /\ e.fee \in Nat
      BY <2>2 DEF IsRule
    <3>2. ASSUME NEW a \in Nat, NEW b \in Nat \ {0}
          PROVE  (0 * a) \div b = 0 /\ -((-(0 * a)) \div b) = 0
      OBVIOUS
    <3>3. Fee(e, 0) = e.fee + 0
      BY <2>2, <3>1, <3>2 DEF Fee
    <3> QED
      BY <3>1, <3>3
  <2> QED
    BY <2>1, <2>2
<1>3. e.fee \in Nat
  BY DEF IsRule
<1> QED
  BY <1>1, <1>2, <1>3

(* What is paid of no more than most, with the fee, is no more than most.   *)
LEMMA FeeReflects ==
  ASSUME NEW e, IsRule(e), NEW n \in Int, NEW m \in Int, n + Fee(e, n) <= m + Fee(e, m)
  PROVE  n <= m
<1>1. ASSUME m < n PROVE FALSE
  <2>1. m <= n
    BY <1>1
  <2>2. Fee(e, n) \in Int /\ Fee(e, m) \in Int /\ Fee(e, m) <= Fee(e, n)
    BY <2>1, FeeGrows
  <2> QED
    BY <1>1, <2>2
<1> QED
  BY <1>1

(* The whole of a hop's price is known to fit once its units do.            *)
LEMMA PriceGrows ==
  ASSUME NEW e, IsRule(e), NEW n \in Int, NEW m \in Int, n <= m
  PROVE  n + Fee(e, n) <= m + Fee(e, m) /\ n + Fee(e, n) \in Int /\ m + Fee(e, m) \in Int
<1>1. Fee(e, n) \in Int /\ Fee(e, m) \in Int /\ Fee(e, n) <= Fee(e, m)
  BY FeeGrows
<1> QED
  BY <1>1

Origin(e) == IF e.min = None THEN 0 ELSE e.min

GridPoint(e, n) ==
  /\ n >= Origin(e)
  /\ e.increment # None => (n - Origin(e)) % e.increment = 0
  /\ e.amounts # None => n \in e.amounts

LEMMA OriginType == ASSUME NEW e, IsRule(e) PROVE Origin(e) \in Nat
BY DEF Origin, IsRule

LEMMA LimitedFacts ==
  ASSUME NEW n \in Int, NEW a \in Maybe, NEW b \in Maybe, NEW c \in Maybe
  PROVE  LET few == {a, b, c}
             most == Limited(n, few)
         IN /\ most \in Int /\ most <= n
            /\ \A x \in few \ {None} : most <= x
            /\ \A x \in Int : x <= n /\ (\A y \in few \ {None} : x <= y) => x <= most
<1> DEFINE S == {n, a, b, c} \ {None}
<1>1. n \in Maybe /\ n # None
  BY RequestsAssumption DEF Maybe
<1>2. S \in SUBSET Int /\ (S # {} => Min(S) \in S /\ \A y \in S : Min(S) <= y)
  BY <1>1, LeastOfFew
<1>3. {n} \cup ({a, b, c} \ {None}) = S /\ n \in S
  BY <1>1
<1> HIDE DEF S
<1>4. Limited(n, {a, b, c}) = Min(S)
  BY <1>3, Zenon DEF Limited
<1>5. Min(S) \in S /\ Min(S) \in Int /\ \A y \in S : Min(S) <= y
  BY <1>2, <1>3
<1>6. \A x \in S : x = n \/ x \in {a, b, c} \ {None}
  BY <1>3
<1>7. \A x \in {a, b, c} \ {None} : x \in S
  BY <1>3
<1> QED
  BY <1>3, <1>4, <1>5, <1>6, <1>7

LEMMA GreatestAmount ==
  ASSUME NEW amounts \in SUBSET Nat, IsFiniteSet(amounts), NEW n \in Int
  PROVE  LET best == Max({a \in amounts : a <= n} \cup {0})
         IN /\ best \in Nat
            /\ best # 0 => best \in amounts /\ best <= n
            /\ \A x \in amounts : x <= n => x <= best
<1> DEFINE S == {a \in amounts : a <= n} \cup {0}
<1>1. IsFiniteSet(S)
  <2> DEFINE T == {a \in amounts : a <= n}
  <2>1. IsFiniteSet(T)
    BY FS_Subset
  <2> HIDE DEF T
  <2>2. IsFiniteSet(T \cup {0})
    BY <2>1, FS_AddElement
  <2> QED
    BY <2>2 DEF T
<1>2. S \in SUBSET Nat /\ S # {}
  <2>1. 0 \in S /\ \A x \in S : x \in Nat
    OBVIOUS
  <2> HIDE DEF S
  <2> QED
    BY <2>1
<1>3. \A x \in S : x = 0 \/ (x \in amounts /\ x <= n)
  OBVIOUS
<1>4. \A x \in amounts : x <= n => x \in S
  OBVIOUS
<1> HIDE DEF S
<1>5. \E x \in S : \A y \in S : y <= x
  BY <1>1, <1>2, GreatestOfFinite
<1>6. \E x \in S : \A y \in S : x >= y
  BY <1>2, <1>5
<1>7. Max(S) \in S /\ \A y \in S : Max(S) >= y
  BY <1>6 DEF Max
<1>8. Max(S) \in Nat /\ \A y \in S : y <= Max(S)
  BY <1>2, <1>7
<1> QED
  BY <1>3, <1>4, <1>7, <1>8 DEF S

(* The greatest point of the grid that is no more than so many units.       *)
LEMMA OnGridFacts ==
  ASSUME NEW e, IsRule(e), NEW n \in Int
  PROVE  /\ OnGrid(e, n) \in Int
         /\ OnGrid(e, n) > 0 => OnGrid(e, n) <= n
         /\ OnGrid(e, n) > 0 /\ OnGrid(e, n) >= Origin(e) => GridPoint(e, OnGrid(e, n))
         /\ \A x \in Int : x <= n /\ GridPoint(e, x) => x <= OnGrid(e, n)
<1> DEFINE best == OnGrid(e, n)
           origin == Origin(e)
<1>1. origin \in Nat
  BY OriginType
<1>2. CASE e.increment # None
  <2> DEFINE inc == e.increment
             over == n - origin
             q == over \div inc
  <2>1. inc \in Nat \ {0} /\ e.amounts = None
    BY <1>2 DEF IsRule
  <2>2. best = IF n < origin THEN 0 ELSE origin + q * inc
    BY <1>2 DEF OnGrid, Origin
  <2>a. over \in Int
    BY <1>1
  <2> HIDE DEF best, origin, inc
  <2>3. q \in Int /\ q * inc <= over
    BY <2>1, <2>a, QuotientBounds
  <2>4. \A x \in Int : (x - origin) % inc = 0 /\ x <= n => x <= origin + q * inc
    <3> SUFFICES ASSUME NEW x \in Int, (x - origin) % inc = 0, x <= n
                 PROVE  x <= origin + q * inc
      OBVIOUS
    <3> DEFINE y == x - origin
               p == y \div inc
    <3>1. y \in Int /\ y <= over
      BY <1>1
    <3> HIDE DEF y
    <3>2. p \in Int /\ p * inc = y /\ p <= q
      <4>1. y % inc = 0
        BY DEF y
      <4>2. p * inc = y
        BY <2>1, <3>1, <4>1, Remainder
      <4> QED
        BY <2>1, <2>a, <3>1, <4>2, QuotientBounds, QuotientMonotone
    <3> HIDE DEF p, q
    <3>3. p * inc <= q * inc
      BY <2>1, <2>3, <3>2, ProductMonotone
    <3>4. y <= q * inc /\ q * inc \in Int
      BY <2>1, <2>3, <3>2, <3>3
    <3> QED
      BY <1>1, <3>4 DEF y
  <2>5. q * inc \in Int /\ (q * inc) % inc = 0
    BY <2>1, <2>3, Remainder
  <2> DEFINE r == q * inc
  <2>b. r \in Int /\ r % inc = 0 /\ r <= over /\ best = IF n < origin THEN 0 ELSE origin + r
    BY <2>2, <2>3, <2>5
  <2>c. \A x \in Int : (x - origin) % inc = 0 /\ x <= n => x <= origin + r
    BY <2>4
  <2> HIDE DEF r, q
  <2>6. best \in Int /\ (best > 0 => best <= n)
    BY <1>1, <2>a, <2>b
  <2>7. ASSUME best > 0, best >= origin PROVE (best - origin) % inc = 0
    <3>1. CASE n < origin
      BY <1>1, <2>b, <2>7, <3>1
    <3>2. CASE ~ (n < origin)
      <4>1. best = origin + r
        BY <2>b, <3>2
      <4>2. best - origin = r
        BY <1>1, <2>b, <4>1
      <4> QED
        BY <2>b, <4>2
    <3> QED
      BY <3>1, <3>2
  <2>8. ASSUME NEW x \in Int, x <= n, x >= origin, (x - origin) % inc = 0 PROVE x <= best
    BY <1>1, <2>8, <2>b, <2>c
  <2> QED
    BY <1>2, <2>1, <2>6, <2>7, <2>8 DEF best, inc, origin, GridPoint
<1>3. CASE e.increment = None /\ e.amounts # None
  <2>1. best = Max({a \in e.amounts : a <= n} \cup {0})
    BY <1>3 DEF OnGrid
  <2>2. e.amounts \in SUBSET Nat /\ IsFiniteSet(e.amounts)
    BY <1>3 DEF IsRule
  <2> HIDE DEF best
  <2>3. /\ best \in Nat
        /\ best # 0 => best \in e.amounts /\ best <= n
        /\ \A x \in e.amounts : x <= n => x <= best
    BY <2>1, <2>2, GreatestAmount
  <2> QED
    BY <1>1, <1>3, <2>3 DEF best, GridPoint
<1>4. CASE e.increment = None /\ e.amounts = None
  <2>1. best = n
    BY <1>4 DEF OnGrid
  <2> QED
    BY <1>1, <1>4, <2>1 DEF GridPoint
<1> QED
  BY <1>2, <1>3, <1>4

(* The most that the percentage leaves: alignSource's algebraic bound.      *)
Bound(e, available) ==
  IF e.percent = None THEN available - e.fee
  ELSE ((available - e.fee) * e.percent.den) \div (e.percent.den + e.percent.num)

LEMMA BoundFacts ==
  ASSUME NEW e, IsRule(e), NEW available \in Int
  PROVE  /\ Bound(e, available) \in Int
         /\ (e.percent # None => e.percent.up) =>
              \A x \in Int : x + Fee(e, x) <= available => x <= Bound(e, available)
<1> DEFINE paid == available - e.fee
<1>1. paid \in Int /\ e.fee \in Nat
  BY DEF IsRule
<1>2. CASE e.percent = None
  <2>1. \A x \in Int : Fee(e, x) = e.fee
    BY <1>1, <1>2 DEF Fee
  <2> QED
    BY <1>1, <1>2, <2>1 DEF Bound
<1>3. CASE e.percent # None
  <2> DEFINE num == e.percent.num
             den == e.percent.den
             whole == den + num
             part == paid * den
  <2>1. num \in Nat /\ den \in Nat \ {0} /\ whole \in Nat \ {0}
    BY <1>3 DEF IsRule
  <2>2. Bound(e, available) = part \div whole
    BY <1>3 DEF Bound
  <2> HIDE DEF paid
  <2>3. part \in Int
    BY <1>1, <2>1
  <2>4. Bound(e, available) \in Int
    <3> HIDE DEF part, whole
    <3> QED
      BY <2>1, <2>2, <2>3, QuotientBounds
  <2>5. ASSUME e.percent.up, NEW x \in Int, x + Fee(e, x) <= available
        PROVE  x <= Bound(e, available)
    <3> DEFINE a == -(x * num)
               d == a \div den
    <3>1. Fee(e, x) = e.fee + (-d)
      BY <1>3, <2>5 DEF Fee
    <3> HIDE DEF num, den
    <3>2. a \in Int
      BY <2>1
    <3> HIDE DEF a
    <3>3. d \in Int /\ d * den <= a
      BY <2>1, <3>2, QuotientBounds
    <3> HIDE DEF d
    <3>4. x - d <= paid
      BY <1>1, <2>5, <3>1, <3>3 DEF paid
    <3>5. (x - d) * den <= paid * den /\ (x - d) \in Int
      BY <1>1, <2>1, <3>3, <3>4, ProductMonotone
    <3>6. /\ (x - d) * den = x * den - d * den
          /\ x * whole = x * den + x * num
          /\ x * den \in Int /\ d * den \in Int /\ x * num \in Int
      BY <2>1, <3>3
    <3>7. x * num <= -(d * den)
      BY <3>2, <3>3, <3>6 DEF a
    <3>8. x * whole <= part
      BY <2>3, <3>5, <3>6, <3>7
    <3> HIDE DEF whole, part
    <3>9. x <= part \div whole
      BY <2>1, <2>3, <3>8, QuotientIsGreatest
    <3> QED
      BY <2>2, <3>9
  <2> QED
    BY <1>3, <2>4, <2>5
<1> QED
  BY <1>2, <1>3

(* alignSource: what it returns can move, and nothing more can, unless the  *)
(* percentage is rounded down.                                             *)
Moves(e, available, capLeft, tierLeft, n) ==
  /\ n + Fee(e, n) <= available
  /\ \A most \in {e.request, capLeft, tierLeft} \ {None} : n <= most
  /\ GridPoint(e, n)

LEMMA AlignedFacts ==
  ASSUME NEW e, IsRule(e), NEW available \in Int, NEW capLeft \in Maybe, NEW tierLeft \in Maybe
  PROVE  LET n == Aligned(e, available, capLeft, tierLeft)
         IN /\ n \in Nat
            /\ n > 0 => Moves(e, available, capLeft, tierLeft, n)
            /\ n > 0 /\ (e.percent # None => e.percent.up) =>
                 \A x \in Int : Moves(e, available, capLeft, tierLeft, x) => x <= n
<1> DEFINE few == {e.request, capLeft, tierLeft}
           most == Limited(Bound(e, available), few)
           n == OnGrid(e, most)
           aligned == Aligned(e, available, capLeft, tierLeft)
<1>1. aligned = IF /\ available - e.fee >= 0 /\ n > 0
                   /\ (e.min # None => n >= e.min) /\ n + Fee(e, n) <= available
                THEN n ELSE 0
  BY DEF Aligned, Bound
<1>2. Bound(e, available) \in Int
  BY BoundFacts
<1>3. e.request \in Maybe /\ Origin(e) \in Nat
  BY OriginType DEF IsRule, Maybe
<1>4. /\ most \in Int /\ most <= Bound(e, available)
      /\ \A x \in few \ {None} : most <= x
      /\ \A x \in Int : x <= Bound(e, available) /\ (\A y \in few \ {None} : x <= y) => x <= most
  BY <1>2, <1>3, LimitedFacts
<1> HIDE DEF most
<1>5. /\ n \in Int
      /\ n > 0 => n <= most
      /\ n > 0 /\ n >= Origin(e) => GridPoint(e, n)
      /\ \A x \in Int : x <= most /\ GridPoint(e, x) => x <= n
  BY <1>4, OnGridFacts
<1> HIDE DEF n, aligned
<1>6. aligned \in Nat
  BY <1>1, <1>5
<1>7. ASSUME aligned > 0 PROVE Moves(e, available, capLeft, tierLeft, aligned)
  <2>1. aligned = n /\ n > 0 /\ (e.min # None => n >= e.min) /\ n + Fee(e, n) <= available
    BY <1>1, <1>7
  <2>2. n >= Origin(e)
    BY <1>5, <2>1 DEF Origin
  <2>3. GridPoint(e, n) /\ n <= most
    BY <1>5, <2>1, <2>2
  <2>4. few \ {None} \subseteq Int
    BY <1>3 DEF Maybe
  <2>5. \A x \in few \ {None} : n <= x
    BY <1>4, <1>5, <2>3, <2>4
  <2> QED
    BY <2>1, <2>3, <2>5 DEF Moves
<1>8. ASSUME aligned > 0, e.percent # None => e.percent.up,
             NEW x \in Int, Moves(e, available, capLeft, tierLeft, x)
      PROVE  x <= aligned
  <2>1. x <= Bound(e, available)
    BY <1>8, BoundFacts DEF Moves
  <2>2. x <= most
    BY <1>4, <1>8, <2>1 DEF Moves
  <2>3. x <= n
    BY <1>5, <1>8, <2>2 DEF Moves
  <2>4. aligned = n
    BY <1>1, <1>8
  <2> QED
    BY <2>3, <2>4
<1> QED
  BY <1>6, <1>7, <1>8 DEF aligned

(* evaluateTransfer pays no more than the amount that was worked back from. *)
LEMMA PaidFacts ==
  ASSUME NEW e, IsRule(e), NEW n \in Nat
  PROVE  /\ Paid(e, n) \in Nat
         /\ \A after \in Int : n <= (after * e.src) \div e.dst => Paid(e, n) <= after
<1> DEFINE src == e.src
           dst == e.dst
           units == n * dst
<1>1. src \in Nat \ {0} /\ dst \in Nat \ {0}
  BY DEF IsRule
<1> HIDE DEF src, dst
<1>2. units \in Nat
  BY <1>1
<1> HIDE DEF units
<1>3. units \div src \in Nat
  BY <1>1, <1>2, QuotientOfNatural
<1>4. ASSUME NEW after \in Int, n <= (after * src) \div dst
      PROVE  units \div src <= after
  <2> DEFINE back == after * src
  <2>1. back \in Int
    BY <1>1
  <2>2. n * dst <= back
    <3> HIDE DEF back
    <3>1. n <= back \div dst
      BY <1>4 DEF back
    <3> QED
      BY <1>1, <2>1, <3>1, QuotientIsGreatest
  <2> DEFINE q == units \div src
  <2>3. q \in Int /\ q * src <= units
    BY <1>1, <1>2, QuotientBounds
  <2> HIDE DEF q
  <2>4. q * src <= after * src
    BY <1>1, <1>2, <2>1, <2>2, <2>3 DEF units
  <2>5. q < after + 1
    <3>1. q * src < (after + 1) * src
      BY <1>1, <2>3, <2>4
    <3>2. after + 1 \in Int /\ src \in Nat
      BY <1>1
    <3> QED
      BY <2>3, <3>1, <3>2, ProductReflects
  <2> QED
    BY <2>3, <2>5 DEF q
<1> QED
  BY <1>3, <1>4 DEF Paid, units, src, dst

-----------------------------------------------------------------------------
(* What a leg is priced with.                                              *)

Priced(q, capsLeft, used) ==
  /\ q \in Requests
  /\ used \in [Keys(q) -> Nat]
  /\ \A e \in Usable(q) : e.cap # None =>
       /\ capsLeft[e.key] \in Int
       /\ capsLeft[e.key] > 0 => capsLeft[e.key] = e.cap - used[e.key]

LEMMA UsableFacts ==
  ASSUME NEW q \in Requests, NEW e \in Usable(q)
  PROVE  /\ IsRule(e) /\ e \in q.rules /\ e.key \in Keys(q)
         /\ {e.cap, e.tierMin, e.tierMax} # {None} => q.used[e.key] \in Nat
<1>1. e \in q.rules /\ ({e.cap, e.tierMin, e.tierMax} # {None} => q.used[e.key] # None)
  BY DEF Usable
<1>2. IsRule(e) /\ q.used[e.key] \in Nat \cup {None}
  BY <1>1, RequestsAssumption DEF IsRule
<1> QED
  BY <1>1, <1>2 DEF Keys

LEMMA LeftTypes ==
  ASSUME NEW q, NEW capsLeft, NEW used, Priced(q, capsLeft, used), NEW e \in Usable(q)
  PROVE  /\ CapLeft(e, capsLeft) \in Maybe
         /\ \A use \in Int : TierLeft(e, use) \in Maybe
         /\ e.request \in Maybe
         /\ used[e.key] \in Nat
<1>1. IsRule(e) /\ e.key \in Keys(q)
  BY UsableFacts DEF Priced
<1>2. e.cap # None => capsLeft[e.key] \in Int
  BY DEF Priced
<1>3. e.tierMax \in Nat \cup {None} /\ e.request \in Nat \cup {None}
  BY <1>1 DEF IsRule
<1>4. used[e.key] \in Nat
  BY <1>1 DEF Priced
<1>5. CapLeft(e, capsLeft) \in Maybe
  BY <1>2 DEF CapLeft, Maybe
<1>6. \A use \in Int : TierLeft(e, use) \in Maybe
  BY <1>3 DEF TierLeft, Maybe
<1> QED
  BY <1>3, <1>4, <1>5, <1>6 DEF Maybe

(* What a hop that is given no more than Before says does not leave behind. *)
LEMMA BeforeFacts ==
  ASSUME NEW q, NEW capsLeft, NEW used, Priced(q, capsLeft, used), NEW e \in Usable(q),
         NEW after \in Maybe
  PROVE  LET most == Before(e, after, capsLeft, used)
         IN /\ most \in Maybe
            /\ \A given \in Int : (most # None => given <= most) =>
                 /\ \A x \in {e.request, CapLeft(e, capsLeft), TierLeft(e, used[e.key])} \ {None} :
                      given <= x + Fee(e, x)
                 /\ \A n \in Int : after # None /\ n + Fee(e, n) <= given =>
                      n <= (after * e.src) \div e.dst
<1> DEFINE most == Before(e, after, capsLeft, used)
           capLeft == CapLeft(e, capsLeft)
           tierLeft == TierLeft(e, used[e.key])
           source == IF after = None THEN None ELSE (after * e.src) \div e.dst
           limits == {e.request, capLeft, tierLeft, source} \ {None}
<1>1. IsRule(e) /\ e.request \in Maybe /\ capLeft \in Maybe /\ tierLeft \in Maybe
  BY UsableFacts, LeftTypes DEF Priced
<1>2. source \in Maybe
  <2>1. CASE after = None
    BY <2>1 DEF Maybe
  <2>2. CASE after # None
    <3>1. e.src \in Nat \ {0} /\ e.dst \in Nat \ {0} /\ after \in Int
      BY <1>1, <2>2 DEF IsRule, Maybe
    <3>2. after * e.src \in Int
      BY <3>1, ProductType
    <3>3. (after * e.src) \div e.dst \in Int
      BY <3>1, <3>2, QuotientBounds
    <3> QED
      BY <2>2, <3>3 DEF Maybe
  <2> QED
    BY <2>1, <2>2
<1>3. most = IF limits = {} THEN None ELSE Min(limits) + Fee(e, Min(limits))
  BY DEF Before
<1> HIDE DEF capLeft, tierLeft
<1>4. \A x \in {e.request, capLeft, tierLeft} \ {None} : x \in limits
  OBVIOUS
<1>5. after # None => source \in limits /\ source = (after * e.src) \div e.dst
  <2>1. None \notin Int
    BY RequestsAssumption
  <2>2. ASSUME after # None PROVE source \in Int
    BY <1>1, <2>1, <2>2, QuotientBounds, ProductType DEF Maybe, IsRule
  <2> QED
    BY <2>1, <2>2
<1> HIDE DEF source
<1>6. limits \in SUBSET Int /\ (limits # {} => Min(limits) \in limits /\ \A y \in limits : Min(limits) <= y)
  BY <1>1, <1>2, LeastOfFew
<1> HIDE DEF limits, most
<1>7. most \in Maybe /\ (limits # {} => most \in Int)
  <2>1. CASE limits = {}
    BY <1>3, <2>1 DEF Maybe
  <2>2. CASE limits # {}
    <3> DEFINE m == Min(limits)
    <3>1. m \in Int /\ m <= m /\ most = m + Fee(e, m)
      BY <1>3, <1>6, <2>2
    <3> HIDE DEF m
    <3>2. Fee(e, m) \in Int
      BY <1>1, <3>1, FeeGrows
    <3> QED
      BY <3>1, <3>2 DEF Maybe
  <2> QED
    BY <2>1, <2>2
<1>8. ASSUME NEW given \in Int, most # None => given <= most, NEW x \in limits
      PROVE  given <= x + Fee(e, x)
  <2> DEFINE m == Min(limits)
  <2>1. limits # {} /\ most = m + Fee(e, m) /\ m \in Int /\ x \in Int /\ m <= x
    BY <1>3, <1>6, <1>8
  <2> HIDE DEF m
  <2>2. m + Fee(e, m) <= x + Fee(e, x) /\ m + Fee(e, m) \in Int /\ x + Fee(e, x) \in Int
    BY <1>1, <2>1, PriceGrows
  <2>3. given <= most
    BY <1>7, <1>8, <2>1, RequestsAssumption
  <2> QED
    BY <2>1, <2>2, <2>3
<1>9. ASSUME NEW given \in Int, most # None => given <= most, NEW n \in Int,
             after # None, n + Fee(e, n) <= given
      PROVE  n <= source
  <2>1. source \in limits /\ source \in Int
    BY <1>5, <1>6, <1>9
  <2>2. given <= source + Fee(e, source)
    BY <1>8, <1>9, <2>1
  <2>3. n + Fee(e, n) \in Int /\ source + Fee(e, source) \in Int
    BY <1>1, <2>1, FeeGrows
  <2>4. n + Fee(e, n) <= source + Fee(e, source)
    BY <1>9, <2>2, <2>3
  <2> QED
    BY <1>1, <2>1, <2>4, FeeReflects
<1> QED
  BY <1>4, <1>5, <1>7, <1>8, <1>9 DEF most, capLeft, tierLeft

-----------------------------------------------------------------------------
(* The three folds along a path as the sequence of what each hop leaves.    *)

Backing(g, capsLeft, used, n, seq) ==
  /\ g \in [0..n -> Maybe]
  /\ g[0] = None
  /\ g[n] = FoldLeft(LAMBDA after, e : Before(e, after, capsLeft, used), None, seq)
  /\ \A m \in 1..n : g[m] = Before(seq[m], g[m - 1], capsLeft, used)

LEMMA CapacityTrace ==
  ASSUME NEW q, NEW capsLeft, NEW used, Priced(q, capsLeft, used),
         NEW n \in Nat, NEW seq \in [1..n -> Usable(q)]
  PROVE  \E g : Backing(g, capsLeft, used, n, seq)
<1> DEFINE base == None
           Folds(iter) ==
             iter = [t \in SUBSET (1..n) |->
                       IF t = {} THEN base
                       ELSE Before(seq[Greatest(t)], iter[t \ {Greatest(t)}], capsLeft, used)]
<1>1. FoldLeft(LAMBDA after, e : Before(e, after, capsLeft, used), base, seq)
        = (CHOOSE iter : Folds(iter))[1..n]
  BY Zenon DEF FoldLeft, MapThenFoldSet, Max, Greatest
<1>2. base \in Maybe
  BY DEF Maybe
<1>3. ASSUME NEW v \in Maybe, NEW i \in 1..n PROVE Before(seq[i], v, capsLeft, used) \in Maybe
  <2>1. seq[i] \in Usable(q)
    OBVIOUS
  <2> QED
    BY <2>1, BeforeFacts
<1> HIDE DEF base
<1> DEFINE chosen == CHOOSE iter : Folds(iter)
<1>4. Folds(chosen)
  <2> DEFINE step == [p \in Maybe \X (1..n) |-> Before(seq[p[2]], p[1], capsLeft, used)]
  <2>1. \A v \in Maybe, i \in 1..n : step[<<v, i>>] = Before(seq[i], v, capsLeft, used)
    OBVIOUS
  <2> HIDE DEF step
  <2>2. \A v \in Maybe, i \in 1..n : step[<<v, i>>] \in Maybe
    BY <1>3, <2>1
  <2>3. PICK iter \in [SUBSET (1..n) -> Maybe] : FoldsUp(iter, n, base, step)
    BY <1>2, <2>2, FoldExists
  <2>4. \A t \in SUBSET (1..n) : t # {} => Greatest(t) \in 1..n
    BY GreatestIsMember
  <2>5. \A t \in SUBSET (1..n) : t # {} =>
          step[<<iter[t \ {Greatest(t)}], Greatest(t)>>]
            = Before(seq[Greatest(t)], iter[t \ {Greatest(t)}], capsLeft, used)
    BY <2>1, <2>3, <2>4
  <2>6. Folds(iter)
    BY <2>3, <2>5 DEF FoldsUp
  <2> QED
    BY <2>6
<1> HIDE DEF chosen
<1>5. ASSUME NEW m \in 1..n
      PROVE  chosen[1..m] = Before(seq[m], chosen[1..(m - 1)], capsLeft, used)
  <2>1. m \in Nat \ {0} /\ 1..m \in SUBSET (1..n)
    OBVIOUS
  <2>2. Greatest(1..m) = m /\ (1..m) \ {m} = 1..(m - 1) /\ 1..m # {}
    BY <2>1, GreatestOfInterval
  <2> QED
    BY <1>4, <2>1, <2>2
<1>6. chosen[1..0] = base
  BY <1>4
<1> DEFINE g == [m \in 0..n |-> chosen[1..m]]
           Typed == {m \in 0..n : g[m] \in Maybe}
<1>7. g[0] = base /\ g[n] = chosen[1..n]
  BY <1>6
<1>8. \A m \in 1..n : g[m] = Before(seq[m], g[m - 1], capsLeft, used)
  BY <1>5
<1> HIDE DEF g
<1>9. \A m \in 0..n : m \in Typed
  <2>1. 0 \in Typed
    BY <1>2, <1>7
  <2>2. ASSUME NEW m \in 1..n, m - 1 \in Typed PROVE m \in Typed
    <3>1. m - 1 \in 0..n /\ g[m - 1] \in Maybe /\ m \in 0..n
      BY <2>2
    <3> QED
      BY <1>3, <1>8, <3>1
  <2> HIDE DEF Typed
  <2> QED
    BY <2>1, <2>2, RangeInduction
<1>10. g \in [0..n -> Maybe]
  BY <1>9 DEF g
<1> QED
  BY <1>1, <1>7, <1>8, <1>10 DEF chosen, base, Backing

Demand == [amount : Int, over : BOOLEAN]

Asking(g, input, capsLeft, used, n, seq) ==
  /\ g \in [0..n -> Demand]
  /\ g[0] = [amount |-> input, over |-> FALSE]
  /\ g[n] = FoldLeft(LAMBDA w, e : Asked(w, e, capsLeft, used), g[0], seq)
  /\ \A m \in 1..n : g[m] = Asked(g[m - 1], seq[m], capsLeft, used)

LEMMA AskedTrace ==
  ASSUME NEW q, NEW capsLeft, NEW used, Priced(q, capsLeft, used),
         NEW n \in Nat, NEW seq \in [1..n -> Usable(q)],
         NEW input \in Int
  PROVE  \E g : Asking(g, input, capsLeft, used, n, seq)
<1> DEFINE base == [amount |-> input, over |-> FALSE]
           Folds(iter) ==
             iter = [t \in SUBSET (1..n) |->
                       IF t = {} THEN base
                       ELSE Asked(iter[t \ {Greatest(t)}], seq[Greatest(t)], capsLeft, used)]
<1>1. FoldLeft(LAMBDA w, e : Asked(w, e, capsLeft, used), base, seq)
        = (CHOOSE iter : Folds(iter))[1..n]
  BY Zenon DEF FoldLeft, MapThenFoldSet, Max, Greatest
<1>2. base \in Demand
  BY DEF Demand
<1>3. ASSUME NEW v \in Demand, NEW i \in 1..n PROVE Asked(v, seq[i], capsLeft, used) \in Demand
  <2>1. seq[i] \in Usable(q)
    OBVIOUS
  <2>2. IsRule(seq[i]) /\ CapLeft(seq[i], capsLeft) \in Maybe
        /\ TierLeft(seq[i], used[seq[i].key]) \in Maybe
    BY <2>1, UsableFacts, LeftTypes DEF Priced
  <2>3. v.amount \in Int
    BY DEF Demand
  <2> DEFINE aligned == Aligned(seq[i], v.amount, CapLeft(seq[i], capsLeft),
                                TierLeft(seq[i], used[seq[i].key]))
  <2>4. aligned \in Nat
    BY <2>2, <2>3, AlignedFacts
  <2> HIDE DEF aligned
  <2>5. Paid(seq[i], aligned) \in Int
    BY <2>2, <2>4, PaidFacts
  <2> QED
    BY <2>5 DEF Asked, aligned, Demand
<1> HIDE DEF base
<1> DEFINE chosen == CHOOSE iter : Folds(iter)
<1>4. Folds(chosen)
  <2> DEFINE step == [p \in Demand \X (1..n) |-> Asked(p[1], seq[p[2]], capsLeft, used)]
  <2>1. \A v \in Demand, i \in 1..n : step[<<v, i>>] = Asked(v, seq[i], capsLeft, used)
    OBVIOUS
  <2> HIDE DEF step
  <2>2. \A v \in Demand, i \in 1..n : step[<<v, i>>] \in Demand
    BY <1>3, <2>1
  <2>3. PICK iter \in [SUBSET (1..n) -> Demand] : FoldsUp(iter, n, base, step)
    BY <1>2, <2>2, FoldExists
  <2>4. \A t \in SUBSET (1..n) : t # {} => Greatest(t) \in 1..n
    BY GreatestIsMember
  <2>5. \A t \in SUBSET (1..n) : t # {} =>
          step[<<iter[t \ {Greatest(t)}], Greatest(t)>>]
            = Asked(iter[t \ {Greatest(t)}], seq[Greatest(t)], capsLeft, used)
    BY <2>1, <2>3, <2>4
  <2>6. Folds(iter)
    BY <2>3, <2>5 DEF FoldsUp
  <2> QED
    BY <2>6
<1> HIDE DEF chosen
<1>5. ASSUME NEW m \in 1..n
      PROVE  chosen[1..m] = Asked(chosen[1..(m - 1)], seq[m], capsLeft, used)
  <2>1. m \in Nat \ {0} /\ 1..m \in SUBSET (1..n)
    OBVIOUS
  <2>2. Greatest(1..m) = m /\ (1..m) \ {m} = 1..(m - 1) /\ 1..m # {}
    BY <2>1, GreatestOfInterval
  <2> QED
    BY <1>4, <2>1, <2>2
<1>6. chosen[1..0] = base
  BY <1>4
<1> DEFINE g == [m \in 0..n |-> chosen[1..m]]
           Typed == {m \in 0..n : g[m] \in Demand}
<1>7. g[0] = base /\ g[n] = chosen[1..n]
  BY <1>6
<1>8. \A m \in 1..n : g[m] = Asked(g[m - 1], seq[m], capsLeft, used)
  BY <1>5
<1> HIDE DEF g
<1>9. \A m \in 0..n : m \in Typed
  <2>1. 0 \in Typed
    BY <1>2, <1>7
  <2>2. ASSUME NEW m \in 1..n, m - 1 \in Typed PROVE m \in Typed
    <3>1. m - 1 \in 0..n /\ g[m - 1] \in Demand /\ m \in 0..n
      BY <2>2
    <3> QED
      BY <1>3, <1>8, <3>1
  <2> HIDE DEF Typed
  <2> QED
    BY <2>1, <2>2, RangeInduction
<1>10. g \in [0..n -> Demand]
  BY <1>9 DEF g
<1> QED
  BY <1>1, <1>7, <1>8, <1>10 DEF chosen, base, Asking

Hop(q) == [rule : Usable(q), given : Int, moved : Nat, fee : Nat, paid : Nat]

Walk(q) == [amount : Int, day : Nat \cup {None}, hops : Seq(Hop(q))]

Walking(g, q, input, capsLeft, used, n, seq) ==
  /\ g \in [0..n -> Walk(q)]
  /\ g[0] = [amount |-> input, day |-> 0, hops |-> <<>>]
  /\ g[n] = FoldLeft(LAMBDA w, e : Walked(w, e, capsLeft, used), g[0], seq)
  /\ \A m \in 1..n : g[m] = Walked(g[m - 1], seq[m], capsLeft, used)

(* What a path moves under one key.                                         *)
LEMMA MovedByFacts ==
  ASSUME NEW q, NEW hops \in Seq(Hop(q)), NEW key
  PROVE  /\ MovedBy(hops, key) \in Nat
         /\ (\A i \in DOMAIN hops : hops[i].rule.key # key) => MovedBy(hops, key) = 0
<1> DEFINE w == [i \in DOMAIN hops |-> hops[i].moved]
           S == {i \in DOMAIN hops : hops[i].rule.key = key}
<1>1. DOMAIN hops = 1..Len(hops) /\ Len(hops) \in Nat
  OBVIOUS
<1>2. IsFiniteSet(S)
  <2>1. IsFiniteSet(1..Len(hops)) /\ S \subseteq 1..Len(hops)
    BY <1>1, FS_Interval
  <2> HIDE DEF S
  <2> QED
    BY <2>1, FS_Subset
<1>3. \A i \in S : w[i] \in Nat
  <2>1. ASSUME NEW i \in DOMAIN hops PROVE hops[i].moved \in Nat
    <3>1. hops[i] \in Hop(q)
      BY <1>1
    <3> QED
      BY <3>1 DEF Hop
  <2> QED
    BY <2>1
<1>4. MovedBy(hops, key) = SumFunctionOnSet(w, S)
  BY DEF MovedBy
<1>5. (\A i \in DOMAIN hops : hops[i].rule.key # key) => S = {}
  OBVIOUS
<1> HIDE DEF w, S
<1> QED
  BY <1>2, <1>3, <1>4, <1>5, SumRecursion

UseAt(w, e, used) == used[e.key] + MovedBy(w.hops, e.key)

MovedAt(w, e, capsLeft, used) ==
  Aligned(e, w.amount, CapLeft(e, capsLeft), TierLeft(e, UseAt(w, e, used)))

HopAt(w, e, capsLeft, used) ==
  [rule |-> e, given |-> w.amount, moved |-> MovedAt(w, e, capsLeft, used),
   fee |-> Fee(e, MovedAt(w, e, capsLeft, used)), paid |-> Paid(e, MovedAt(w, e, capsLeft, used))]

(* A hop is walked, or nothing more is.                                     *)
Hopped(w, next, e, capsLeft, used) ==
  /\ next.hops = Append(w.hops, HopAt(w, e, capsLeft, used))
  /\ next.amount = HopAt(w, e, capsLeft, used).paid
  /\ MovedAt(w, e, capsLeft, used) > 0
  /\ e.tierMin # None => UseAt(w, e, used) >= e.tierMin

LEMMA WalkedFacts ==
  ASSUME NEW q, NEW capsLeft, NEW used, Priced(q, capsLeft, used), NEW e \in Usable(q),
         NEW w \in Walk(q)
  PROVE  LET next == Walked(w, e, capsLeft, used)
         IN /\ next \in Walk(q) /\ UseAt(w, e, used) \in Nat /\ HopAt(w, e, capsLeft, used) \in Hop(q)
            /\ next.hops = w.hops \/ Hopped(w, next, e, capsLeft, used)
<1> DEFINE use == UseAt(w, e, used)
           moved == MovedAt(w, e, capsLeft, used)
           hop == [rule |-> e, given |-> w.amount, moved |-> moved,
                   fee |-> Fee(e, moved), paid |-> Paid(e, moved)]
           day == IF w.day = None \/ e.days = None THEN None ELSE w.day + e.days
           next == Walked(w, e, capsLeft, used)
<1>1. w.amount \in Int /\ w.day \in Nat \cup {None} /\ w.hops \in Seq(Hop(q))
  BY DEF Walk
<1>2. IsRule(e) /\ CapLeft(e, capsLeft) \in Maybe /\ used[e.key] \in Nat
  BY UsableFacts, LeftTypes DEF Priced
<1>3. use \in Nat
  BY <1>1, <1>2, MovedByFacts DEF UseAt
<1>a. moved = Aligned(e, w.amount, CapLeft(e, capsLeft), TierLeft(e, use))
  BY DEF MovedAt
<1>b. hop = HopAt(w, e, capsLeft, used)
  BY DEF HopAt
<1> HIDE DEF use
<1>4. TierLeft(e, use) \in Maybe
  BY <1>3, LeftTypes
<1>5. moved \in Nat
  BY <1>1, <1>2, <1>4, <1>a, AlignedFacts
<1> HIDE DEF moved
<1>6. Fee(e, moved) \in Nat /\ Paid(e, moved) \in Nat
  BY <1>2, <1>5, FeeOfNatural, PaidFacts
<1>7. hop \in Hop(q)
  BY <1>1, <1>5, <1>6 DEF Hop
<1>8. day \in Nat \cup {None}
  BY <1>1, <1>2 DEF IsRule
<1> HIDE DEF day
<1>9. \/ next = [amount |-> Paid(e, moved), day |-> day, hops |-> Append(w.hops, hop)]
         /\ moved > 0 /\ (e.tierMin # None => use >= e.tierMin)
      \/ next = [w EXCEPT !.amount = 0]
  BY <1>a DEF Walked, UseAt, use, day
<1> HIDE DEF next
<1>10. CASE next = [w EXCEPT !.amount = 0]
  <2>1. next \in Walk(q) /\ next.hops = w.hops
    BY <1>10 DEF Walk
  <2> QED
    BY <1>3, <1>7, <1>b, <2>1 DEF next, use
<1>11. CASE /\ next = [amount |-> Paid(e, moved), day |-> day, hops |-> Append(w.hops, hop)]
            /\ moved > 0 /\ (e.tierMin # None => use >= e.tierMin)
  <2> DEFINE more == Append(w.hops, hop)
  <2>1. more \in Seq(Hop(q))
    BY <1>1, <1>7
  <2>2. hop.paid = Paid(e, moved)
    OBVIOUS
  <2> HIDE DEF hop, more
  <2>3. next \in Walk(q) /\ next.hops = more /\ next.amount = hop.paid
    BY <1>6, <1>8, <1>11, <2>1, <2>2 DEF Walk, more
  <2> QED
    BY <1>3, <1>7, <1>b, <1>11, <2>3 DEF Hopped, next, use, moved, more
<1> QED
  BY <1>9, <1>10, <1>11

LEMMA WalkTrace ==
  ASSUME NEW q, NEW capsLeft, NEW used, Priced(q, capsLeft, used),
         NEW n \in Nat, NEW seq \in [1..n -> Usable(q)],
         NEW input \in Int
  PROVE  \E g : Walking(g, q, input, capsLeft, used, n, seq)
<1> DEFINE base == [amount |-> input, day |-> 0, hops |-> <<>>]
           Folds(iter) ==
             iter = [t \in SUBSET (1..n) |->
                       IF t = {} THEN base
                       ELSE Walked(iter[t \ {Greatest(t)}], seq[Greatest(t)], capsLeft, used)]
<1>1. FoldLeft(LAMBDA w, e : Walked(w, e, capsLeft, used), base, seq)
        = (CHOOSE iter : Folds(iter))[1..n]
  BY Zenon DEF FoldLeft, MapThenFoldSet, Max, Greatest
<1>2. base \in Walk(q)
  BY DEF Walk
<1>3. ASSUME NEW v \in Walk(q), NEW i \in 1..n PROVE Walked(v, seq[i], capsLeft, used) \in Walk(q)
  <2>1. seq[i] \in Usable(q)
    OBVIOUS
  <2> QED
    BY <2>1, WalkedFacts
<1> HIDE DEF base
<1> DEFINE chosen == CHOOSE iter : Folds(iter)
<1>4. Folds(chosen)
  <2> DEFINE step == [p \in Walk(q) \X (1..n) |-> Walked(p[1], seq[p[2]], capsLeft, used)]
  <2>1. \A v \in Walk(q), i \in 1..n : step[<<v, i>>] = Walked(v, seq[i], capsLeft, used)
    OBVIOUS
  <2> HIDE DEF step
  <2>2. \A v \in Walk(q), i \in 1..n : step[<<v, i>>] \in Walk(q)
    BY <1>3, <2>1
  <2>3. PICK iter \in [SUBSET (1..n) -> Walk(q)] : FoldsUp(iter, n, base, step)
    BY <1>2, <2>2, FoldExists
  <2>4. \A t \in SUBSET (1..n) : t # {} => Greatest(t) \in 1..n
    BY GreatestIsMember
  <2>5. \A t \in SUBSET (1..n) : t # {} =>
          step[<<iter[t \ {Greatest(t)}], Greatest(t)>>]
            = Walked(iter[t \ {Greatest(t)}], seq[Greatest(t)], capsLeft, used)
    BY <2>1, <2>3, <2>4
  <2>6. Folds(iter)
    BY <2>3, <2>5 DEF FoldsUp
  <2> QED
    BY <2>6
<1> HIDE DEF chosen
<1>5. ASSUME NEW m \in 1..n
      PROVE  chosen[1..m] = Walked(chosen[1..(m - 1)], seq[m], capsLeft, used)
  <2>1. m \in Nat \ {0} /\ 1..m \in SUBSET (1..n)
    OBVIOUS
  <2>2. Greatest(1..m) = m /\ (1..m) \ {m} = 1..(m - 1) /\ 1..m # {}
    BY <2>1, GreatestOfInterval
  <2> QED
    BY <1>4, <2>1, <2>2
<1>6. chosen[1..0] = base
  BY <1>4
<1> DEFINE g == [m \in 0..n |-> chosen[1..m]]
           Typed == {m \in 0..n : g[m] \in Walk(q)}
<1>7. g[0] = base /\ g[n] = chosen[1..n]
  BY <1>6
<1>8. \A m \in 1..n : g[m] = Walked(g[m - 1], seq[m], capsLeft, used)
  BY <1>5
<1> HIDE DEF g
<1>9. \A m \in 0..n : m \in Typed
  <2>1. 0 \in Typed
    BY <1>2, <1>7
  <2>2. ASSUME NEW m \in 1..n, m - 1 \in Typed PROVE m \in Typed
    <3>1. m - 1 \in 0..n /\ g[m - 1] \in Walk(q) /\ m \in 0..n
      BY <2>2
    <3> QED
      BY <1>3, <1>8, <3>1
  <2> HIDE DEF Typed
  <2> QED
    BY <2>1, <2>2, RangeInduction
<1>10. g \in [0..n -> Walk(q)]
  BY <1>9 DEF g
<1> QED
  BY <1>1, <1>7, <1>8, <1>10 DEF chosen, base, Walking

-----------------------------------------------------------------------------
(* The hops of a leg.                                                       *)

HopIs(h, e, given, capsLeft, use) ==
  /\ h.rule = e /\ h.given = given
  /\ h.moved = Aligned(e, given, CapLeft(e, capsLeft), TierLeft(e, use)) /\ h.moved > 0
  /\ h.fee = Fee(e, h.moved) /\ h.paid = Paid(e, h.moved)
  /\ e.tierMin # None => use >= e.tierMin

(* All the hops were walked: each got what the one before it paid.          *)
HopsAre(q, hops, n, seq, input, capsLeft, used) ==
  /\ hops \in Seq(Hop(q)) /\ Len(hops) = n
  /\ \A i \in 1..n : \E use \in Nat :
       /\ HopIs(hops[i], seq[i], IF i = 1 THEN input ELSE hops[i - 1].paid, capsLeft, use)
       /\ (\A m \in 1..(i - 1) : hops[m].rule.key # seq[i].key) => use = used[seq[i].key]

LEMMA RouteFacts ==
  ASSUME NEW q \in Requests, NEW path \in Routes(q)
  PROVE  Len(path) \in Nat \ {0} /\ path \in [1..Len(path) -> Usable(q)]
<1>1. PICK n \in 1..q.steps : path \in [1..n -> Usable(q)]
  BY DEF Routes
<1>2. q.steps \in Nat
  BY RequestsAssumption
<1>3. n \in Nat \ {0} /\ path \in Seq(Usable(q))
  BY <1>1, <1>2
<1>4. Len(path) = n
  BY <1>1, <1>3
<1> QED
  BY <1>1, <1>3, <1>4

LEMMA HopsFacts ==
  ASSUME NEW q, NEW capsLeft, NEW used, Priced(q, capsLeft, used),
         NEW n \in Nat, NEW seq \in [1..n -> Usable(q)], NEW input \in Int,
         Len(Hops(seq, input, capsLeft, used)) = n
  PROVE  HopsAre(q, Hops(seq, input, capsLeft, used), n, seq, input, capsLeft, used)
<1> DEFINE hops == Hops(seq, input, capsLeft, used)
<1>1. PICK g : Walking(g, q, input, capsLeft, used, n, seq)
  BY WalkTrace
<1>2. /\ \A m \in 0..n : g[m] \in Walk(q)
      /\ g[0].hops = <<>> /\ g[0].amount = input
      /\ \A m \in 1..n : g[m] = Walked(g[m - 1], seq[m], capsLeft, used)
  <2>1. /\ g \in [0..n -> Walk(q)]
        /\ g[0] = [amount |-> input, day |-> 0, hops |-> <<>>]
        /\ \A m \in 1..n : g[m] = Walked(g[m - 1], seq[m], capsLeft, used)
    BY <1>1, Zenon DEF Walking
  <2> QED
    BY <2>1
<1>3. g[n].hops = hops
  <2>1. g[0] = [amount |-> input, day |-> 0, hops |-> <<>>]
    BY <1>1, Zenon DEF Walking
  <2>2. g[n] = FoldLeft(LAMBDA w, e : Walked(w, e, capsLeft, used), g[0], seq)
    BY <1>1, Zenon DEF Walking
  <2> QED
    BY <2>1, <2>2, Zenon DEF Hops
<1> HIDE DEF hops
<1> DEFINE use(m) == UseAt(g[m - 1], seq[m], used)
           moved(m) == MovedAt(g[m - 1], seq[m], capsLeft, used)
           hop(m) == HopAt(g[m - 1], seq[m], capsLeft, used)
           Kept(m) == g[m].hops = g[m - 1].hops
           Stepped(m) == Hopped(g[m - 1], g[m], seq[m], capsLeft, used)
<1>4. ASSUME NEW m \in 1..n
      PROVE  use(m) \in Nat /\ hop(m) \in Hop(q) /\ (Kept(m) \/ Stepped(m))
  <2>1. seq[m] \in Usable(q) /\ g[m - 1] \in Walk(q)
    BY <1>2
  <2>2. g[m] = Walked(g[m - 1], seq[m], capsLeft, used)
    BY <1>2
  <2> QED
    BY <2>1, <2>2, WalkedFacts
<1>5. \A m \in 0..n : g[m].hops \in Seq(Hop(q)) /\ Len(g[m].hops) \in Nat
  <2>1. ASSUME NEW m \in 0..n PROVE g[m].hops \in Seq(Hop(q))
    BY <1>2 DEF Walk
  <2> QED
    BY <2>1
<1> HIDE DEF use, hop
<1>6. ASSUME NEW m \in 1..n, Stepped(m)
      PROVE  /\ Len(g[m].hops) = Len(g[m - 1].hops) + 1
             /\ g[m].hops[Len(g[m - 1].hops) + 1] = hop(m)
             /\ \A i \in 1..Len(g[m - 1].hops) : g[m].hops[i] = g[m - 1].hops[i]
  <2>1. /\ g[m - 1].hops \in Seq(Hop(q)) /\ hop(m) \in Hop(q)
        /\ g[m].hops = Append(g[m - 1].hops, hop(m))
    BY <1>4, <1>5, <1>6 DEF Hopped, hop
  <2> QED
    BY <2>1
<1> HIDE DEF Kept
<1>7. \A m \in 0..n : Len(g[m].hops) <= m
  <2> DEFINE S == {m \in 0..n : Len(g[m].hops) <= m}
  <2>1. 0 \in S
    BY <1>2
  <2>2. ASSUME NEW m \in 1..n, m - 1 \in S PROVE m \in S
    <3>1. Len(g[m - 1].hops) <= m - 1 /\ Len(g[m - 1].hops) \in Nat
      BY <1>5, <2>2
    <3>2. Len(g[m].hops) = Len(g[m - 1].hops) \/ Len(g[m].hops) = Len(g[m - 1].hops) + 1
      BY <1>4, <1>6 DEF Kept
    <3> QED
      BY <3>1, <3>2
  <2> HIDE DEF S
  <2>3. \A m \in 0..n : m \in S
    BY <2>1, <2>2, RangeInduction
  <2> QED
    BY <2>3 DEF S
<1> DEFINE Full(m) == Len(g[m].hops) = m /\ \A i \in 1..m : g[m].hops[i] = hops[i]
<1>8. ASSUME NEW m \in 1..n, Full(m) PROVE Stepped(m) /\ Full(m - 1)
  <2>1. Len(g[m - 1].hops) <= m - 1 /\ Len(g[m].hops) = m /\ Len(g[m - 1].hops) \in Nat
    BY <1>5, <1>7, <1>8
  <2>2. Stepped(m)
    BY <1>4, <2>1 DEF Kept
  <2>3. Len(g[m - 1].hops) = m - 1
    BY <1>6, <2>1, <2>2
  <2>4. \A i \in 1..(m - 1) : g[m - 1].hops[i] = g[m].hops[i]
    BY <1>6, <2>2, <2>3
  <2>5. \A i \in 1..(m - 1) : g[m - 1].hops[i] = hops[i]
    BY <1>8, <2>4
  <2> QED
    BY <2>2, <2>3, <2>5
<1>9. \A m \in 0..n : Full(m)
  <2> DEFINE S == {k \in 0..n : Full(n - k)}
  <2> HIDE DEF Full
  <2>1. 0 \in S
    BY <1>3 DEF Full, hops
  <2>2. ASSUME NEW k \in 1..n, k - 1 \in S PROVE k \in S
    <3>1. n - (k - 1) \in 1..n /\ n - k = (n - (k - 1)) - 1 /\ Full(n - (k - 1))
      BY <2>2
    <3> QED
      BY <1>8, <3>1
  <2> HIDE DEF S
  <2>3. \A k \in 0..n : k \in S
    BY <2>1, <2>2, RangeInduction
  <2>4. ASSUME NEW m \in 0..n PROVE Full(m)
    <3>1. n - m \in 0..n /\ n - (n - m) = m
      OBVIOUS
    <3> QED
      BY <2>3, <3>1 DEF S
  <2> QED
    BY <2>4
<1>10. hops \in Seq(Hop(q)) /\ Len(hops) = n
  BY <1>3, <1>5 DEF hops
<1>11. ASSUME NEW m \in 1..n
       PROVE  /\ Stepped(m) /\ hops[m] = hop(m)
              /\ g[m - 1].amount = IF m = 1 THEN input ELSE hops[m - 1].paid
  <2>1. m - 1 \in 0..n /\ m \in 0..n /\ m \in 1..m
    OBVIOUS
  <2>2. Full(m) /\ Full(m - 1)
    BY <1>9, <2>1
  <2>3. Stepped(m)
    BY <1>8, <2>2
  <2>4. hops[m] = g[m].hops[m]
    BY <2>1, <2>2
  <2>5. g[m].hops[m] = hop(m)
    <3>1. Len(g[m - 1].hops) = m - 1 /\ (m - 1) + 1 = m
      BY <2>2
    <3>2. g[m].hops[Len(g[m - 1].hops) + 1] = hop(m)
      BY <1>6, <2>3
    <3> QED
      BY <3>1, <3>2
  <2>6. CASE m = 1
    BY <1>2, <2>3, <2>4, <2>5, <2>6
  <2>7. CASE m # 1
    <3>1. m - 1 \in 1..n /\ m - 1 \in 1..(m - 1) /\ (m - 1) - 1 \in 0..n /\ (m - 1) - 1 = m - 2
      BY <2>7
    <3>2. Stepped(m - 1)
      BY <1>8, <2>2, <3>1
    <3>3. g[m - 1].amount = hop(m - 1).paid
      BY <3>2 DEF Hopped, hop
    <3>4. g[m - 1].hops[m - 1] = hop(m - 1)
      <4>1. Full((m - 1) - 1)
        BY <1>9, <3>1
      <4>2. Len(g[(m - 1) - 1].hops) + 1 = m - 1
        BY <4>1
      <4>3. g[m - 1].hops[Len(g[(m - 1) - 1].hops) + 1] = hop(m - 1)
        BY <1>6, <3>1, <3>2
      <4> QED
        BY <4>2, <4>3
    <3>5. g[m - 1].hops[m - 1] = hops[m - 1]
      BY <2>2, <3>1
    <3> QED
      BY <2>3, <2>4, <2>5, <2>7, <3>3, <3>4, <3>5
  <2> QED
    BY <2>6, <2>7
<1>12. ASSUME NEW m \in 1..n, \A i \in 1..(m - 1) : hops[i].rule.key # seq[m].key
       PROVE  use(m) = used[seq[m].key]
  <2> DEFINE before == g[m - 1].hops
             key == seq[m].key
  <2>1. m - 1 \in 0..n
    OBVIOUS
  <2>2. before \in Seq(Hop(q)) /\ Len(before) = m - 1 /\ \A i \in 1..(m - 1) : before[i] = hops[i]
    BY <1>5, <1>9, <2>1
  <2>3. \A i \in DOMAIN before : before[i].rule.key # key
    BY <1>12, <2>2
  <2> HIDE DEF before
  <2>4. MovedBy(before, key) = 0
    BY <2>2, <2>3, MovedByFacts
  <2>5. used[key] \in Nat
    BY LeftTypes
  <2> QED
    BY <2>4, <2>5 DEF use, UseAt, before
<1>13. ASSUME NEW m \in 1..n
       PROVE  HopIs(hops[m], seq[m], IF m = 1 THEN input ELSE hops[m - 1].paid, capsLeft, use(m))
  <2> DEFINE given == IF m = 1 THEN input ELSE hops[m - 1].paid
  <2>1. hops[m] = hop(m) /\ g[m - 1].amount = given /\ moved(m) > 0
        /\ (seq[m].tierMin # None => use(m) >= seq[m].tierMin)
    BY <1>11 DEF Hopped, use
  <2> HIDE DEF given
  <2>2. /\ hop(m).rule = seq[m] /\ hop(m).given = given /\ hop(m).moved = moved(m)
        /\ hop(m).fee = Fee(seq[m], moved(m)) /\ hop(m).paid = Paid(seq[m], moved(m))
        /\ moved(m) = Aligned(seq[m], given, CapLeft(seq[m], capsLeft), TierLeft(seq[m], use(m)))
    BY <2>1 DEF hop, HopAt, MovedAt, use
  <2> HIDE DEF moved
  <2> QED
    BY <2>1, <2>2 DEF HopIs, given
<1>14. ASSUME NEW m \in 1..n
       PROVE  \E u \in Nat :
                /\ HopIs(hops[m], seq[m], IF m = 1 THEN input ELSE hops[m - 1].paid, capsLeft, u)
                /\ (\A i \in 1..(m - 1) : hops[i].rule.key # seq[m].key) => u = used[seq[m].key]
  <2>1. use(m) \in Nat
    BY <1>4
  <2> QED
    BY <1>12, <1>13, <2>1
<1> QED
  BY <1>10, <1>14 DEF HopsAre, hops

-----------------------------------------------------------------------------
(* The properties of a leg when it is priced.                               *)

LEMMA HopIsSound ==
  ASSUME NEW q, NEW capsLeft, NEW used, Priced(q, capsLeft, used), NEW e \in Usable(q),
         NEW given \in Int, NEW use \in Nat, NEW h, HopIs(h, e, given, capsLeft, use)
  PROVE  /\ h.moved \in Nat /\ h.moved + Fee(e, h.moved) <= given
         /\ CapLeft(e, capsLeft) = IF e.cap = None THEN None ELSE e.cap - used[e.key]
         /\ use = used[e.key] =>
              /\ {e.request, CapLeft(e, capsLeft), TierLeft(e, used[e.key])} \ {None} = Maxima(e, used)
              /\ \A x \in Int : Moves(e, given, CapLeft(e, capsLeft), TierLeft(e, used[e.key]), x)
                                  <=> Acceptable(h, used, x)
              /\ Acceptable(h, used, h.moved)
              /\ (e.percent # None => e.percent.up) =>
                   \A x \in Int : Acceptable(h, used, x) => x <= h.moved
<1> DEFINE capLeft == CapLeft(e, capsLeft)
           tierLeft == TierLeft(e, use)
           n == Aligned(e, given, capLeft, tierLeft)
<1>1. IsRule(e) /\ capLeft \in Maybe /\ tierLeft \in Maybe
  BY UsableFacts, LeftTypes DEF Priced
<1>2. h.rule = e /\ h.given = given /\ h.moved = n /\ n > 0
  BY DEF HopIs
<1>3. e.cap # None => CapLeft(e, capsLeft) = capsLeft[e.key] /\ capsLeft[e.key] \in Int
        /\ (capsLeft[e.key] > 0 => capsLeft[e.key] = e.cap - used[e.key])
  BY DEF Priced, CapLeft
<1> HIDE DEF capLeft, tierLeft
<1>4. /\ n \in Nat
      /\ n > 0 => Moves(e, given, capLeft, tierLeft, n)
      /\ n > 0 /\ (e.percent # None => e.percent.up) =>
           \A x \in Int : Moves(e, given, capLeft, tierLeft, x) => x <= n
  BY <1>1, AlignedFacts
<1> HIDE DEF n
<1>5. n \in Nat /\ Moves(e, given, capLeft, tierLeft, n)
  BY <1>2, <1>4
<1>6. capLeft = IF e.cap = None THEN None ELSE e.cap - used[e.key]
  <2>1. CASE e.cap = None
    BY <2>1 DEF capLeft, CapLeft
  <2>2. CASE e.cap # None
    <3>1. capLeft \in Int /\ capLeft # None
      BY <1>3, <2>2, RequestsAssumption DEF capLeft
    <3>2. n <= capLeft
      BY <1>5, <3>1 DEF Moves
    <3>3. capLeft > 0
      BY <1>2, <1>5, <3>1, <3>2
    <3> QED
      BY <1>3, <2>2, <3>3 DEF capLeft
  <2> QED
    BY <2>1, <2>2
<1>7. ASSUME use = used[e.key]
      PROVE  {e.request, capLeft, tierLeft} \ {None} = Maxima(e, used)
  BY <1>6, <1>7 DEF Maxima, OwnMaxima, tierLeft
<1>8. ASSUME use = used[e.key], NEW x \in Int
      PROVE  Moves(e, given, capLeft, tierLeft, x) <=> Acceptable(h, used, x)
  <2> DEFINE maxima == Maxima(e, used)
  <2>1. Moves(e, given, capLeft, tierLeft, x)
          <=> x + Fee(e, x) <= given /\ (\A most \in maxima : x <= most) /\ GridPoint(e, x)
    BY <1>7, <1>8 DEF Moves
  <2>2. Acceptable(h, used, x)
          <=> x + Fee(e, x) <= given /\ (\A most \in maxima : x <= most) /\ GridPoint(e, x)
    BY <1>2 DEF Acceptable, GridPoint, Origin
  <2> QED
    BY <2>1, <2>2
<1>9. ASSUME use = used[e.key]
      PROVE  /\ Acceptable(h, used, h.moved)
             /\ (e.percent # None => e.percent.up) =>
                  \A x \in Int : Acceptable(h, used, x) => x <= h.moved
  <2>1. n \in Int
    BY <1>5
  <2>2. Acceptable(h, used, n)
    BY <1>5, <1>8, <1>9, <2>1
  <2> QED
    BY <1>2, <1>4, <1>8, <1>9, <2>2
<1>10. n + Fee(e, n) <= given
  BY <1>5 DEF Moves
<1> QED
  BY <1>2, <1>5, <1>6, <1>7, <1>8, <1>9, <1>10 DEF capLeft, tierLeft

HopTyped(q, hop, e) ==
  /\ hop \in Hop(q) /\ hop.rule = e
  /\ hop.given \in Int /\ hop.moved \in Nat /\ hop.fee \in Nat

LEMMA HopsAreTyped ==
  ASSUME NEW q, NEW hops, NEW n \in Nat, NEW seq, NEW input, NEW capsLeft, NEW used,
         HopsAre(q, hops, n, seq, input, capsLeft, used)
  PROVE  DOMAIN hops = 1..n /\ \A i \in 1..n : HopTyped(q, hops[i], seq[i])
<1> SUFFICES ASSUME NEW i \in 1..n PROVE DOMAIN hops = 1..n /\ HopTyped(q, hops[i], seq[i])
  <2>1. hops \in Seq(Hop(q)) /\ Len(hops) = n
    BY DEF HopsAre
  <2> QED
    BY <2>1
<1>1. hops \in Seq(Hop(q)) /\ Len(hops) = n
  BY DEF HopsAre
<1>2. DOMAIN hops = 1..n /\ hops[i] \in Hop(q)
  BY <1>1
<1>3. hops[i].given \in Int /\ hops[i].moved \in Nat /\ hops[i].fee \in Nat
  BY <1>2 DEF Hop
<1>4. PICK use \in Nat : HopIs(hops[i], seq[i], IF i = 1 THEN input ELSE hops[i - 1].paid, capsLeft, use)
  BY DEF HopsAre
<1> QED
  BY <1>2, <1>3, <1>4 DEF HopIs, HopTyped

(* With a key once, each hop was priced with the use before the leg.        *)
LEMMA HopsWithTheirUse ==
  ASSUME NEW q, NEW hops, NEW n \in Nat, NEW seq, NEW input \in Int, NEW capsLeft, NEW used,
         HopsAre(q, hops, n, seq, input, capsLeft, used), NEW i \in 1..n,
         \A a, b \in DOMAIN hops : hops[a].rule.key = hops[b].rule.key => a = b
  PROVE  HopIs(hops[i], seq[i], hops[i].given, capsLeft, used[seq[i].key])
<1>1. PICK use \in Nat :
        /\ HopIs(hops[i], seq[i], IF i = 1 THEN input ELSE hops[i - 1].paid, capsLeft, use)
        /\ (\A m \in 1..(i - 1) : hops[m].rule.key # seq[i].key) => use = used[seq[i].key]
  BY DEF HopsAre
<1>2. hops[i].rule = seq[i] /\ hops[i].given = (IF i = 1 THEN input ELSE hops[i - 1].paid)
      /\ DOMAIN hops = 1..n
  <2>1. hops \in Seq(Hop(q)) /\ Len(hops) = n
    BY DEF HopsAre
  <2>2. DOMAIN hops = 1..n
    BY <2>1
  <2> QED
    BY <1>1, <2>2 DEF HopIs
<1>3. ASSUME NEW m \in 1..(i - 1) PROVE hops[m].rule.key # seq[i].key
  <2>1. m \in DOMAIN hops /\ i \in DOMAIN hops /\ m # i
    BY <1>2
  <2> QED
    BY <1>2, <2>1
<1> QED
  BY <1>1, <1>2, <1>3

LEMMA FirstIsNotOver ==
  ASSUME NEW q, NEW capsLeft, NEW used, Priced(q, capsLeft, used),
         NEW n \in Nat \ {0}, NEW seq \in [1..n -> Usable(q)], NEW input \in Int,
         ~ Overasked(seq, input, capsLeft, used)
  PROVE  ~ Over(seq[1], input, capsLeft)
<1> SUFFICES ASSUME Over(seq[1], input, capsLeft) PROVE FALSE
  OBVIOUS
<1>1. PICK g : Asking(g, input, capsLeft, used, n, seq)
  BY AskedTrace
<1>2. /\ g \in [0..n -> Demand]
      /\ g[0] = [amount |-> input, over |-> FALSE]
      /\ \A m \in 1..n : g[m] = Asked(g[m - 1], seq[m], capsLeft, used)
  BY <1>1, Zenon DEF Asking
<1>3. g[n] = FoldLeft(LAMBDA w, e : Asked(w, e, capsLeft, used), g[0], seq)
  BY <1>1, Zenon DEF Asking
<1>4. g[n].over = Overasked(seq, input, capsLeft, used)
  BY <1>2, <1>3, Zenon DEF Overasked
<1>5. ASSUME NEW w \in Demand, NEW e, w.over \/ Over(e, w.amount, capsLeft)
      PROVE  Asked(w, e, capsLeft, used).over = TRUE
  <2>1. Asked(w, e, capsLeft, used) = [w EXCEPT !.over = TRUE]
    BY <1>5, Zenon DEF Asked
  <2>2. w \in [amount : Int, over : BOOLEAN]
    BY DEF Demand
  <2> QED
    BY <2>1, <2>2
<1> DEFINE S == {m \in 0..n : m = 0 \/ g[m].over = TRUE}
<1>6. 0 \in S
  OBVIOUS
<1>7. ASSUME NEW m \in 1..n, m - 1 \in S PROVE m \in S
  <2>1. g[m - 1] \in Demand /\ g[m] = Asked(g[m - 1], seq[m], capsLeft, used)
    BY <1>2
  <2>2. g[m - 1].over \/ Over(seq[m], g[m - 1].amount, capsLeft)
    <3>1. CASE m = 1
      <4>1. g[m - 1].amount = input
        BY <1>2, <3>1
      <4> QED
        BY <3>1, <4>1
    <3>2. CASE m # 1
      BY <1>7, <3>2
    <3> QED
      BY <3>1, <3>2
  <2>3. g[m].over = TRUE
    BY <1>5, <2>1, <2>2
  <2> QED
    BY <2>3
<1> HIDE DEF S
<1>8. n \in S
  BY <1>6, <1>7, RangeInduction
<1>9. g[n].over = TRUE
  BY <1>8 DEF S
<1> QED
  BY <1>4, <1>9

(* most[i] is the most that hop i can take, as it is worked back.           *)
MostOfEach(most, n, seq, capsLeft, used) ==
  /\ most \in [1..(n + 1) -> Maybe]
  /\ \A i \in 1..n : most[i] = Before(seq[i], most[i + 1], capsLeft, used)

Bounded(hops, n, most) == \A i \in 1..n : most[i] # None => hops[i].given <= most[i]

(* No hop is given more than the hops from there on can take.               *)
LEMMA GivenIsBounded ==
  ASSUME NEW q, NEW capsLeft, NEW used, Priced(q, capsLeft, used),
         NEW n \in Nat \ {0}, NEW seq \in [1..n -> Usable(q)], NEW input \in Int,
         NEW hops, HopsAre(q, hops, n, seq, input, capsLeft, used),
         NEW most, MostOfEach(most, n, seq, capsLeft, used), most[1] # None => input <= most[1]
  PROVE  Bounded(hops, n, most)
<1> DEFINE S == {i \in 0..n : i = 0 \/ (most[i] # None => hops[i].given <= most[i])}
<1>1. ASSUME NEW i \in 1..n PROVE hops[i].given \in Int /\ seq[i] \in Usable(q)
  BY HopsAreTyped DEF HopTyped
<1>a. /\ most \in [1..(n + 1) -> Maybe]
      /\ \A i \in 1..n : most[i] = Before(seq[i], most[i + 1], capsLeft, used)
  BY DEF MostOfEach
<1>2. 0 \in S
  OBVIOUS
<1>3. ASSUME NEW i \in 1..n, i - 1 \in S PROVE i \in S
  <2>1. CASE i = 1
    <3>1. PICK use \in Nat : HopIs(hops[1], seq[1], input, capsLeft, use)
      BY <2>1 DEF HopsAre
    <3>2. hops[1].given = input
      BY <3>1 DEF HopIs
    <3> QED
      BY <2>1, <3>2
  <2>2. CASE i # 1
    <3> DEFINE k == i - 1
               e == seq[k]
               given == hops[k].given
               moved == hops[k].moved
    <3>1. k \in 1..n /\ k + 1 = i /\ k # 0 /\ i \in 1..(n + 1)
      BY <2>2
    <3> HIDE DEF k
    <3>2. most[k] # None => given <= most[k]
      BY <1>3, <3>1 DEF k
    <3>3. given \in Int /\ e \in Usable(q) /\ most[i] \in Maybe
          /\ most[k] = Before(e, most[i], capsLeft, used)
      BY <1>1, <1>a, <3>1
    <3>4. PICK use \in Nat :
            HopIs(hops[k], e, IF k = 1 THEN input ELSE hops[k - 1].paid, capsLeft, use)
      BY <3>1 DEF HopsAre
    <3>5. HopIs(hops[k], e, given, capsLeft, use) /\ hops[k].paid = Paid(e, moved)
      BY <3>4 DEF HopIs
    <3>6. PICK later \in Nat :
            HopIs(hops[i], seq[i], IF i = 1 THEN input ELSE hops[i - 1].paid, capsLeft, later)
      BY DEF HopsAre
    <3>7. hops[i].given = Paid(e, moved)
      BY <2>2, <3>5, <3>6 DEF HopIs, k
    <3> HIDE DEF e, given
    <3>8. moved \in Nat /\ moved + Fee(e, moved) <= given
      BY <3>3, <3>5, HopIsSound
    <3> HIDE DEF moved
    <3>9. most[i] # None => moved <= (most[i] * e.src) \div e.dst
      <4>1. moved \in Int
        BY <3>8
      <4> QED
        BY <3>2, <3>3, <3>8, <4>1, BeforeFacts
    <3>10. IsRule(e)
      BY <3>3, UsableFacts DEF Priced
    <3>11. ASSUME most[i] # None PROVE Paid(e, moved) <= most[i]
      <4>1. most[i] \in Int
        BY <3>3, <3>11 DEF Maybe
      <4>2. moved <= (most[i] * e.src) \div e.dst
        BY <3>9, <3>11
      <4> QED
        BY <3>8, <3>10, <4>1, <4>2, PaidFacts
    <3> QED
      BY <3>7, <3>11
  <2> QED
    BY <2>1, <2>2
<1> HIDE DEF S
<1>4. \A i \in 0..n : i \in S
  BY <1>2, <1>3, RangeInduction
<1>5. ASSUME NEW i \in 1..n PROVE most[i] # None => hops[i].given <= most[i]
  <2>1. i \in 0..n /\ i # 0
    OBVIOUS
  <2>2. i \in S
    BY <1>4, <2>1
  <2> QED
    BY <2>1, <2>2 DEF S
<1> QED
  BY <1>5 DEF Bounded

(* The most that each hop can take, the first one's being Capacity.         *)
LEMMA CapacityOfEach ==
  ASSUME NEW q, NEW capsLeft, NEW used, Priced(q, capsLeft, used),
         NEW n \in Nat \ {0}, NEW path \in [1..n -> Usable(q)]
  PROVE  \E most : /\ MostOfEach(most, n, path, capsLeft, used)
                   /\ most[1] = Capacity(path, capsLeft, used)
<1> DEFINE seq == Reverse(path)
<1>1. Len(path) = n
  <2>1. path \in Seq(Usable(q))
    OBVIOUS
  <2> QED
    BY <2>1
<1>2. seq \in [1..n -> Usable(q)] /\ \A i \in 1..n : seq[i] = path[(n - i) + 1]
  <2>1. seq = [i \in 1..n |-> path[(n - i) + 1]]
    BY <1>1 DEF Reverse
  <2>2. \A i \in 1..n : (n - i) + 1 \in 1..n
    OBVIOUS
  <2> QED
    BY <2>1, <2>2
<1> HIDE DEF seq
<1>3. PICK g : Backing(g, capsLeft, used, n, seq)
  BY <1>2, CapacityTrace
<1>4. /\ g \in [0..n -> Maybe]
      /\ \A m \in 1..n : g[m] = Before(seq[m], g[m - 1], capsLeft, used)
  BY <1>3, Zenon DEF Backing
<1>5. g[n] = Capacity(path, capsLeft, used)
  BY <1>3, Zenon DEF Backing, Capacity, seq
<1> DEFINE most == [i \in 1..(n + 1) |-> g[(n + 1) - i]]
<1>6. most \in [1..(n + 1) -> Maybe]
  <2>1. \A i \in 1..(n + 1) : (n + 1) - i \in 0..n
    OBVIOUS
  <2> QED
    BY <1>4, <2>1
<1>7. most[1] = g[n]
  OBVIOUS
<1>8. ASSUME NEW i \in 1..n PROVE most[i] = Before(path[i], most[i + 1], capsLeft, used)
  <2>1. (n + 1) - i \in 1..n /\ ((n + 1) - i) - 1 = (n + 1) - (i + 1) /\ i + 1 \in 1..(n + 1)
        /\ i \in 1..(n + 1) /\ (n - ((n + 1) - i)) + 1 = i
    OBVIOUS
  <2>2. most[i] = g[(n + 1) - i] /\ most[i + 1] = g[((n + 1) - i) - 1]
    BY <2>1
  <2>3. seq[(n + 1) - i] = path[i]
    BY <1>2, <2>1
  <2> HIDE DEF most
  <2> QED
    BY <1>4, <2>1, <2>2, <2>3
<1> HIDE DEF most
<1> QED
  BY <1>5, <1>6, <1>7, <1>8 DEF MostOfEach

Leg(q) == [hops : Seq(Hop(q)), consumed : Nat, produced : Nat]

LegIsSound(q, l, input, used) ==
  /\ l \in Leg(q) /\ l.consumed <= input
  /\ KeysOnce(l) => Fits(l, used) /\ Uncut(l, input, used) /\ Largest(l, used)

LEMMA LegOfRoute ==
  ASSUME NEW q, NEW input, NEW capsLeft, NEW used, NEW l \in Legs(q, input, capsLeft, used)
  PROVE  \E path \in Routes(q) :
           LET most == Capacity(path, capsLeft, used)
               accepted == IF most # None /\ most < input THEN most ELSE input
           IN /\ ~ Overasked(path, input, capsLeft, used)
              /\ l.hops = Hops(path, accepted, capsLeft, used)
              /\ Len(l.hops) = Len(path)
              /\ l = [hops |-> l.hops, consumed |-> l.hops[1].moved + l.hops[1].fee,
                       produced |-> l.hops[Len(path)].paid]
<1> DEFINE accepted(path) == LET most == Capacity(path, capsLeft, used)
                             IN IF most # None /\ most < input THEN most ELSE input
           walked == {<<path, Hops(path, accepted(path), capsLeft, used)>> :
                        path \in {p \in Routes(q) : ~ Overasked(p, input, capsLeft, used)}}
<1>1. l \in {[hops |-> w[2], consumed |-> w[2][1].moved + w[2][1].fee, produced |-> Last(w[2]).paid] :
               w \in {v \in walked : Len(v[2]) = Len(v[1])}}
  BY Zenon DEF Legs
<1> HIDE DEF accepted
<1>2. PICK w \in walked :
        /\ Len(w[2]) = Len(w[1])
        /\ l = [hops |-> w[2], consumed |-> w[2][1].moved + w[2][1].fee, produced |-> Last(w[2]).paid]
  <2> HIDE DEF walked
  <2> QED
    BY <1>1
<1>3. PICK path \in Routes(q) :
        /\ ~ Overasked(path, input, capsLeft, used)
        /\ w = <<path, Hops(path, accepted(path), capsLeft, used)>>
  BY <1>2
<1> HIDE DEF walked
<1>4. w[1] = path /\ w[2] = Hops(path, accepted(path), capsLeft, used)
  BY <1>3
<1>5. /\ l.hops = w[2] /\ Len(w[2]) = Len(path)
      /\ l = [hops |-> w[2], consumed |-> w[2][1].moved + w[2][1].fee,
               produced |-> w[2][Len(path)].paid]
  BY <1>2, <1>4 DEF Last
<1> QED
  BY <1>2, <1>3, <1>4, <1>5 DEF accepted

(* Every leg that is offered is sound.                                      *)
LEMMA OffersAreSound ==
  ASSUME NEW q, NEW capsLeft, NEW used, Priced(q, capsLeft, used), NEW input \in Int,
         NEW l \in Legs(q, input, capsLeft, used)
  PROVE  LegIsSound(q, l, input, used)
<1>1. PICK path \in Routes(q) :
           LET most == Capacity(path, capsLeft, used)
               accepted == IF most # None /\ most < input THEN most ELSE input
           IN /\ ~ Overasked(path, input, capsLeft, used)
              /\ l.hops = Hops(path, accepted, capsLeft, used)
              /\ Len(l.hops) = Len(path)
              /\ l = [hops |-> l.hops, consumed |-> l.hops[1].moved + l.hops[1].fee,
                       produced |-> l.hops[Len(path)].paid]
  BY LegOfRoute
<1>2. PICK n \in Nat \ {0} : n = Len(path) /\ path \in [1..n -> Usable(q)]
  BY RouteFacts DEF Priced
<1>3. PICK most : /\ MostOfEach(most, n, path, capsLeft, used)
                 /\ most[1] = Capacity(path, capsLeft, used)
  BY <1>2, CapacityOfEach
<1>d. /\ most \in [1..(n + 1) -> Maybe]
      /\ \A i \in 1..n : most[i] = Before(path[i], most[i + 1], capsLeft, used)
  BY <1>3 DEF MostOfEach
<1> DEFINE first == Capacity(path, capsLeft, used)
<1>4. PICK accepted \in Int :
        /\ accepted = IF first # None /\ first < input THEN first ELSE input
        /\ accepted <= input /\ (most[1] # None => accepted <= most[1])
  <2>1. first \in Maybe /\ most[1] = first
    BY <1>2, <1>3, <1>d
  <2> HIDE DEF first
  <2>2. (IF first # None /\ first < input THEN first ELSE input) \in Int
    BY <2>1 DEF Maybe
  <2>3. /\ (IF first # None /\ first < input THEN first ELSE input) <= input
        /\ most[1] # None =>
             (IF first # None /\ first < input THEN first ELSE input) <= most[1]
    BY <2>1 DEF Maybe
  <2> QED
    BY <2>2, <2>3
<1>c. PICK hops : hops = l.hops
  OBVIOUS
<1>5. /\ ~ Overasked(path, input, capsLeft, used) /\ hops = Hops(path, accepted, capsLeft, used)
      /\ Len(hops) = n /\ l.consumed = hops[1].moved + hops[1].fee
      /\ l = [hops |-> hops, consumed |-> hops[1].moved + hops[1].fee, produced |-> hops[n].paid]
  BY <1>1, <1>2, <1>4, <1>c
<1> HIDE DEF first
<1>6. HopsAre(q, hops, n, path, accepted, capsLeft, used)
  BY <1>2, <1>4, <1>5, HopsFacts
<1>7. hops \in Seq(Hop(q)) /\ DOMAIN hops = 1..n
  <2>1. hops \in Seq(Hop(q)) /\ Len(hops) = n
    BY <1>6 DEF HopsAre
  <2> QED
    BY <2>1
<1>a. n \in Nat
  BY <1>2
<1>b. \A i \in 1..n : most[i] # None => hops[i].given <= most[i]
  <2>1. Bounded(hops, n, most)
    BY <1>2, <1>3, <1>4, <1>6, GivenIsBounded
  <2> QED
    BY <2>1 DEF Bounded
<1>8. ASSUME NEW i \in 1..n
      PROVE  /\ path[i] \in Usable(q) /\ hops[i].given \in Int /\ hops[i].rule = path[i]
             /\ hops[i].moved \in Nat /\ hops[i].fee \in Nat
             /\ most[i] # None => hops[i].given <= most[i]
  <2>1. HopTyped(q, hops[i], path[i])
    BY <1>a, <1>6, HopsAreTyped
  <2>2. most[i] # None => hops[i].given <= most[i]
    BY <1>b
  <2> QED
    BY <1>2, <2>1, <2>2 DEF HopTyped
<1>9. l.consumed \in Nat /\ l.consumed <= input
  <2>1. 1 \in 1..n
    BY <1>2
  <2>2. PICK use \in Nat : HopIs(hops[1], path[1], accepted, capsLeft, use)
    BY <1>6, <2>1 DEF HopsAre
  <2> DEFINE moved == hops[1].moved
  <2>3. moved \in Nat /\ moved + Fee(path[1], moved) <= accepted /\ hops[1].fee = Fee(path[1], moved)
    BY <1>4, <1>8, <2>1, <2>2, HopIsSound DEF HopIs
  <2>4. hops[1].fee \in Nat
    BY <1>8, <2>1
  <2> HIDE DEF moved
  <2>5. moved + hops[1].fee <= accepted
    BY <2>3
  <2> QED
    BY <1>4, <1>5, <2>3, <2>4, <2>5 DEF moved
<1>10. ASSUME KeysOnce(l), NEW i \in 1..n
       PROVE  /\ HopIs(hops[i], path[i], hops[i].given, capsLeft, used[path[i].key])
              /\ used[path[i].key] \in Nat
  <2>1. \A a, b \in DOMAIN hops : hops[a].rule.key = hops[b].rule.key => a = b
    BY <1>10, <1>c DEF KeysOnce
  <2> QED
    BY <1>2, <1>4, <1>6, <1>8, <2>1, HopsWithTheirUse, LeftTypes
<1>11. ASSUME KeysOnce(l), NEW i \in 1..n
       PROVE  /\ hops[i].rule.cap # None => used[hops[i].rule.key] + hops[i].moved <= hops[i].rule.cap
              /\ hops[i].rule.tierMin # None => used[hops[i].rule.key] >= hops[i].rule.tierMin
              /\ hops[i].rule.tierMax # None => used[hops[i].rule.key] + hops[i].moved <= hops[i].rule.tierMax
              /\ Acceptable(hops[i], used, hops[i].moved)
              /\ (hops[i].rule.percent # None => hops[i].rule.percent.up) =>
                   \A x \in Int : Acceptable(hops[i], used, x) => x <= hops[i].moved
              /\ {path[i].request, CapLeft(path[i], capsLeft), TierLeft(path[i], used[path[i].key])} \ {None}
                   = Maxima(path[i], used)
              /\ CapLeft(path[i], capsLeft)
                   = IF path[i].cap = None THEN None ELSE path[i].cap - used[path[i].key]
  <2> DEFINE e == path[i]
             h == hops[i]
             use == used[e.key]
  <2>1. e \in Usable(q) /\ h.given \in Int /\ h.rule = e /\ h.moved \in Nat /\ use \in Nat
        /\ HopIs(h, e, h.given, capsLeft, use)
    BY <1>8, <1>10, <1>11
  <2> HIDE DEF e, h
  <2>2. /\ CapLeft(e, capsLeft) = IF e.cap = None THEN None ELSE e.cap - use
        /\ {e.request, CapLeft(e, capsLeft), TierLeft(e, use)} \ {None} = Maxima(e, used)
        /\ Acceptable(h, used, h.moved)
        /\ (e.percent # None => e.percent.up) =>
             \A x \in Int : Acceptable(h, used, x) => x <= h.moved
    BY <2>1, HopIsSound
  <2>3. IsRule(e)
    BY <2>1, UsableFacts DEF Priced
  <2>4. e.tierMin # None => use >= e.tierMin
    BY <2>1 DEF HopIs
  <2>5. \A limit \in Maxima(e, used) : h.moved <= limit
    BY <2>1, <2>2 DEF Acceptable
  <2> HIDE DEF use
  <2>6. ASSUME e.cap # None PROVE use + h.moved <= e.cap
    <3>1. e.cap \in Nat
      BY <2>3, <2>6 DEF IsRule
    <3>2. e.cap - use \in Int /\ e.cap - use # None
      BY <2>1, <3>1, RequestsAssumption
    <3>3. e.cap - use \in Maxima(e, used)
      BY <2>2, <2>6, <3>2
    <3>4. h.moved <= e.cap - use
      BY <2>5, <3>3
    <3> QED
      BY <2>1, <3>1, <3>4
  <2>7. ASSUME e.tierMax # None PROVE use + h.moved <= e.tierMax
    <3>1. e.tierMax \in Nat
      BY <2>3, <2>7 DEF IsRule
    <3>2. e.tierMax - use \in Int /\ e.tierMax - use # None
      BY <2>1, <3>1, RequestsAssumption
    <3>3. TierLeft(e, use) = e.tierMax - use
      BY <2>7 DEF TierLeft
    <3>4. e.tierMax - use \in Maxima(e, used)
      BY <2>2, <3>2, <3>3
    <3>5. h.moved <= e.tierMax - use
      BY <2>5, <3>4
    <3> QED
      BY <2>1, <3>1, <3>5
  <2> QED
    BY <2>1, <2>2, <2>4, <2>6, <2>7 DEF e, h, use
<1>12. ASSUME KeysOnce(l) PROVE Fits(l, used)
  BY <1>7, <1>11, <1>12, <1>c DEF Fits
<1>13. ASSUME KeysOnce(l) PROVE Largest(l, used)
  <2>1. ASSUME NEW i \in 1..n, hops[i].rule.percent # None => hops[i].rule.percent.up,
               NEW x \in (hops[i].moved + 1)..hops[i].given
        PROVE  ~ Acceptable(hops[i], used, x)
    <3>1. x \in Int /\ ~ (x <= hops[i].moved)
      BY <1>8
    <3> QED
      BY <1>11, <1>13, <2>1, <3>1
  <2> QED
    BY <1>7, <1>11, <1>13, <2>1, <1>c DEF Largest
<1>14. ASSUME KeysOnce(l), NEW i \in 1..n, i > 1, NEW limit \in Maxima(hops[i].rule, used)
       PROVE  hops[i].given <= limit + Fee(hops[i].rule, limit)
  <2> DEFINE e == path[i]
  <2>1. i \in 1..(n + 1) /\ i + 1 \in 1..(n + 1)
    BY <1>2
  <2>2. most[i + 1] \in Maybe /\ most[i] = Before(e, most[i + 1], capsLeft, used)
    BY <1>d, <2>1
  <2>3. /\ e \in Usable(q) /\ hops[i].given \in Int /\ hops[i].rule = e
        /\ (most[i] # None => hops[i].given <= most[i])
        /\ limit \in {e.request, CapLeft(e, capsLeft), TierLeft(e, used[e.key])} \ {None}
    BY <1>8, <1>11, <1>14
  <2> HIDE DEF e
  <2>4. hops[i].given <= limit + Fee(e, limit)
    BY <2>2, <2>3, BeforeFacts
  <2> QED
    BY <2>3, <2>4
<1>15. ASSUME KeysOnce(l), ~ hops[1].rule.partial, NEW limit \in OwnMaxima(hops[1].rule, used)
       PROVE  input <= limit + Fee(hops[1].rule, limit)
  <2> DEFINE e == path[1]
  <2>1. 1 \in 1..n
    BY <1>2
  <2>2. e \in Usable(q) /\ hops[1].rule = e
        /\ CapLeft(e, capsLeft) = IF e.cap = None THEN None ELSE e.cap - used[e.key]
    BY <1>8, <1>11, <1>15, <2>1
  <2>3. ~ Over(e, input, capsLeft)
    BY <1>2, <1>5, FirstIsNotOver
  <2> HIDE DEF e
  <2>4. OwnMaxima(e, used) = {e.request, CapLeft(e, capsLeft)} \ {None}
    BY <2>2 DEF OwnMaxima
  <2>5. ~ (input > limit + Fee(e, limit))
    BY <1>15, <2>2, <2>3, <2>4 DEF Over
  <2>6. limit \in Int
    <3>1. e.request \in Maybe /\ CapLeft(e, capsLeft) \in Maybe
      BY <2>2, LeftTypes
    <3>2. limit \in {e.request, CapLeft(e, capsLeft)} \ {None}
      BY <1>15, <2>2, <2>4
    <3> QED
      BY <3>1, <3>2 DEF Maybe
  <2>7. Fee(e, limit) \in Int
    <3>1. IsRule(e)
      BY <2>2, UsableFacts DEF Priced
    <3>2. limit <= limit
      BY <2>6
    <3> QED
      BY <2>6, <3>1, <3>2, FeeGrows
  <2> QED
    BY <2>2, <2>5, <2>6, <2>7
<1>16. ASSUME KeysOnce(l) PROVE Uncut(l, input, used)
  BY <1>7, <1>14, <1>15, <1>16, <1>c DEF Uncut
<1>17. l \in Leg(q)
  <2>1. n \in 1..n
    BY <1>2
  <2>2. hops[n] \in Hop(q)
    BY <1>7, <2>1
  <2>3. hops[n].paid \in Nat
    BY <2>2 DEF Hop
  <2> QED
    BY <1>5, <1>7, <1>9, <2>3 DEF Leg
<1> QED
  BY <1>9, <1>12, <1>13, <1>16, <1>17 DEF LegIsSound

-----------------------------------------------------------------------------
(* Sums over the legs.                                                      *)

OneMore(w, v, n) == (\A i \in 1..n : w[i] \in Nat /\ v[i] = w[i]) /\ v[n + 1] \in Nat

SumsGrow(w, v, n) ==
  /\ \A j \in 0..n : /\ SumFunctionOnSet(w, 1..j) \in Nat
                     /\ SumFunctionOnSet(v, 1..j) = SumFunctionOnSet(w, 1..j)
  /\ SumFunctionOnSet(v, 1..(n + 1)) = v[n + 1] + SumFunctionOnSet(w, 1..n)

LEMMA PrefixSums ==
  ASSUME NEW n \in Nat, NEW w, NEW v, OneMore(w, v, n)
  PROVE  SumsGrow(w, v, n)
<1>a. (\A i \in 1..n : w[i] \in Nat /\ v[i] = w[i]) /\ v[n + 1] \in Nat
  BY DEF OneMore
<1>1. ASSUME NEW j \in 0..n
      PROVE  /\ SumFunctionOnSet(w, 1..j) \in Nat
             /\ SumFunctionOnSet(v, 1..j) = SumFunctionOnSet(w, 1..j)
  <2> DEFINE S == 1..j
  <2>1. IsFiniteSet(S)
    BY FS_Interval
  <2>2. \A i \in S : i \in 1..n
    OBVIOUS
  <2> HIDE DEF S
  <2>3. \A i \in S : w[i] \in Nat /\ w[i] = v[i]
    BY <1>a, <2>2
  <2>4. SumFunctionOnSet(w, S) \in Nat
    BY <2>1, <2>3, SumRecursion
  <2>5. SumFunctionOnSet(w, S) = SumFunctionOnSet(v, S)
    BY <2>1, <2>3, SumSame
  <2> QED
    BY <2>4, <2>5 DEF S
<1>2. SumFunctionOnSet(v, 1..(n + 1)) = v[n + 1] + SumFunctionOnSet(v, 1..n)
  <2> DEFINE S == 1..n
             T == 1..(n + 1)
  <2>1. IsFiniteSet(S)
    BY FS_Interval
  <2>2. (n + 1) \notin S /\ S \cup {n + 1} = T /\ \A i \in S : v[i] \in Nat
    BY <1>a
  <2> HIDE DEF S, T
  <2>3. SumFunctionOnSet(v, S \cup {n + 1}) = v[n + 1] + SumFunctionOnSet(v, S)
    BY <1>a, <2>1, <2>2, SumWith
  <2> QED
    BY <2>2, <2>3 DEF S, T
<1> QED
  BY <1>1, <1>2 DEF SumsGrow

UsedIn(ls, j, key) ==
  SumFunctionOnSet([i \in DOMAIN ls |-> MovedBy(ls[i].hops, key)], 1..(j - 1))

TakenIn(ls, j) == SumFunctionOnSet([i \in DOMAIN ls |-> ls[i].consumed], 1..(j - 1))

LEMMA LegsGrow ==
  ASSUME NEW q, NEW ls \in Seq(Leg(q)), NEW l \in Leg(q), NEW n \in Nat, Len(ls) = n
  PROVE  LET more == Append(ls, l)
         IN /\ \A j \in 1..(n + 1) : /\ TakenIn(ls, j) \in Nat /\ TakenIn(more, j) = TakenIn(ls, j)
                                     /\ \A key : /\ UsedIn(ls, j, key) \in Nat
                                                 /\ UsedIn(more, j, key) = UsedIn(ls, j, key)
            /\ TakenIn(more, n + 2) = l.consumed + TakenIn(ls, n + 1)
            /\ \A key : UsedIn(more, n + 2, key) = MovedBy(l.hops, key) + UsedIn(ls, n + 1, key)
<1> DEFINE more == Append(ls, l)
<1>1. /\ DOMAIN ls = 1..n /\ DOMAIN more = 1..(n + 1) /\ more[n + 1] = l
      /\ \A i \in 1..n : more[i] = ls[i] /\ ls[i] \in Leg(q) /\ i \in 1..(n + 1)
  OBVIOUS
<1> HIDE DEF more
<1>2. ASSUME NEW k \in Leg(q)
      PROVE  k.consumed \in Nat /\ \A key : MovedBy(k.hops, key) \in Nat
  <2>1. k.consumed \in Nat /\ k.hops \in Seq(Hop(q))
    BY DEF Leg
  <2> QED
    BY <2>1, MovedByFacts
<1>3. n + 1 \in 1..(n + 1) /\ (n + 2) - 1 = n + 1 /\ (n + 1) - 1 = n
      /\ \A j \in 1..(n + 1) : j - 1 \in 0..n
  OBVIOUS
<1>4. /\ \A j \in 1..(n + 1) : TakenIn(ls, j) \in Nat /\ TakenIn(more, j) = TakenIn(ls, j)
      /\ TakenIn(more, n + 2) = l.consumed + TakenIn(ls, n + 1)
  <2> DEFINE w == [i \in DOMAIN ls |-> ls[i].consumed]
             v == [i \in DOMAIN more |-> more[i].consumed]
  <2>1. (\A i \in 1..n : w[i] \in Nat /\ v[i] = w[i]) /\ v[n + 1] \in Nat /\ v[n + 1] = l.consumed
    BY <1>1, <1>2, <1>3
  <2>2. \A j : TakenIn(ls, j) = SumFunctionOnSet(w, 1..(j - 1))
               /\ TakenIn(more, j) = SumFunctionOnSet(v, 1..(j - 1))
    BY Zenon DEF TakenIn
  <2> HIDE DEF w, v
  <2>3. /\ \A j \in 0..n : /\ SumFunctionOnSet(w, 1..j) \in Nat
                           /\ SumFunctionOnSet(v, 1..j) = SumFunctionOnSet(w, 1..j)
        /\ SumFunctionOnSet(v, 1..(n + 1)) = v[n + 1] + SumFunctionOnSet(w, 1..n)
    <3>1. OneMore(w, v, n)
      BY <2>1 DEF OneMore
    <3>2. SumsGrow(w, v, n)
      BY <3>1, PrefixSums
    <3> QED
      BY <3>2 DEF SumsGrow
  <2> QED
    BY <1>3, <2>1, <2>2, <2>3
<1>5. ASSUME NEW key
      PROVE  /\ \A j \in 1..(n + 1) : UsedIn(ls, j, key) \in Nat /\ UsedIn(more, j, key) = UsedIn(ls, j, key)
             /\ UsedIn(more, n + 2, key) = MovedBy(l.hops, key) + UsedIn(ls, n + 1, key)
  <2> DEFINE w == [i \in DOMAIN ls |-> MovedBy(ls[i].hops, key)]
             v == [i \in DOMAIN more |-> MovedBy(more[i].hops, key)]
  <2>1. (\A i \in 1..n : w[i] \in Nat /\ v[i] = w[i]) /\ v[n + 1] \in Nat /\ v[n + 1] = MovedBy(l.hops, key)
    BY <1>1, <1>2, <1>3
  <2>2. \A j : UsedIn(ls, j, key) = SumFunctionOnSet(w, 1..(j - 1))
               /\ UsedIn(more, j, key) = SumFunctionOnSet(v, 1..(j - 1))
    BY Zenon DEF UsedIn
  <2> HIDE DEF w, v
  <2>3. /\ \A j \in 0..n : /\ SumFunctionOnSet(w, 1..j) \in Nat
                           /\ SumFunctionOnSet(v, 1..j) = SumFunctionOnSet(w, 1..j)
        /\ SumFunctionOnSet(v, 1..(n + 1)) = v[n + 1] + SumFunctionOnSet(w, 1..n)
    <3>1. OneMore(w, v, n)
      BY <2>1 DEF OneMore
    <3>2. SumsGrow(w, v, n)
      BY <3>1, PrefixSums
    <3> QED
      BY <3>2 DEF SumsGrow
  <2> QED
    BY <1>3, <2>1, <2>2, <2>3
<1> QED
  BY <1>4, <1>5 DEF more

-----------------------------------------------------------------------------
(* What is left under the keys at first.                                    *)

LEMMA CapsFacts ==
  ASSUME NEW q \in Requests, NEW key
  PROVE  CapsAt(q, key) \in SUBSET Nat /\ IsFiniteSet(CapsAt(q, key))
<1> DEFINE capped == {r \in Usable(q) : r.cap # None /\ r.key = key}
           cap(e) == IF e.cap > q.used[key] THEN e.cap - q.used[key] ELSE 0
<1>1. IsFiniteSet(q.rules)
  BY RequestsAssumption
<1>2. capped \subseteq q.rules
  BY DEF Usable
<1>3. CapsAt(q, key) = {cap(e) : e \in capped}
  BY DEF CapsAt
<1>4. ASSUME NEW e \in capped PROVE cap(e) \in Nat
  <2>1. e \in Usable(q) /\ e.cap # None /\ e.key = key
    OBVIOUS
  <2>2. IsRule(e) /\ q.used[key] \in Nat
    BY <2>1, UsableFacts
  <2>3. e.cap \in Nat
    BY <2>1, <2>2 DEF IsRule
  <2> QED
    BY <2>2, <2>3
<1> HIDE DEF capped, cap
<1>5. IsFiniteSet(capped)
  BY <1>1, <1>2, FS_Subset
<1>6. CapsAt(q, key) \in SUBSET Nat
  BY <1>3, <1>4
<1>7. IsFiniteSet({cap(e) : e \in capped})
  <2> DEFINE f == [e \in capped |-> cap(e)]
  <2>1. f \in Surjection(capped, {cap(e) : e \in capped})
    BY DEF Surjection
  <2> HIDE DEF f
  <2> QED
    BY <1>5, <2>1, FS_Surjection
<1> QED
  BY <1>3, <1>6, <1>7

OneMaximum(q) == \A key \in Keys(q) : \A m, n \in CapsAt(q, key) : m = n

LEMMA OpenHasOneMaximum ==
  ASSUME NEW q \in Requests, \A key \in Keys(q) : ~ (Cardinality(CapsAt(q, key)) > 1)
  PROVE  OneMaximum(q)
<1> SUFFICES ASSUME NEW key \in Keys(q), NEW m \in CapsAt(q, key), NEW n \in CapsAt(q, key), m # n
             PROVE  FALSE
  BY DEF OneMaximum
<1> DEFINE S == CapsAt(q, key)
<1>1. IsFiniteSet(S) /\ Cardinality(S) \in Nat
  BY CapsFacts, FS_CardinalityType
<1> HIDE DEF S
<1>2. m \in S /\ n \in S
  BY DEF S
<1>3. IsFiniteSet(S \ {m}) /\ Cardinality(S \ {m}) = Cardinality(S) - 1
  BY <1>1, <1>2, Smaller
<1>4. n \in S \ {m}
  BY <1>2
<1>5. Cardinality(S \ {m}) >= 1
  BY <1>3, <1>4, Smaller
<1>6. ~ (Cardinality(S) > 1)
  BY DEF S
<1> QED
  BY <1>1, <1>3, <1>5, <1>6

(* What is left of the one maximum of a key at first.                       *)
LEMMA LedgerAtFirst ==
  ASSUME NEW q \in Requests, OneMaximum(q), NEW e \in Usable(q), e.cap # None
  PROVE  /\ e.key \in DOMAIN InitialLedger(q)
         /\ InitialUsage(q)[e.key] = q.used[e.key] /\ q.used[e.key] \in Nat /\ e.cap \in Nat
         /\ InitialLedger(q)[e.key] = IF e.cap > q.used[e.key] THEN e.cap - q.used[e.key] ELSE 0
<1> DEFINE key == e.key
           cap == IF e.cap > q.used[key] THEN e.cap - q.used[key] ELSE 0
<1>1. IsRule(e) /\ key \in Keys(q) /\ q.used[key] \in Nat
  BY UsableFacts
<1>2. e.cap \in Nat
  BY <1>1 DEF IsRule
<1>3. cap \in CapsAt(q, key)
  BY DEF CapsAt
<1>4. \A n \in CapsAt(q, key) : n = cap
  BY <1>1, <1>3 DEF OneMaximum
<1>5. (CHOOSE n \in CapsAt(q, key) : TRUE) = cap
  BY <1>3, <1>4
<1>6. InitialLedger(q)[key] = (CHOOSE n \in CapsAt(q, key) : TRUE) /\ key \in DOMAIN InitialLedger(q)
  BY <1>1, <1>3 DEF InitialLedger
<1>7. InitialUsage(q)[key] = q.used[key]
  BY <1>1, RequestsAssumption DEF InitialUsage
<1> QED
  BY <1>1, <1>2, <1>5, <1>6, <1>7

LEMMA CountersAtFirst ==
  ASSUME NEW q \in Requests
  PROVE  /\ InitialUsage(q) \in [Keys(q) -> Nat]
         /\ InitialLedger(q) \in [DOMAIN InitialLedger(q) -> Int]
         /\ DOMAIN InitialLedger(q) \subseteq Keys(q)
<1>1. \A key \in Keys(q) : q.used[key] \in Nat \cup {None}
  BY RequestsAssumption DEF Keys
<1>2. InitialUsage(q) \in [Keys(q) -> Nat]
  BY <1>1 DEF InitialUsage
<1>3. ASSUME NEW key, CapsAt(q, key) # {} PROVE (CHOOSE n \in CapsAt(q, key) : TRUE) \in Int
  <2>1. (CHOOSE n \in CapsAt(q, key) : TRUE) \in CapsAt(q, key)
    BY <1>3
  <2> QED
    BY <2>1, CapsFacts
<1>4. InitialLedger(q) \in [DOMAIN InitialLedger(q) -> Int]
  BY <1>3 DEF InitialLedger
<1> QED
  BY <1>2, <1>4 DEF InitialLedger

-----------------------------------------------------------------------------
(* The invariant of the rounds.                                             *)

CountersAgree ==
  /\ left = LeftBefore(Len(legs) + 1)
  /\ usage = UseBefore(Len(legs) + 1)
  /\ \A key \in DOMAIN InitialLedger(request) :
       ledger[key] = InitialLedger(request)[key] - (usage[key] - InitialUsage(request)[key])

RoutesInv ==
  /\ request \in Requests /\ left \in Nat
  /\ usage \in [Keys(request) -> Nat]
  /\ ledger \in [DOMAIN InitialLedger(request) -> Int]
  /\ legs \in Seq(Leg(request))
  /\ CountersAgree
  /\ outcome = "open" => OneMaximum(request)
  /\ \A j \in DOMAIN legs : LegIsSound(request, legs[j], LeftBefore(j), UseBefore(j))

LEMMA BeforeEachLeg ==
  ASSUME NEW j, request \in Requests
  PROVE  /\ LeftBefore(j) = request.balance - TakenIn(legs, j)
         /\ UseBefore(j) = [key \in Keys(request) |-> InitialUsage(request)[key] + UsedIn(legs, j, key)]
BY Zenon DEF LeftBefore, UseBefore, TakenIn, UsedIn

LEMMA InitIsOpen ==
  ASSUME Init
  PROVE  RoutesInv
<1>1. request \in Requests /\ left = request.balance /\ ledger = InitialLedger(request)
      /\ usage = InitialUsage(request) /\ legs = <<>>
  BY DEF Init
<1>2. request.balance \in Nat
  BY <1>1, RequestsAssumption
<1>3. legs \in Seq(Leg(request)) /\ Len(legs) = 0 /\ DOMAIN legs = {}
  BY <1>1
<1>4. /\ usage \in [Keys(request) -> Nat]
      /\ ledger \in [DOMAIN InitialLedger(request) -> Int]
      /\ DOMAIN InitialLedger(request) \subseteq Keys(request)
  BY <1>1, CountersAtFirst
<1>5. TakenIn(legs, 1) = 0 /\ \A key : UsedIn(legs, 1, key) = 0
  <2>1. 1..(1 - 1) = {}
    OBVIOUS
  <2> QED
    BY <2>1, SumOfNone, Zenon DEF TakenIn, UsedIn
<1>6. left = LeftBefore(1)
  BY <1>1, <1>2, <1>5, BeforeEachLeg
<1>7. usage = UseBefore(1)
  <2> DEFINE first == InitialUsage(request)
  <2>1. UseBefore(1) = [key \in Keys(request) |-> first[key] + UsedIn(legs, 1, key)]
    BY <1>1, BeforeEachLeg
  <2>2. usage = first /\ first \in [Keys(request) -> Nat]
    BY <1>1, <1>4
  <2> HIDE DEF first
  <2>3. UseBefore(1) = [key \in Keys(request) |-> first[key]]
    BY <1>5, <2>1, <2>2
  <2> QED
    BY <2>2, <2>3
<1>8. CountersAgree
  <2>1. Len(legs) + 1 = 1
    BY <1>3
  <2>2. \A key \in DOMAIN InitialLedger(request) :
          ledger[key] = InitialLedger(request)[key] - (usage[key] - InitialUsage(request)[key])
    BY <1>1, <1>4
  <2> QED
    BY <1>6, <1>7, <2>1, <2>2 DEF CountersAgree
<1>9. ASSUME outcome = "open" PROVE OneMaximum(request)
  <2>1. ~ (\E key \in Keys(request) : Cardinality(CapsAt(request, key)) > 1)
    BY <1>9 DEF Init
  <2> QED
    BY <1>1, <2>1, OpenHasOneMaximum
<1> QED
  BY <1>1, <1>2, <1>3, <1>4, <1>8, <1>9 DEF RoutesInv

(* What a round prices its legs with.                                       *)
LEMMA RoundIsPriced ==
  ASSUME RoutesInv, outcome = "open"
  PROVE  Priced(request, ledger, usage)
<1>1. request \in Requests /\ usage \in [Keys(request) -> Nat] /\ OneMaximum(request)
      /\ ledger \in [DOMAIN InitialLedger(request) -> Int] /\ CountersAgree
  BY DEF RoutesInv
<1>2. ASSUME NEW e \in Usable(request), e.cap # None
      PROVE  /\ ledger[e.key] \in Int
             /\ ledger[e.key] > 0 => ledger[e.key] = e.cap - usage[e.key]
  <2> DEFINE key == e.key
             first == InitialUsage(request)[key]
             most == InitialLedger(request)[key]
             moved == UsedIn(legs, Len(legs) + 1, key)
  <2>1. /\ key \in DOMAIN InitialLedger(request) /\ first \in Nat /\ e.cap \in Nat
        /\ most = IF e.cap > first THEN e.cap - first ELSE 0
    <3>1. request.used[key] = first
      BY <1>1, <1>2, LedgerAtFirst
    <3> QED
      BY <1>1, <1>2, <3>1, LedgerAtFirst
  <2>2. key \in Keys(request)
    BY <1>1, UsableFacts
  <2>3. ledger[key] \in Int /\ ledger[key] = most - (usage[key] - first)
    BY <1>1, <2>1 DEF CountersAgree
  <2>4. usage[key] = first + moved
    <3>1. usage = UseBefore(Len(legs) + 1)
      BY <1>1 DEF CountersAgree
    <3>2. usage = [k \in Keys(request) |-> InitialUsage(request)[k] + UsedIn(legs, Len(legs) + 1, k)]
      BY <1>1, <3>1, BeforeEachLeg
    <3> QED
      BY <2>2, <3>2
  <2>5. usage[key] \in Nat /\ moved \in Nat
    <3>1. usage[key] \in Nat
      BY <1>1, <2>2
    <3>2. legs \in Seq(Leg(request)) /\ Len(legs) \in Nat
      BY DEF RoutesInv
    <3> DEFINE w == [i \in DOMAIN legs |-> MovedBy(legs[i].hops, key)]
               S == 1..((Len(legs) + 1) - 1)
    <3>3. IsFiniteSet(S) /\ \A i \in S : i \in DOMAIN legs
      BY <3>2, FS_Interval
    <3>4. \A i \in DOMAIN legs : w[i] \in Nat
      <4>1. ASSUME NEW i \in DOMAIN legs PROVE MovedBy(legs[i].hops, key) \in Nat
        <5>1. legs[i] \in Leg(request)
          BY <3>2
        <5>2. legs[i].hops \in Seq(Hop(request))
          BY <5>1 DEF Leg
        <5> QED
          BY <5>2, MovedByFacts
      <4> QED
        BY <4>1
    <3>5. moved = SumFunctionOnSet(w, S)
      BY Zenon DEF UsedIn
    <3> HIDE DEF w, S, moved
    <3>6. SumFunctionOnSet(w, S) \in Nat
      BY <3>3, <3>4, SumRecursion
    <3> QED
      BY <3>1, <3>5, <3>6
  <2> HIDE DEF key, first, most, moved
  <2>6. ledger[key] > 0 => ledger[key] = e.cap - usage[key]
    BY <2>1, <2>3, <2>4, <2>5
  <2> QED
    BY <2>3, <2>6 DEF key
<1> QED
  BY <1>1, <1>2 DEF Priced

(* A round adds a sound leg, and what the legs before it were priced with   *)
(* stays what it was.                                                      *)
LEMMA AllocateKeepsRoutes ==
  ASSUME RoutesInv, Allocate
  PROVE  RoutesInv'
<1>0. PICK n \in Nat : n = Len(legs)
  BY DEF RoutesInv
<1>1. /\ request \in Requests /\ left \in Nat /\ usage \in [Keys(request) -> Nat]
      /\ ledger \in [DOMAIN InitialLedger(request) -> Int]
      /\ legs \in Seq(Leg(request)) /\ n \in Nat /\ DOMAIN legs = 1..n
      /\ OneMaximum(request)
      /\ \A j \in 1..n : LegIsSound(request, legs[j], LeftBefore(j), UseBefore(j))
  <2>1. legs \in Seq(Leg(request)) /\ DOMAIN legs = 1..n
    BY <1>0 DEF RoutesInv
  <2> QED
    BY <2>1 DEF RoutesInv, Allocate
<1>2. PICK l \in Legs(request, left, ledger, usage) :
        legs' = Append(legs, l) /\ left' = left - l.consumed /\ Counted(l)
  BY DEF Allocate, Best
<1>3. request' = request /\ outcome' = outcome
  BY DEF Allocate
<1>4. ledger' = LedgerAfter(ledger, l) /\ usage' = UsageAfter(usage, l)
  BY <1>2 DEF Counted
<1>5. LegIsSound(request, l, left, usage)
  <2>1. Priced(request, ledger, usage)
    BY RoundIsPriced DEF Allocate
  <2>2. left \in Int
    BY <1>1
  <2> QED
    BY <1>2, <2>1, <2>2, OffersAreSound
<1>6. l \in Leg(request) /\ l.consumed \in Nat /\ l.consumed <= left
      /\ \A key : MovedBy(l.hops, key) \in Nat
  <2>1. l \in Leg(request) /\ l.consumed <= left
    BY <1>5 DEF LegIsSound
  <2>2. l.consumed \in Nat /\ l.hops \in Seq(Hop(request))
    BY <2>1 DEF Leg
  <2> QED
    BY <2>1, <2>2, MovedByFacts
<1>7. /\ legs' \in Seq(Leg(request)) /\ Len(legs') = n + 1 /\ DOMAIN legs' = 1..(n + 1)
      /\ legs'[n + 1] = l /\ \A j \in 1..n : legs'[j] = legs[j]
  BY <1>0, <1>1, <1>2, <1>6
<1>8. /\ \A j \in 1..(n + 1) : /\ TakenIn(legs, j) \in Nat /\ TakenIn(legs', j) = TakenIn(legs, j)
                               /\ \A key : UsedIn(legs, j, key) \in Nat
                                           /\ UsedIn(legs', j, key) = UsedIn(legs, j, key)
      /\ TakenIn(legs', n + 2) = l.consumed + TakenIn(legs, n + 1)
      /\ \A key : UsedIn(legs', n + 2, key) = MovedBy(l.hops, key) + UsedIn(legs, n + 1, key)
  BY <1>0, <1>1, <1>2, <1>6, LegsGrow
<1>9. \A j : /\ LeftBefore(j) = request.balance - TakenIn(legs, j)
             /\ UseBefore(j) = [key \in Keys(request) |->
                                  InitialUsage(request)[key] + UsedIn(legs, j, key)]
  BY <1>1, BeforeEachLeg
<1>10. \A j : /\ LeftBefore(j)' = request.balance - TakenIn(legs', j)
              /\ UseBefore(j)' = [key \in Keys(request) |->
                                    InitialUsage(request)[key] + UsedIn(legs', j, key)]
  BY <1>3, Zenon DEF LeftBefore, UseBefore, TakenIn, UsedIn
<1>11. ASSUME NEW j \in 1..(n + 1)
       PROVE  LeftBefore(j)' = LeftBefore(j) /\ UseBefore(j)' = UseBefore(j)
  <2>1. TakenIn(legs', j) = TakenIn(legs, j) /\ \A key : UsedIn(legs', j, key) = UsedIn(legs, j, key)
    BY <1>8
  <2>2. LeftBefore(j)' = LeftBefore(j)
    BY <1>9, <1>10, <2>1
  <2>3. UseBefore(j)' = UseBefore(j)
    BY <1>9, <1>10, <2>1
  <2> QED
    BY <2>2, <2>3
<1>12. /\ left = LeftBefore(n + 1) /\ usage = UseBefore(n + 1)
       /\ \A key \in DOMAIN InitialLedger(request) :
            ledger[key] = InitialLedger(request)[key] - (usage[key] - InitialUsage(request)[key])
  BY <1>0 DEF RoutesInv, CountersAgree
<1>13. n + 1 \in 1..(n + 1) /\ (n + 1) + 1 = n + 2
  BY <1>1
<1>14. left' \in Nat
  BY <1>1, <1>2, <1>6
<1>15. left' = LeftBefore(n + 2)'
  <2>1. request.balance \in Nat
    BY <1>1, RequestsAssumption
  <2>2. left = request.balance - TakenIn(legs, n + 1) /\ TakenIn(legs, n + 1) \in Nat
    BY <1>8, <1>9, <1>12, <1>13
  <2> QED
    BY <1>2, <1>6, <1>8, <1>10, <2>1, <2>2
<1> DEFINE first == InitialUsage(request)
           most == InitialLedger(request)
<1>16. /\ first \in [Keys(request) -> Nat] /\ most \in [DOMAIN most -> Int]
       /\ DOMAIN most \subseteq Keys(request)
  BY <1>1, CountersAtFirst
<1> HIDE DEF first, most
<1>17. usage' = [key \in Keys(request) |-> usage[key] + MovedBy(l.hops, key)]
  BY <1>1, <1>4 DEF UsageAfter
<1>18. usage' \in [Keys(request) -> Nat]
  BY <1>1, <1>6, <1>17
<1>19. usage' = UseBefore(n + 2)'
  <2>1. ASSUME NEW key \in Keys(request)
        PROVE  usage[key] + MovedBy(l.hops, key) = first[key] + UsedIn(legs', n + 2, key)
    <3>1. usage[key] = first[key] + UsedIn(legs, n + 1, key)
      BY <1>9, <1>12 DEF first
    <3>2. UsedIn(legs, n + 1, key) \in Nat /\ first[key] \in Nat /\ MovedBy(l.hops, key) \in Nat
      BY <1>6, <1>8, <1>13, <1>16
    <3>3. UsedIn(legs', n + 2, key) = MovedBy(l.hops, key) + UsedIn(legs, n + 1, key)
      BY <1>8
    <3> QED
      BY <3>1, <3>2, <3>3
  <2>2. UseBefore(n + 2)' = [key \in Keys(request) |-> first[key] + UsedIn(legs', n + 2, key)]
    BY <1>10, <1>13 DEF first
  <2> QED
    BY <1>17, <2>1, <2>2
<1>20. DOMAIN ledger = DOMAIN most
       /\ ledger' = [key \in DOMAIN most |-> ledger[key] - MovedBy(l.hops, key)]
  BY <1>1, <1>4 DEF LedgerAfter, most
<1>21. ledger' \in [DOMAIN most -> Int]
  <2>1. \A key \in DOMAIN most : ledger[key] \in Int /\ MovedBy(l.hops, key) \in Nat
    BY <1>1, <1>6 DEF most
  <2> QED
    BY <1>20, <2>1
<1>22. ASSUME NEW key \in DOMAIN most
       PROVE  ledger'[key] = most[key] - (usage'[key] - first[key])
  <2>1. key \in Keys(request) /\ first[key] \in Nat /\ most[key] \in Int /\ usage[key] \in Nat
        /\ MovedBy(l.hops, key) \in Nat
    BY <1>1, <1>6, <1>16
  <2>2. ledger[key] = most[key] - (usage[key] - first[key])
    BY <1>12 DEF most, first
  <2>3. ledger'[key] = ledger[key] - MovedBy(l.hops, key)
    BY <1>20
  <2>4. usage'[key] = usage[key] + MovedBy(l.hops, key)
    BY <1>17, <2>1
  <2> QED
    BY <2>1, <2>2, <2>3, <2>4
<1>23. CountersAgree'
  <2>1. Len(legs') + 1 = n + 2
    BY <1>7, <1>13
  <2>2. /\ LeftBefore(Len(legs) + 1)' = request'.balance - TakenIn(legs', Len(legs') + 1)
        /\ UseBefore(Len(legs) + 1)' = [key \in Keys(request') |->
             InitialUsage(request')[key] + UsedIn(legs', Len(legs') + 1, key)]
    BY Zenon DEF LeftBefore, UseBefore, TakenIn, UsedIn
  <2>3. left' = LeftBefore(Len(legs) + 1)' /\ usage' = UseBefore(Len(legs) + 1)'
    BY <1>3, <1>10, <1>15, <1>19, <2>1, <2>2
  <2>4. \A key \in DOMAIN InitialLedger(request') :
          ledger'[key] = InitialLedger(request')[key] - (usage'[key] - InitialUsage(request')[key])
    BY <1>3, <1>22 DEF most, first
  <2> QED
    BY <2>3, <2>4 DEF CountersAgree
<1>24. ASSUME NEW j \in 1..(n + 1)
       PROVE  LegIsSound(request, legs'[j], LeftBefore(j)', UseBefore(j)')
  <2>1. LeftBefore(j)' = LeftBefore(j) /\ UseBefore(j)' = UseBefore(j)
    BY <1>11
  <2>2. LegIsSound(request, legs'[j], LeftBefore(j), UseBefore(j))
    <3>1. CASE j = n + 1
      BY <1>5, <1>7, <1>12, <3>1
    <3>2. CASE j # n + 1
      <4>1. j \in 1..n
        BY <1>1, <3>2
      <4> QED
        BY <1>1, <1>7, <4>1
    <3> QED
      BY <3>1, <3>2
  <2> QED
    BY <2>1, <2>2
<1>25. \A j \in DOMAIN legs' : LegIsSound(request', legs'[j], LeftBefore(j)', UseBefore(j)')
  BY <1>3, <1>7, <1>24
<1> QED
  BY <1>1, <1>3, <1>7, <1>14, <1>18, <1>21, <1>23, <1>25 DEF RoutesInv, most

(* The label at the end changes nothing that the counters are about.        *)
LEMMA LabelKeepsRoutes ==
  ASSUME RoutesInv, request' = request, left' = left, ledger' = ledger, usage' = usage, legs' = legs,
         outcome' = "open" => outcome = "open"
  PROVE  RoutesInv'
<1>1. \A j : LeftBefore(j)' = LeftBefore(j) /\ UseBefore(j)' = UseBefore(j)
  BY Zenon DEF LeftBefore, UseBefore
<1>2. CountersAgree'
  <2>1. CountersAgree
    BY DEF RoutesInv
  <2> QED
    BY <1>1, <2>1 DEF CountersAgree
<1> QED
  BY <1>1, <1>2 DEF RoutesInv

(* What allocate (point-route-optimizer.ts:1205) keeps between its rounds:  *)
(* the balance, the use and the ledger are what the legs so far leave, and  *)
(* every leg was priced with what the legs before it left.                 *)
THEOREM RoutesInvariant == Spec => []RoutesInv
<1>1. Init => RoutesInv
  BY InitIsOpen
<1>2. RoutesInv /\ [Next]_vars => RoutesInv'
  <2> SUFFICES ASSUME RoutesInv, [Next]_vars PROVE RoutesInv'
    OBVIOUS
  <2>1. CASE Allocate
    BY <2>1, AllocateKeepsRoutes
  <2>2. CASE Finish
    <3>1. /\ request' = request /\ left' = left /\ ledger' = ledger /\ usage' = usage /\ legs' = legs
          /\ outcome = "open"
      BY <2>2 DEF Finish
    <3> QED
      BY <3>1, LabelKeepsRoutes
  <2>3. CASE UNCHANGED vars
    <3>1. /\ request' = request /\ left' = left /\ ledger' = ledger /\ usage' = usage /\ legs' = legs
          /\ outcome' = outcome
      BY <2>3 DEF vars
    <3> QED
      BY <3>1, LabelKeepsRoutes
  <2> QED
    BY <2>1, <2>2, <2>3 DEF Next
<1> QED
  BY <1>1, <1>2, PTL DEF Spec

(* Each round subtracts its leg from the balance and from the maxima before *)
(* the next is priced (line 1203): under every key that a leg crosses once, *)
(* what all the legs moved stays within its maximum and its tier.          *)
THEOREM CountersAreHeld == Spec => []CountersHeld
<1>1. RoutesInv => CountersHeld
  BY DEF RoutesInv, CountersAgree, CountersHeld, LegIsSound
<1> QED
  BY <1>1, RoutesInvariant, PTL

(* backwardCapacity and nonPartialCapFailure (lines 752 and 823): whatever  *)
(* the rules of a path, no maximum of a later hop leaves units behind (its  *)
(* steps may), and a rule that takes no part of a request was asked for no  *)
(* more than it takes.                                                     *)
THEOREM NoMaximumStrands == Spec => []NothingIsCut
<1>1. RoutesInv => NothingIsCut
  BY DEF RoutesInv, NothingIsCut, LegIsSound
<1> QED
  BY <1>1, RoutesInvariant, PTL

(* alignSource (line 631): each hop moves an amount that its rule accepts,  *)
(* and, unless the percentage is rounded down, no larger one.              *)
THEOREM LargestIsMoved == Spec => []LargestAccepted
<1>1. RoutesInv => LargestAccepted
  BY DEF RoutesInv, LargestAccepted, LegIsSound
<1> QED
  BY <1>1, RoutesInvariant, PTL
==============================================================================
