---------------------------- MODULE StackingProofs ----------------------------
(***************************************************************************)
(* Proofs about resolveStacking, for every table of candidates over every  *)
(* finite set of rules, called in any two orders.                          *)
(***************************************************************************)
EXTENDS ResolveStacking, OperatorTheorems, TLAPS

-----------------------------------------------------------------------------
(* The call.                                                                *)

IsOrder(seq) ==
  /\ seq \in [1..Cardinality(Rule) -> Rule]
  /\ \A r \in Rule : \E i \in 1..Cardinality(Rule) : seq[i] = r

CallInv ==
  /\ IsTable(table) /\ DOMAIN table = Rule /\ IsOrder(order)
  /\ selected = Resolve(table, order)

(* An order that repeats no rule leaves none out.                           *)
LEMMA OrdersAreComplete ==
  ASSUME NEW seq \in Orders
  PROVE  IsOrder(seq)
<1> DEFINE n == Cardinality(Rule)
<1>1. IsFiniteSet(Rule) /\ n \in Nat
  BY StackingAssumption, FS_CardinalityType
<1>2. seq \in [1..n -> Rule] /\ \A i, j \in 1..n : seq[i] = seq[j] => i = j
  BY DEF Orders
<1>3. ASSUME NEW r \in Rule, \A i \in 1..n : seq[i] # r PROVE FALSE
  <2>1. seq \in [1..n -> Rule \ {r}]
    BY <1>2, <1>3
  <2>2. IsFiniteSet(1..n) /\ Cardinality(1..n) = n
    BY <1>1, FS_Interval
  <2>3. IsFiniteSet(Rule \ {r}) /\ Cardinality(Rule \ {r}) = n - 1
    BY <1>1, FS_RemoveElement
  <2>4. Cardinality(Rule \ {r}) < Cardinality(1..n)
    BY <1>1, <2>2, <2>3
  <2> HIDE DEF n
  <2>5. \E i, j \in 1..n : i # j /\ seq[i] = seq[j]
    BY <2>1, <2>2, <2>3, <2>4, FS_PigeonHole
  <2> QED
    BY <1>2, <2>5
<1> QED
  BY <1>2, <1>3 DEF IsOrder

LEMMA InitCall == Init => CallInv
<1> SUFFICES ASSUME Init PROVE CallInv
  OBVIOUS
<1>1. IsTable(table) /\ DOMAIN table = Rule
  <2>1. PICK tables \in Families : table \in tables
    BY DEF Init
  <2>2. DOMAIN table = Rule /\ Rule \in SUBSET Int /\ IsFiniteSet(Rule)
    BY <2>1, StackingAssumption
  <2>3. \A r \in Rule :
          /\ table[r].eligible \in BOOLEAN /\ table[r].includes \in BOOLEAN
          /\ table[r].isBase \in BOOLEAN
          /\ table[r].precedence \in Int /\ table[r].value \in Int
          /\ table[r].conflicts \subseteq Int /\ IsFiniteSet(table[r].conflicts)
    BY <2>1, StackingAssumption
  <2> QED
    BY <2>2, <2>3 DEF IsTable
<1>2. IsOrder(order)
  <2>1. Rule \in SUBSET Int /\ IsFiniteSet(Rule)
    BY StackingAssumption
  <2>2. /\ Ascending(Rule) \in [1..Cardinality(Rule) -> Rule]
        /\ \A r \in Rule : \E i \in 1..Cardinality(Rule) : Ascending(Rule)[i] = r
    BY <2>1, AscendingIds
  <2> QED
    BY <2>2 DEF Init, IsOrder
<1> QED
  BY <1>1, <1>2 DEF Init, CallInv

LEMMA NextCall == CallInv /\ [Next]_vars => CallInv'
<1> SUFFICES ASSUME CallInv, [Next]_vars PROVE CallInv'
  OBVIOUS
<1>1. CASE Next
  <2>1. table' = table /\ order' \in Orders /\ selected' = Resolve(table, order')
    BY <1>1 DEF Next
  <2>2. IsOrder(order)'
    BY <2>1, OrdersAreComplete DEF IsOrder
  <2> QED
    BY <2>1, <2>2 DEF CallInv, IsTable
<1>2. CASE UNCHANGED vars
  BY <1>2 DEF vars, CallInv, IsTable, IsOrder
<1> QED
  BY <1>1, <1>2

LEMMA SelectedFacts ==
  ASSUME CallInv
  PROVE  /\ Standing(table, order) \subseteq Rule
         /\ selected = AfterInclusion(table, Standing(table, order), order)
         /\ selected \subseteq Standing(table, order)
         /\ Standing(table, order) \ selected \subseteq Bases(table, Standing(table, order))
         /\ \A a \in selected : table[a].includes => IncludedBases(table, a) \cap selected = {}
<1> DEFINE standing == Standing(table, order)
           n == Cardinality(Rule)
<1>1. standing \in SUBSET Rule
  BY StandingIsCompatible DEF CallInv
<1>2. n \in Nat /\ order \in [1..n -> Rule] /\ \A r \in Rule : \E i \in 1..n : order[i] = r
  BY StackingAssumption, FS_CardinalityType DEF CallInv, IsOrder
<1>3. selected = AfterInclusion(table, standing, order)
  BY DEF CallInv, Resolve
<1>a. DOMAIN table = Rule
  BY DEF CallInv
<1> HIDE DEF standing, n
<1>4. /\ AfterInclusion(table, standing, order) \subseteq standing
      /\ standing \ AfterInclusion(table, standing, order) \subseteq Bases(table, standing)
      /\ \A a \in AfterInclusion(table, standing, order) : table[a].includes =>
            IncludedBases(table, a) \cap AfterInclusion(table, standing, order) = {}
  BY <1>1, <1>2, <1>a, InclusionFacts
<1> QED
  BY <1>1, <1>3, <1>4 DEF standing

-----------------------------------------------------------------------------
(* Theorems.                                                                *)

(* Whatever the table, the rules that are paid are compatible: no two in    *)
(* conflict, a replacing rule alone in its group, one rule that is the best *)
(* of its group.                                                            *)
THEOREM PaidIsCompatible == Spec => []SelectedIsCompatible
<1>1. CallInv => SelectedIsCompatible
  <2> SUFFICES ASSUME CallInv PROVE SelectedIsCompatible
    OBVIOUS
  <2>1. selected \subseteq Standing(table, order)
    BY SelectedFacts
  <2>2. \A a, b \in Standing(table, order) : a # b =>
          /\ b \notin table[a].conflicts
          /\ table[a].group = table[b].group =>
               /\ "replaces_group" \notin {table[a].mode, table[b].mode}
               /\ {table[a].mode, table[b].mode} # {"best_of_group"}
    BY StandingIsCompatible DEF CallInv
  <2> QED
    BY <2>1, <2>2 DEF SelectedIsCompatible
<1> QED
  BY <1>1, InitCall, NextCall, PTL DEF Spec

(* A rule is paid with the rules it requires, or with paid rules that       *)
(* include those unless the including rule is itself included, and no base  *)
(* is paid beside a rule that includes it.                                  *)
THEOREM RequiredIsCounted == Spec => []RequirementsAreCounted
<1>1. CallInv => RequirementsAreCounted
  <2> SUFFICES ASSUME CallInv, NEW a \in selected
               PROVE  /\ \A q \in table[a].requires \ selected :
                           \/ Includers(q) \cap selected # {}
                           \/ \E c \in Includers(q) : Includers(c) # {}
                      /\ table[a].includes => IncludedBases(table, a) \cap selected = {}
    BY DEF RequirementsAreCounted
  <2> DEFINE standing == Standing(table, order)
  <2>1. /\ standing \subseteq Rule /\ selected \subseteq standing
        /\ standing \ selected \subseteq Bases(table, standing)
        /\ table[a].includes => IncludedBases(table, a) \cap selected = {}
    BY SelectedFacts
  <2>2. table[a].requires \subseteq standing
    BY <2>1, StandingIsCompatible DEF CallInv
  <2> HIDE DEF standing
  <2>3. ASSUME NEW q \in standing \ selected
        PROVE  \E c \in standing : c \in Includers(q)
    BY <2>1 DEF Bases, Includers
  <2>4. ASSUME NEW q \in table[a].requires \ selected
        PROVE  \/ Includers(q) \cap selected # {}
               \/ \E c \in Includers(q) : Includers(c) # {}
    <3>1. PICK c \in standing : c \in Includers(q)
      BY <2>2, <2>3, <2>4
    <3>2. CASE c \in selected
      BY <3>1, <3>2
    <3>3. CASE c \notin selected
      BY <2>3, <3>1, <3>3
    <3> QED
      BY <3>2, <3>3
  <2> QED
    BY <2>1, <2>4
<1> QED
  BY <1>1, InitCall, NextCall, PTL DEF Spec

(* The order of the input decides nothing but who suppresses whom along a   *)
(* chain of inclusions.                                                     *)
THEOREM OrderIsIrrelevant == Spec => OrderDecidesNothing
<1>1. CallInv /\ [Next]_vars => [Chained \/ selected' = selected]_vars
  <2> SUFFICES ASSUME CallInv, CallInv', Next, ~ Chained PROVE selected' = selected
    BY NextCall
  <2> DEFINE standing == Standing(table, order)
             n == Cardinality(Rule)
  <2>1. /\ table' = table
        /\ selected = AfterInclusion(table, Standing(table, order), order)
        /\ selected' = AfterInclusion(table, Standing(table, order'), order')
    BY DEF CallInv, Next, Resolve
  <2>2. Standing(table, order') = standing
    BY DEF Standing, AfterConflicts, Turns
  <2>3. standing \in SUBSET Rule
    BY StandingIsCompatible DEF CallInv
  <2>4. n \in Nat /\ DOMAIN table = Rule
    BY StackingAssumption, FS_CardinalityType DEF CallInv
  <2>5. \A a, b \in standing : table[a].includes /\ table[b].includes =>
          b \notin IncludedBases(table, a) \ {a}
    BY <2>3 DEF Chained
  <2> HIDE DEF standing, n
  <2>6. ASSUME NEW seq, IsOrder(seq)
        PROVE  AfterInclusion(table, standing, seq) = standing \ Bases(table, standing)
    <3>1. seq \in [1..n -> Rule] /\ \A r \in Rule : \E i \in 1..n : seq[i] = r
      BY <2>6 DEF IsOrder, n
    <3> QED
      BY <2>3, <2>4, <2>5, <3>1, InclusionFacts
  <2>7. IsOrder(order) /\ IsOrder(order')
    BY DEF CallInv, IsOrder
  <2> QED
    BY <2>1, <2>2, <2>6, <2>7 DEF standing
<1> QED
  BY <1>1, InitCall, NextCall, PTL DEF Spec, OrderDecidesNothing
=============================================================================
