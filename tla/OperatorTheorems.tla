--------------------------- MODULE OperatorTheorems ---------------------------
(***************************************************************************)
(* Theorems about the operators that the models are built from, with no    *)
(* state machine.  First least and greatest numbers, recursion over the    *)
(* subsets of a finite set, which is what the folds of Folds,              *)
(* FiniteSetsExt and SequencesExt are, and sums over finite sets.          *)
(* Induction is over the least number that refutes a claim, so that no     *)
(* theorem needs an operator as a parameter: what a fold does with a value *)
(* and an element is a function here.                                      *)
(*                                                                         *)
(* Then what the operators of the stacking kernel return, for every table  *)
(* of candidates over every finite set of rules.  Each is a fold, which a  *)
(* lemma opens into the trace of its turns.                                *)
(***************************************************************************)
EXTENDS Stacking, Integers, FiniteSets, Functions, FiniteSetTheorems, WellFoundedInduction, TLAPS

-----------------------------------------------------------------------------
(* Finite sets of numbers.                                                  *)

(* Every set of natural numbers that is not empty has a least one.          *)
LEMMA LeastNumber ==
  ASSUME NEW S \in SUBSET Nat, S # {}
  PROVE  \E n \in S : \A m \in S : n <= m
<1> DEFINE R == OpToRel(<, Nat)
<1>1. \E n \in S : \A m \in S : ~ (<<m, n>> \in R)
  BY NatLessThanWellFounded, WFMin
<1>2. ASSUME NEW m \in Nat, NEW n \in Nat, m < n PROVE <<m, n>> \in R
  BY <1>2 DEF OpToRel
<1> HIDE DEF R
<1>3. PICK n \in S : \A m \in S : ~ (<<m, n>> \in R)
  BY <1>1
<1>4. ASSUME NEW m \in S PROVE n <= m
  <2>1. m \in Nat /\ n \in Nat
    OBVIOUS
  <2>2. ~ (m < n)
    BY <1>2, <1>3, <2>1
  <2> QED
    BY <2>1, <2>2
<1> QED
  BY <1>4

(* A bounded set of natural numbers has a greatest one.                     *)
LEMMA GreatestNumber ==
  ASSUME NEW S \in SUBSET Nat, S # {}, NEW bound \in Nat, \A n \in S : n <= bound
  PROVE  \E n \in S : \A m \in S : m <= n
<1> DEFINE above == {n \in Nat : \A m \in S : m <= n}
<1>1. bound \in above
  OBVIOUS
<1>2. PICK least \in above : \A n \in above : least <= n
  BY <1>1, LeastNumber
<1>3. ASSUME least \notin S PROVE FALSE
  <2>1. \A m \in S : m < least
    BY <1>2, <1>3
  <2>2. PICK m \in S : m \in Nat /\ m < least
    BY <2>1
  <2>3. least - 1 \in Nat
    BY <2>2
  <2>4. \A n \in S : n <= least - 1
    BY <2>1, <2>3
  <2>5. least - 1 \in above
    BY <2>3, <2>4
  <2> QED
    BY <1>2, <2>3, <2>5
<1> QED
  BY <1>2, <1>3

(* Induction, with the numbers of which the claim holds as a set.           *)
LEMMA NumberInduction ==
  ASSUME NEW S, 0 \in S, \A k \in Nat : k \in S => k + 1 \in S
  PROVE  Nat \subseteq S
<1> SUFFICES ASSUME NEW j \in Nat, j \notin S PROVE FALSE
  OBVIOUS
<1> DEFINE T == {n \in Nat : n \notin S}
<1>1. PICK n \in T : \A m \in T : n <= m
  BY LeastNumber
<1>2. n \in Nat /\ n \notin S /\ n - 1 \in Nat /\ n - 1 \notin T
  BY <1>1
<1>3. (n - 1) + 1 = n
  BY <1>2
<1> QED
  BY <1>2, <1>3

LEMMA RangeInduction ==
  ASSUME NEW n \in Nat, NEW S, 0 \in S, \A k \in 1..n : k - 1 \in S => k \in S
  PROVE  \A k \in 0..n : k \in S
<1> DEFINE T == {k \in Nat : k <= n => k \in S}
<1>1. ASSUME NEW k \in Nat, k \in T PROVE k + 1 \in T
  <2>1. CASE k + 1 <= n
    <3>1. k + 1 \in 1..n /\ (k + 1) - 1 = k /\ k \in S
      BY <1>1, <2>1
    <3> QED
      BY <3>1
  <2>2. CASE ~ (k + 1 <= n)
    BY <2>2
  <2> QED
    BY <2>1, <2>2
<1>2. Nat \subseteq T
  <2> HIDE DEF T
  <2>1. 0 \in T
    BY DEF T
  <2> QED
    BY <1>1, <2>1, NumberInduction
<1> QED
  BY <1>2

-----------------------------------------------------------------------------
(* Recursion over the subsets of a finite set.                              *)

(* iter is the recursion that takes the element pick[s] out of a set s and  *)
(* combines it with the value for the rest.                                 *)
Iterates(iter, D, base, pick, step) ==
  iter = [s \in SUBSET D |->
            IF s = {} THEN base ELSE step[<<iter[s \ {pick[s]}], pick[s]>>]]

(* iter is that recursion as far as sets of k elements.                     *)
IteratesTo(iter, k, D, base, pick, step) ==
  \A s \in SUBSET D : Cardinality(s) <= k =>
    iter[s] = IF s = {} THEN base ELSE step[<<iter[s \ {pick[s]}], pick[s]>>]

LEMMA Smaller ==
  ASSUME NEW s, IsFiniteSet(s), NEW x \in s
  PROVE  /\ IsFiniteSet(s \ {x}) /\ Cardinality(s) \in Nat
         /\ Cardinality(s) >= 1 /\ Cardinality(s \ {x}) = Cardinality(s) - 1
<1>1. Cardinality(s) \in Nat /\ IsFiniteSet(s \ {x})
      /\ Cardinality(s \ {x}) = Cardinality(s) - 1
  BY FS_RemoveElement, FS_CardinalityType
<1>2. Cardinality(s) # 0
  BY FS_EmptySet
<1> QED
  BY <1>1, <1>2

(* The recursion has a solution.                                            *)
LEMMA IterationExists ==
  ASSUME NEW D, IsFiniteSet(D), NEW V, NEW base \in V, NEW pick, NEW step,
         \A s \in SUBSET D : s # {} => pick[s] \in s,
         \A v \in V, x \in D : step[<<v, x>>] \in V
  PROVE  \E iter \in [SUBSET D -> V] : Iterates(iter, D, base, pick, step)
<1> DEFINE Solved(k) == \E iter \in [SUBSET D -> V] : IteratesTo(iter, k, D, base, pick, step)
<1>1. \A s \in SUBSET D : IsFiniteSet(s) /\ Cardinality(s) \in Nat /\ Cardinality(s) <= Cardinality(D)
  BY FS_Subset, FS_CardinalityType
<1>2. Solved(0)
  <2> DEFINE iter == [s \in SUBSET D |-> base]
  <2>1. \A s \in SUBSET D : Cardinality(s) <= 0 => s = {}
    BY <1>1, FS_EmptySet
  <2>2. iter \in [SUBSET D -> V] /\ IteratesTo(iter, 0, D, base, pick, step)
    BY <2>1 DEF IteratesTo
  <2> QED
    BY <2>2
<1>3. ASSUME NEW k \in Nat, Solved(k) PROVE Solved(k + 1)
  <2>1. PICK old \in [SUBSET D -> V] : IteratesTo(old, k, D, base, pick, step)
    BY <1>3
  <2> DEFINE next(s) == IF s = {} THEN base ELSE step[<<old[s \ {pick[s]}], pick[s]>>]
             iter == [s \in SUBSET D |-> IF Cardinality(s) <= k THEN old[s] ELSE next(s)]
  <2>2. iter \in [SUBSET D -> V]
    <3>1. \A s \in SUBSET D : next(s) \in V
      OBVIOUS
    <3> HIDE DEF next
    <3> QED
      BY <2>1, <3>1
  <2>3. ASSUME NEW s \in SUBSET D, Cardinality(s) <= k + 1
        PROVE  iter[s] = IF s = {} THEN base ELSE step[<<iter[s \ {pick[s]}], pick[s]>>]
    <3>1. iter[s] = next(s)
      BY <2>1, <2>3 DEF IteratesTo
    <3>2. CASE s = {}
      BY <3>1, <3>2
    <3>3. CASE s # {}
      <4>1. Cardinality(s) \in Nat /\ Cardinality(s \ {pick[s]}) = Cardinality(s) - 1
        BY <1>1, <3>3, Smaller
      <4>2. Cardinality(s \ {pick[s]}) <= k /\ s \ {pick[s]} \in SUBSET D
        BY <1>3, <2>3, <4>1
      <4>3. iter[s \ {pick[s]}] = old[s \ {pick[s]}]
        BY <4>2
      <4> HIDE DEF iter
      <4> QED
        BY <3>1, <3>3, <4>3
    <3> QED
      BY <3>2, <3>3
  <2> HIDE DEF iter
  <2>4. IteratesTo(iter, k + 1, D, base, pick, step)
    BY <2>3 DEF IteratesTo
  <2> QED
    BY <2>2, <2>4
<1> HIDE DEF Solved
<1>4. \A k \in Nat : Solved(k)
  <2> SUFFICES ASSUME NEW j \in Nat, ~ Solved(j) PROVE FALSE
    OBVIOUS
  <2> DEFINE T == {n \in Nat : ~ Solved(n)}
  <2>1. j \in T
    OBVIOUS
  <2>2. PICK n \in T : \A m \in T : n <= m
    BY <2>1, LeastNumber
  <2>3. n # 0
    BY <1>2, <2>2
  <2>4. n - 1 \in Nat /\ ~ (n <= n - 1)
    BY <2>2, <2>3
  <2>5. Solved(n - 1)
    BY <2>2, <2>4
  <2>6. (n - 1) + 1 = n
    BY <2>2
  <2>7. Solved((n - 1) + 1)
    BY <1>3, <2>4, <2>5
  <2> QED
    BY <2>2, <2>6, <2>7
<1>5. Cardinality(D) \in Nat
  BY FS_CardinalityType
<1>6. PICK iter \in [SUBSET D -> V] : IteratesTo(iter, Cardinality(D), D, base, pick, step)
  BY <1>4, <1>5 DEF Solved
<1>7. \A s \in SUBSET D : iter[s] = IF s = {} THEN base ELSE step[<<iter[s \ {pick[s]}], pick[s]>>]
  BY <1>1, <1>6 DEF IteratesTo
<1> QED
  BY <1>7 DEF Iterates

(* Two solutions agree on every set that both are about.                    *)
LEMMA IterationUnique ==
  ASSUME NEW D, IsFiniteSet(D), NEW E, D \subseteq E, NEW base, NEW pick, NEW step,
         \A s \in SUBSET D : s # {} => pick[s] \in s,
         NEW f, Iterates(f, D, base, pick, step), NEW g, Iterates(g, E, base, pick, step)
  PROVE  \A s \in SUBSET D : f[s] = g[s]
<1> SUFFICES ASSUME NEW z \in SUBSET D, f[z] # g[z] PROVE FALSE
  OBVIOUS
<1> DEFINE T == {n \in Nat : \E s \in SUBSET D : Cardinality(s) = n /\ f[s] # g[s]}
<1>1. \A s \in SUBSET D : IsFiniteSet(s) /\ Cardinality(s) \in Nat
  BY FS_Subset, FS_CardinalityType
<1>2. Cardinality(z) \in T
  BY <1>1
<1>3. PICK n \in T : \A m \in T : n <= m
  BY <1>2, LeastNumber
<1>4. PICK s \in SUBSET D : Cardinality(s) = n /\ f[s] # g[s]
  BY <1>3
<1>5. /\ f[s] = IF s = {} THEN base ELSE step[<<f[s \ {pick[s]}], pick[s]>>]
      /\ g[s] = IF s = {} THEN base ELSE step[<<g[s \ {pick[s]}], pick[s]>>]
  BY DEF Iterates
<1>6. s # {}
  BY <1>4, <1>5
<1>7. Cardinality(s \ {pick[s]}) = n - 1 /\ n - 1 \in Nat /\ n \in Nat
  BY <1>1, <1>4, <1>6, Smaller
<1>8. n - 1 \notin T
  BY <1>3, <1>7
<1>9. f[s \ {pick[s]}] = g[s \ {pick[s]}]
  BY <1>7, <1>8
<1> QED
  BY <1>4, <1>5, <1>6, <1>9

-----------------------------------------------------------------------------
(* Recursion over an interval, taking the greatest number first: FoldLeft.  *)

Greatest(s) == CHOOSE x \in s : \A y \in s : x >= y

(* iter is the recursion that takes the greatest number first.              *)
FoldsUp(iter, n, base, step) ==
  iter = [s \in SUBSET (1..n) |->
            IF s = {} THEN base ELSE step[<<iter[s \ {Greatest(s)}], Greatest(s)>>]]

LEMMA GreatestOfInterval ==
  ASSUME NEW m \in Nat \ {0}
  PROVE  /\ Greatest(1..m) = m
         /\ (1..m) \ {m} = 1..(m - 1) /\ 1..m # {}
<1>1. m \in 1..m /\ \A y \in 1..m : m >= y
  OBVIOUS
<1>2. \A x \in 1..m : (\A y \in 1..m : x >= y) => x = m
  BY <1>1
<1> QED
  BY <1>1, <1>2 DEF Greatest

LEMMA GreatestIsMember ==
  ASSUME NEW n \in Nat, NEW s \in SUBSET (1..n), s # {}
  PROVE  Greatest(s) \in s
<1>1. s \in SUBSET Nat /\ \A x \in s : x <= n
  OBVIOUS
<1>2. \E x \in s : \A y \in s : y <= x
  BY <1>1, GreatestNumber
<1>3. \E x \in s : \A y \in s : x >= y
  BY <1>1, <1>2
<1> QED
  BY <1>3 DEF Greatest

(* The recursion has a solution, whose values stay in V.                    *)
LEMMA FoldExists ==
  ASSUME NEW n \in Nat, NEW V, NEW base \in V, NEW step,
         \A v \in V, i \in 1..n : step[<<v, i>>] \in V
  PROVE  \E iter \in [SUBSET (1..n) -> V] : FoldsUp(iter, n, base, step)
<1> DEFINE D == 1..n
           pick == [s \in SUBSET D |-> Greatest(s)]
<1>1. IsFiniteSet(D)
  BY FS_Interval
<1>2. ASSUME NEW s \in SUBSET D, s # {} PROVE pick[s] \in s
  BY <1>2, GreatestIsMember
<1>3. \A s \in SUBSET D : pick[s] = Greatest(s)
  OBVIOUS
<1> HIDE DEF pick
<1>4. PICK iter \in [SUBSET D -> V] : Iterates(iter, D, base, pick, step)
  BY <1>1, <1>2, IterationExists
<1>5. iter = [s \in SUBSET D |-> IF s = {} THEN base ELSE step[<<iter[s \ {pick[s]}], pick[s]>>]]
  BY <1>4 DEF Iterates
<1> QED
  BY <1>3, <1>5 DEF FoldsUp

-----------------------------------------------------------------------------
(* Sums over finite sets: SumFunctionOnSet.                                 *)

Added(iter, T, w) ==
  iter = [s \in SUBSET T |->
            IF s = {} THEN 0
            ELSE w[CHOOSE x \in s : TRUE] + iter[s \ {CHOOSE x \in s : TRUE}]]

(* The recursion has one solution.                                          *)
LEMMA AddedOnce ==
  ASSUME NEW S, IsFiniteSet(S), NEW T \in SUBSET S, NEW w,
         NEW f, Added(f, T, w), NEW g, Added(g, S, w)
  PROVE  f[T] = g[T]
<1> DEFINE Differ == {n \in Nat : \E s \in SUBSET T : Cardinality(s) = n /\ f[s] # g[s]}
<1>1. \A s \in SUBSET T : IsFiniteSet(s) /\ Cardinality(s) \in Nat
  BY FS_Subset, FS_CardinalityType
<1>2. SUFFICES ASSUME f[T] # g[T] PROVE FALSE
  OBVIOUS
<1>3. Cardinality(T) \in Differ
  BY <1>1, <1>2
<1>4. PICK n \in Differ : \A m \in Differ : n <= m
  BY <1>3, LeastNumber
<1>5. PICK s \in SUBSET T : Cardinality(s) = n /\ f[s] # g[s]
  BY <1>4
<1> DEFINE x == CHOOSE x \in s : TRUE
<1>6. /\ f[s] = IF s = {} THEN 0 ELSE w[x] + f[s \ {x}]
      /\ g[s] = IF s = {} THEN 0 ELSE w[x] + g[s \ {x}]
  BY DEF Added
<1>7. s # {} /\ x \in s
  BY <1>5, <1>6
<1> HIDE DEF x
<1>8. Cardinality(s \ {x}) = n - 1 /\ n - 1 \in Nat /\ n \in Nat
  BY <1>1, <1>5, <1>7, Smaller
<1>9. n - 1 \notin Differ
  BY <1>4, <1>8
<1>10. f[s \ {x}] = g[s \ {x}]
  BY <1>8, <1>9
<1> QED
  BY <1>5, <1>6, <1>10

(* The sum is that solution.                                                *)
LEMMA SumRecursion ==
  ASSUME NEW S, IsFiniteSet(S), NEW w, \A x \in S : w[x] \in Nat
  PROVE  /\ SumFunctionOnSet(w, S) \in Nat
         /\ S = {} => SumFunctionOnSet(w, S) = 0
         /\ S # {} => SumFunctionOnSet(w, S)
                        = w[CHOOSE x \in S : TRUE] + SumFunctionOnSet(w, S \ {CHOOSE x \in S : TRUE})
<1> DEFINE pick == [s \in SUBSET S |-> CHOOSE x \in s : TRUE]
           step == [p \in Nat \X S |-> w[p[2]] + p[1]]
<1>1. \A T : SumFunctionOnSet(w, T) = (CHOOSE iter : Added(iter, T, w))[T]
  BY Zenon DEF SumFunctionOnSet, FoldFunctionOnSet, MapThenFoldSet, Added
<1>2. \A s \in SUBSET S : s # {} => pick[s] \in s
  <2>1. \A s \in SUBSET S : s # {} => (CHOOSE x \in s : TRUE) \in s
    OBVIOUS
  <2> QED
    BY <2>1
<1>3. \A v \in Nat, x \in S : step[<<v, x>>] = w[x] + v /\ step[<<v, x>>] \in Nat
  OBVIOUS
<1>a. \A s \in SUBSET S : pick[s] = CHOOSE x \in s : TRUE
  OBVIOUS
<1> HIDE DEF pick, step
<1>4. ASSUME NEW T \in SUBSET S, NEW iter \in [SUBSET T -> Nat], Iterates(iter, T, 0, pick, step)
      PROVE  Added(iter, T, w)
  <2>1. \A s \in SUBSET T : s # {} =>
          /\ pick[s] = CHOOSE x \in s : TRUE
          /\ pick[s] \in S /\ s \ {pick[s]} \in SUBSET T
          /\ step[<<iter[s \ {pick[s]}], pick[s]>>] = w[pick[s]] + iter[s \ {pick[s]}]
    BY <1>2, <1>3, <1>a
  <2>2. \A s \in SUBSET T : s # {} =>
          step[<<iter[s \ {pick[s]}], pick[s]>>]
            = w[CHOOSE x \in s : TRUE] + iter[s \ {CHOOSE x \in s : TRUE}]
    BY <2>1
  <2>3. iter = [s \in SUBSET T |->
                  IF s = {} THEN 0 ELSE step[<<iter[s \ {pick[s]}], pick[s]>>]]
    BY <1>4 DEF Iterates
  <2> QED
    BY <2>2, <2>3 DEF Added
<1>5. ASSUME NEW T \in SUBSET S
      PROVE  \E iter : iter \in [SUBSET T -> Nat] /\ Added(iter, T, w)
  <2>1. IsFiniteSet(T)
    BY FS_Subset
  <2>2. /\ \A s \in SUBSET T : s # {} => pick[s] \in s
        /\ \A v \in Nat, x \in T : step[<<v, x>>] \in Nat
    BY <1>2, <1>3
  <2>3. PICK iter \in [SUBSET T -> Nat] : Iterates(iter, T, 0, pick, step)
    BY <2>1, <2>2, IterationExists
  <2> QED
    BY <1>4, <2>3
<1>6. ASSUME NEW T \in SUBSET S
      PROVE  Added(CHOOSE iter : Added(iter, T, w), T, w)
  BY <1>5
<1>7. PICK whole : whole \in [SUBSET S -> Nat] /\ Added(whole, S, w)
  BY <1>5
<1>8. ASSUME NEW T \in SUBSET S
      PROVE  SumFunctionOnSet(w, T) = whole[T]
  BY <1>1, <1>6, <1>7, <1>8, AddedOnce
<1>9. /\ whole[S] \in Nat
      /\ S = {} => whole[S] = 0
      /\ S # {} => whole[S] = w[CHOOSE x \in S : TRUE] + whole[S \ {CHOOSE x \in S : TRUE}]
  BY <1>7 DEF Added
<1> QED
  BY <1>8, <1>9

LEMMA SumOfNone == ASSUME NEW w PROVE SumFunctionOnSet(w, {}) = 0
BY FS_EmptySet, SumRecursion

(* Any member can be taken out.                                             *)
LEMMA SumWithout ==
  ASSUME NEW S, IsFiniteSet(S), NEW w, \A x \in S : w[x] \in Nat, NEW a \in S
  PROVE  /\ SumFunctionOnSet(w, S \ {a}) \in Nat
         /\ SumFunctionOnSet(w, S) = w[a] + SumFunctionOnSet(w, S \ {a})
<1> DEFINE Sum(T) == SumFunctionOnSet(w, T)
           Wrong == {n \in Nat : \E T \in SUBSET S, x \in S :
                       /\ x \in T /\ Cardinality(T) = n
                       /\ Sum(T) # w[x] + Sum(T \ {x})}
<1>1. \A T \in SUBSET S : IsFiniteSet(T) /\ Cardinality(T) \in Nat
  BY FS_Subset, FS_CardinalityType
<1>2. ASSUME NEW T \in SUBSET S
      PROVE  /\ Sum(T) \in Nat
             /\ T # {} => Sum(T) = w[CHOOSE x \in T : TRUE] + Sum(T \ {CHOOSE x \in T : TRUE})
  <2>1. IsFiniteSet(T) /\ \A x \in T : w[x] \in Nat
    BY <1>1
  <2> QED
    BY <2>1, SumRecursion
<1> HIDE DEF Sum
<1>3. ASSUME Wrong # {} PROVE FALSE
  <2>1. PICK n \in Wrong : \A m \in Wrong : n <= m
    BY <1>3, LeastNumber
  <2>2. PICK T \in SUBSET S, x \in S : x \in T /\ Cardinality(T) = n /\ Sum(T) # w[x] + Sum(T \ {x})
    BY <2>1
  <2> DEFINE y == CHOOSE y \in T : TRUE
  <2>3. y \in T /\ Sum(T) = w[y] + Sum(T \ {y})
    BY <1>2, <2>2
  <2> HIDE DEF y
  <2>4. x # y
    BY <2>2, <2>3
  <2>5. ASSUME NEW z \in T PROVE Cardinality(T \ {z}) = n - 1 /\ n - 1 \in Nat /\ n \in Nat
    BY <1>1, <2>2, Smaller
  <2>6. n - 1 \notin Wrong
    BY <2>1, <2>2, <2>5
  <2>7. Sum(T \ {y}) = w[x] + Sum((T \ {y}) \ {x})
    BY <2>2, <2>3, <2>4, <2>5, <2>6
  <2>8. Sum(T \ {x}) = w[y] + Sum((T \ {x}) \ {y})
    BY <2>2, <2>3, <2>4, <2>5, <2>6
  <2>9. (T \ {y}) \ {x} = (T \ {x}) \ {y}
    OBVIOUS
  <2>10. Sum((T \ {x}) \ {y}) \in Nat /\ w[x] \in Nat /\ w[y] \in Nat
    BY <1>2, <2>2, <2>3
  <2> QED
    BY <2>2, <2>3, <2>7, <2>8, <2>9, <2>10
<1>4. Cardinality(S) \notin Wrong /\ Cardinality(S) \in Nat
  BY <1>1, <1>3
<1>5. Sum(S) = w[a] + Sum(S \ {a})
  BY <1>4
<1> QED
  BY <1>2, <1>5 DEF Sum

(* A further element adds its number.                                       *)
LEMMA SumWith ==
  ASSUME NEW S, IsFiniteSet(S), NEW w, \A x \in S : w[x] \in Nat,
         NEW a, a \notin S, w[a] \in Nat
  PROVE  SumFunctionOnSet(w, S \cup {a}) = w[a] + SumFunctionOnSet(w, S)
<1>1. IsFiniteSet(S \cup {a})
  BY FS_AddElement
<1>2. (S \cup {a}) \ {a} = S
  OBVIOUS
<1>3. \A x \in S \cup {a} : w[x] \in Nat
  OBVIOUS
<1>4. SumFunctionOnSet(w, S \cup {a}) = w[a] + SumFunctionOnSet(w, (S \cup {a}) \ {a})
  BY <1>1, <1>3, SumWithout
<1> QED
  BY <1>2, <1>4

(* Only the numbers of the members matter.                                  *)
LEMMA SumSame ==
  ASSUME NEW S, IsFiniteSet(S), NEW w, NEW v, \A x \in S : w[x] \in Nat /\ w[x] = v[x]
  PROVE  SumFunctionOnSet(w, S) = SumFunctionOnSet(v, S)
<1> DEFINE Wrong == {n \in Nat : \E T \in SUBSET S :
                       /\ Cardinality(T) = n
                       /\ SumFunctionOnSet(w, T) # SumFunctionOnSet(v, T)}
<1>1. \A T \in SUBSET S : IsFiniteSet(T) /\ Cardinality(T) \in Nat
  BY FS_Subset, FS_CardinalityType
<1>2. ASSUME Wrong # {} PROVE FALSE
  <2>1. PICK n \in Wrong : \A m \in Wrong : n <= m
    BY <1>2, LeastNumber
  <2>2. PICK T \in SUBSET S :
          Cardinality(T) = n /\ SumFunctionOnSet(w, T) # SumFunctionOnSet(v, T)
    BY <2>1
  <2>3. T # {}
    BY <2>2, SumOfNone
  <2>4. PICK x \in T : TRUE
    BY <2>3
  <2>5. /\ IsFiniteSet(T)
        /\ \A z \in T : w[z] \in Nat
        /\ \A z \in T : v[z] \in Nat
    BY <1>1
  <2>6. /\ SumFunctionOnSet(w, T) = w[x] + SumFunctionOnSet(w, T \ {x})
        /\ SumFunctionOnSet(v, T) = v[x] + SumFunctionOnSet(v, T \ {x})
    BY <2>5, SumWithout
  <2>7. Cardinality(T \ {x}) = n - 1 /\ n - 1 \in Nat /\ n \in Nat
    BY <1>1, <2>2, Smaller
  <2>8. n - 1 \notin Wrong
    BY <2>1, <2>7
  <2>9. SumFunctionOnSet(w, T \ {x}) = SumFunctionOnSet(v, T \ {x})
    BY <2>7, <2>8
  <2>10. w[x] = v[x]
    OBVIOUS
  <2> QED
    BY <2>2, <2>6, <2>9, <2>10
<1>3. Cardinality(S) \notin Wrong /\ Cardinality(S) \in Nat
  BY <1>1, <1>2
<1> QED
  BY <1>3

(* A part of a set has no greater sum.                                      *)
LEMMA SumOfPart ==
  ASSUME NEW S, IsFiniteSet(S), NEW w, \A x \in S : w[x] \in Nat, NEW T \in SUBSET S
  PROVE  SumFunctionOnSet(w, T) <= SumFunctionOnSet(w, S)
<1> DEFINE Sum(U) == SumFunctionOnSet(w, U)
           Wrong == {n \in Nat : \E U \in SUBSET S :
                       T \subseteq U /\ Cardinality(U) = n /\ ~ (Sum(T) <= Sum(U))}
<1>1. \A U \in SUBSET S : IsFiniteSet(U) /\ Cardinality(U) \in Nat
  BY FS_Subset, FS_CardinalityType
<1>2. ASSUME NEW U \in SUBSET S
      PROVE  Sum(U) \in Nat /\ \A x \in U : Sum(U) = w[x] + Sum(U \ {x})
  <2>1. IsFiniteSet(U) /\ \A x \in U : w[x] \in Nat
    BY <1>1
  <2>2. SumFunctionOnSet(w, U) \in Nat
    BY <2>1, SumRecursion
  <2>3. ASSUME NEW x \in U
        PROVE  SumFunctionOnSet(w, U) = w[x] + SumFunctionOnSet(w, U \ {x})
    BY <2>1, SumWithout
  <2> QED
    BY <2>2, <2>3
<1> HIDE DEF Sum
<1>3. ASSUME Wrong # {} PROVE FALSE
  <2>1. PICK n \in Wrong : \A m \in Wrong : n <= m
    BY <1>3, LeastNumber
  <2>2. PICK U \in SUBSET S : T \subseteq U /\ Cardinality(U) = n /\ ~ (Sum(T) <= Sum(U))
    BY <2>1
  <2>3. U # T
    BY <1>2, <2>2
  <2>4. PICK x \in U : x \notin T
    BY <2>2, <2>3
  <2>5. Cardinality(U \ {x}) = n - 1 /\ n - 1 \in Nat /\ n \in Nat
    BY <1>1, <2>2, Smaller
  <2>6. n - 1 \notin Wrong
    BY <2>1, <2>5
  <2>7. U \ {x} \in SUBSET S /\ T \subseteq U \ {x}
    BY <2>2, <2>4
  <2>8. Sum(T) <= Sum(U \ {x})
    BY <2>5, <2>6, <2>7
  <2>9. Sum(U) = w[x] + Sum(U \ {x}) /\ w[x] \in Nat
    BY <1>2
  <2>10. Sum(T) \in Nat /\ Sum(U) \in Nat /\ Sum(U \ {x}) \in Nat
    BY <1>2
  <2> QED
    BY <2>2, <2>8, <2>9, <2>10
<1>4. Cardinality(S) \notin Wrong /\ Cardinality(S) \in Nat
  BY <1>1, <1>3
<1> QED
  BY <1>4 DEF Sum

(* A finite set of natural numbers has a greatest: none exceeds their sum.  *)
LEMMA GreatestOfFinite ==
  ASSUME NEW S \in SUBSET Nat, IsFiniteSet(S), S # {}
  PROVE  \E n \in S : \A m \in S : m <= n
<1> DEFINE w == [x \in S |-> x]
           bound == SumFunctionOnSet(w, S)
<1>1. \A x \in S : w[x] \in Nat /\ w[x] = x
  OBVIOUS
<1> HIDE DEF w
<1>2. bound \in Nat
  BY <1>1, SumRecursion
<1>3. ASSUME NEW a \in S PROVE a <= bound
  <2>1. SumFunctionOnSet(w, S \ {a}) \in Nat /\ bound = w[a] + SumFunctionOnSet(w, S \ {a})
    BY <1>1, SumWithout
  <2> QED
    BY <1>1, <1>2, <2>1
<1> HIDE DEF bound
<1> QED
  BY <1>2, <1>3, GreatestNumber

-----------------------------------------------------------------------------
(* Ids in ascending order: each of them, once.                              *)

Rank(ids, r) == Cardinality({q \in ids : q <= r})

LEMMA RanksDiffer ==
  ASSUME NEW ids \in SUBSET Int, IsFiniteSet(ids)
  PROVE  /\ Cardinality(ids) \in Nat
         /\ \A r \in ids : Rank(ids, r) \in 1..Cardinality(ids)
         /\ \A r, t \in ids : Rank(ids, r) = Rank(ids, t) => r = t
<1> DEFINE UpTo(r) == {q \in ids : q <= r}
<1>1. Cardinality(ids) \in Nat
  BY FS_CardinalityType
<1>2. ASSUME NEW r \in ids
      PROVE  IsFiniteSet(UpTo(r)) /\ Rank(ids, r) \in 1..Cardinality(ids)
  <2>1. /\ IsFiniteSet(UpTo(r))
        /\ Cardinality(UpTo(r)) \in Nat
        /\ Cardinality(UpTo(r)) <= Cardinality(ids)
    BY FS_Subset, FS_CardinalityType
  <2>2. r \in UpTo(r)
    OBVIOUS
  <2>3. Cardinality(UpTo(r)) # 0
    BY <2>1, <2>2, FS_EmptySet
  <2> QED
    BY <1>1, <2>1, <2>3 DEF Rank
<1>3. ASSUME NEW r \in ids, NEW t \in ids, r < t PROVE Rank(ids, r) # Rank(ids, t)
  <2>1. r \in Int /\ t \in Int
    OBVIOUS
  <2>2. UpTo(r) \subseteq UpTo(t)
    <3>1. ASSUME NEW q \in Int, q <= r PROVE q <= t
      BY <1>3, <2>1, <3>1
    <3> QED
      BY <3>1
  <2>3. t \in UpTo(t) /\ t \notin UpTo(r)
    BY <1>3, <2>1
  <2>4. IsFiniteSet(UpTo(t))
    BY <1>2
  <2> HIDE DEF UpTo
  <2>5. Cardinality(UpTo(t)) # Cardinality(UpTo(r))
    BY <2>2, <2>3, <2>4, FS_Subset
  <2> QED
    BY <2>5 DEF Rank, UpTo
<1>4. ASSUME NEW r \in ids, NEW t \in ids, Rank(ids, r) = Rank(ids, t) PROVE r = t
  <2>1. r \in Int /\ t \in Int
    OBVIOUS
  <2>2. ~ (r < t) /\ ~ (t < r)
    BY <1>3, <1>4
  <2> QED
    BY <2>1, <2>2
<1> QED
  BY <1>1, <1>2, <1>4

LEMMA RankTaken ==
  ASSUME NEW ids \in SUBSET Int, IsFiniteSet(ids), NEW i \in 1..Cardinality(ids)
  PROVE  \E r \in ids : Rank(ids, r) = i
<1> DEFINE n == Cardinality(ids)
           rank == [r \in ids |-> Rank(ids, r)]
<1>1. SUFFICES ASSUME \A r \in ids : rank[r] # i PROVE FALSE
  OBVIOUS
<1>2. n \in Nat /\ \A r \in ids : rank[r] \in 1..n
  BY RanksDiffer
<1>3. rank \in [ids -> (1..n) \ {i}]
  BY <1>1, <1>2
<1>4. IsFiniteSet(1..n) /\ Cardinality(1..n) = n
  BY <1>2, FS_Interval
<1>5. IsFiniteSet((1..n) \ {i}) /\ Cardinality((1..n) \ {i}) = n - 1
  BY <1>4, FS_RemoveElement
<1>6. \E r, t \in ids : r # t /\ rank[r] = rank[t]
  <2> HIDE DEF rank
  <2>1. Cardinality((1..n) \ {i}) < n
    BY <1>2, <1>5
  <2> QED
    BY <1>3, <1>5, <2>1, FS_PigeonHole
<1> QED
  BY <1>6, RanksDiffer

LEMMA AscendingIds ==
  ASSUME NEW ids \in SUBSET Int, IsFiniteSet(ids)
  PROVE  /\ Cardinality(ids) \in Nat
         /\ Ascending(ids) \in [1..Cardinality(ids) -> ids]
         /\ \A i, j \in 1..Cardinality(ids) : Ascending(ids)[i] = Ascending(ids)[j] => i = j
         /\ \A r \in ids : \E i \in 1..Cardinality(ids) : Ascending(ids)[i] = r
<1> DEFINE n == Cardinality(ids)
<1>1. Ascending(ids) = [i \in 1..n |-> CHOOSE r \in ids : Rank(ids, r) = i]
  BY DEF Ascending, Rank
<1>2. ASSUME NEW i \in 1..n
      PROVE  Ascending(ids)[i] \in ids /\ Rank(ids, Ascending(ids)[i]) = i
  BY <1>1, RankTaken
<1>3. Ascending(ids) \in [1..n -> ids]
  BY <1>1, <1>2
<1>4. ASSUME NEW r \in ids PROVE \E i \in 1..n : Ascending(ids)[i] = r
  <2>1. Rank(ids, r) \in 1..n
    BY RanksDiffer
  <2>2. Ascending(ids)[Rank(ids, r)] = r
    BY <1>2, <2>1, RanksDiffer
  <2> QED
    BY <2>1, <2>2
<1> QED
  BY <1>2, <1>3, <1>4, RanksDiffer

-----------------------------------------------------------------------------
(* AfterInclusion as the sequence of what is left after each rule's turn.   *)

Include(s, left, r) ==
  IF r \in left /\ s[r].includes THEN left \ IncludedBases(s, r) ELSE left

Included(left, s, ids, n, seq) ==
  /\ left \in [0..n -> SUBSET ids]
  /\ left[0] = ids /\ left[n] = AfterInclusion(s, ids, seq)
  /\ \A m \in 1..n : left[m] = Include(s, left[m - 1], seq[m])

LEMMA InclusionTrace ==
  ASSUME NEW s, NEW ids, NEW n \in Nat, NEW seq, DOMAIN seq = 1..n
  PROVE  \E left : Included(left, s, ids, n, seq)
<1> DEFINE Folds(iter) ==
             iter = [t \in SUBSET (1..n) |->
                       IF t = {} THEN ids
                       ELSE Include(s, iter[t \ {Greatest(t)}], seq[Greatest(t)])]
<1>1. AfterInclusion(s, ids, seq) = (CHOOSE iter : Folds(iter))[1..n]
  BY Zenon DEF AfterInclusion, FoldLeft, MapThenFoldSet, Max, Greatest, Include
<1> DEFINE chosen == CHOOSE iter : Folds(iter)
<1>2. Folds(chosen)
  <2> DEFINE step == [p \in (SUBSET ids) \X (1..n) |-> Include(s, p[1], seq[p[2]])]
  <2>1. \A v \in SUBSET ids, i \in 1..n :
          step[<<v, i>>] = Include(s, v, seq[i]) /\ step[<<v, i>>] \in SUBSET ids
    BY DEF Include
  <2> HIDE DEF step
  <2>a. ids \in SUBSET ids /\ \A v \in SUBSET ids, i \in 1..n : step[<<v, i>>] \in SUBSET ids
    BY <2>1
  <2>2. PICK iter \in [SUBSET (1..n) -> SUBSET ids] : FoldsUp(iter, n, ids, step)
    BY <2>a, FoldExists
  <2>3. \A t \in SUBSET (1..n) : t # {} => Greatest(t) \in 1..n
    BY GreatestIsMember
  <2>4. \A t \in SUBSET (1..n) : t # {} =>
          step[<<iter[t \ {Greatest(t)}], Greatest(t)>>] = Include(s, iter[t \ {Greatest(t)}], seq[Greatest(t)])
    BY <2>1, <2>2, <2>3
  <2>5. Folds(iter)
    BY <2>2, <2>4 DEF FoldsUp
  <2> QED
    BY <2>5
<1> HIDE DEF chosen
<1>3. ASSUME NEW m \in 1..n PROVE chosen[1..m] = Include(s, chosen[1..(m - 1)], seq[m])
  <2>1. Greatest(1..m) = m /\ (1..m) \ {m} = 1..(m - 1) /\ 1..m # {} /\ 1..m \in SUBSET (1..n)
    <3>1. m \in Nat \ {0} /\ 1..m \in SUBSET (1..n)
      OBVIOUS
    <3> QED
      BY <3>1, GreatestOfInterval
  <2> QED
    BY <1>2, <2>1
<1>4. chosen[1..0] = ids
  BY <1>2
<1> DEFINE left == [m \in 0..n |-> chosen[1..m]]
           Typed == {m \in 0..n : left[m] \subseteq ids}
<1>5. left[0] = ids /\ left[n] = chosen[1..n]
  BY <1>4
<1>6. \A m \in 1..n : left[m] = Include(s, left[m - 1], seq[m])
  BY <1>3
<1> HIDE DEF left
<1>7. \A m \in 0..n : m \in Typed
  <2>1. 0 \in Typed
    BY <1>5
  <2>2. \A m \in 1..n : m - 1 \in Typed => m \in Typed
    <3>1. ASSUME NEW m \in 1..n, m - 1 \in Typed PROVE m \in Typed
      <4>1. left[m] \subseteq left[m - 1]
        BY <1>6 DEF Include
      <4> QED
        BY <3>1, <4>1
    <3> HIDE DEF Typed
    <3> QED
      BY <3>1
  <2> HIDE DEF Typed
  <2> QED
    BY <2>1, <2>2, RangeInduction
<1>8. left \in [0..n -> SUBSET ids]
  BY <1>7 DEF left
<1> QED
  BY <1>1, <1>5, <1>6, <1>8 DEF chosen, Included

-----------------------------------------------------------------------------
(* Conflicts: who is active, and the pairs that have fought.                *)

Fights(ids) == [active : SUBSET ids, done : SUBSET SUBSET Int]

(* Of a pair that has fought one is out.                                    *)
Settled(fight) ==
  \A x, y \in fight.active : x # y => {x, y} \notin fight.done

(* What a fight of a and b leaves.                                          *)
Decides(fight, after, ids, a, b) ==
  /\ after \in Fights(ids)
  /\ after.active \subseteq fight.active
  /\ Settled(fight) => Settled(after)
  /\ Settled(fight) /\ a # b => ~ {a, b} \subseteq after.active

LEMMA FightStep ==
  ASSUME NEW s, NEW ids, NEW fight \in Fights(ids), NEW a \in Int, NEW b \in Int
  PROVE  Decides(fight, Fight(s, a, fight, b), ids, a, b)
<1> DEFINE loser == IF Outranks(s, b, a) THEN a ELSE b
           after == [active |-> fight.active \ {loser}, done |-> fight.done \cup {{a, b}}]
<1>1. CASE b \notin fight.active \/ {a, b} \in fight.done
  <2>1. Fight(s, a, fight, b) = fight
    BY <1>1 DEF Fight
  <2> QED
    BY <1>1, <2>1 DEF Decides, Settled
<1>2. CASE ~ (b \notin fight.active \/ {a, b} \in fight.done)
  <2>1. Fight(s, a, fight, b) = after
    BY <1>2 DEF Fight
  <2>2. loser \in {a, b}
    OBVIOUS
  <2> HIDE DEF loser
  <2>3. after \in Fights(ids) /\ after.active \subseteq fight.active
    BY DEF Fights
  <2>4. ~ {a, b} \subseteq after.active
    BY <2>2
  <2>5. ASSUME Settled(fight) PROVE Settled(after)
    <3> SUFFICES ASSUME NEW x \in after.active, NEW y \in after.active, x # y, {x, y} \in after.done
                 PROVE  FALSE
      BY DEF Settled
    <3>1. {x, y} \notin fight.done
      BY <2>5 DEF Settled
    <3>2. {x, y} = {a, b}
      BY <3>1
    <3> QED
      BY <2>4, <3>2
  <2> QED
    BY <2>1, <2>3, <2>4, <2>5 DEF Decides
<1> QED
  BY <1>1, <1>2

(* A turn as the sequence of its fights.                                    *)
Fought(g, s, ids, fight, a, n, seq) ==
  /\ g \in [0..n -> Fights(ids)]
  /\ g[0] = fight /\ g[n] = TakeTurn(s, fight, a)
  /\ \A m \in 1..n : g[m] = Fight(s, a, g[m - 1], seq[m])

LEMMA TurnTrace ==
  ASSUME NEW s, NEW ids, NEW fight \in Fights(ids), NEW a \in Int, a \in fight.active,
         NEW n \in Nat, NEW seq, DOMAIN seq = 1..n, \A i \in 1..n : seq[i] \in Int,
         Ascending(s[a].conflicts) = seq
  PROVE  \E g : Fought(g, s, ids, fight, a, n, seq)
<1> DEFINE Folds(iter) ==
             iter = [t \in SUBSET (1..n) |->
                       IF t = {} THEN fight
                       ELSE Fight(s, a, iter[t \ {Greatest(t)}], seq[Greatest(t)])]
<1>0. \A v \in Fights(ids), i \in 1..n : Fight(s, a, v, seq[i]) \in Fights(ids)
  <2> TAKE v \in Fights(ids), i \in 1..n
  <2>1. seq[i] \in Int
    OBVIOUS
  <2>2. Decides(v, Fight(s, a, v, seq[i]), ids, a, seq[i])
    BY <2>1, FightStep
  <2> QED
    BY <2>2 DEF Decides
<1>1. TakeTurn(s, fight, a) = (CHOOSE iter : Folds(iter))[1..n]
  <2>1. TakeTurn(s, fight, a) = FoldLeft(LAMBDA f, b : Fight(s, a, f, b), fight, seq)
    BY DEF TakeTurn
  <2> QED
    BY <2>1, Zenon DEF FoldLeft, MapThenFoldSet, Max, Greatest
<1> DEFINE chosen == CHOOSE iter : Folds(iter)
<1>2. Folds(chosen)
  <2> DEFINE step == [p \in Fights(ids) \X (1..n) |-> Fight(s, a, p[1], seq[p[2]])]
  <2>1. \A v \in Fights(ids), i \in 1..n : step[<<v, i>>] = Fight(s, a, v, seq[i])
    OBVIOUS
  <2> HIDE DEF step
  <2>2. \A v \in Fights(ids), i \in 1..n : step[<<v, i>>] \in Fights(ids)
    BY <1>0, <2>1
  <2>3. PICK iter \in [SUBSET (1..n) -> Fights(ids)] : FoldsUp(iter, n, fight, step)
    BY <2>2, FoldExists
  <2>4. \A t \in SUBSET (1..n) : t # {} => Greatest(t) \in 1..n
    BY GreatestIsMember
  <2>5. \A t \in SUBSET (1..n) : t # {} =>
          step[<<iter[t \ {Greatest(t)}], Greatest(t)>>]
            = Fight(s, a, iter[t \ {Greatest(t)}], seq[Greatest(t)])
    BY <2>1, <2>3, <2>4
  <2>6. Folds(iter)
    BY <2>3, <2>5 DEF FoldsUp
  <2> QED
    BY <2>6
<1> HIDE DEF chosen
<1>3. ASSUME NEW m \in 1..n PROVE chosen[1..m] = Fight(s, a, chosen[1..(m - 1)], seq[m])
  <2>1. m \in Nat \ {0} /\ 1..m \in SUBSET (1..n)
    OBVIOUS
  <2>2. Greatest(1..m) = m /\ (1..m) \ {m} = 1..(m - 1) /\ 1..m # {}
    BY <2>1, GreatestOfInterval
  <2> QED
    BY <1>2, <2>1, <2>2
<1>4. chosen[1..0] = fight
  BY <1>2
<1> DEFINE g == [m \in 0..n |-> chosen[1..m]]
           Typed == {m \in 0..n : g[m] \in Fights(ids)}
<1>5. g[0] = fight /\ g[n] = chosen[1..n]
  BY <1>4
<1>6. \A m \in 1..n : g[m] = Fight(s, a, g[m - 1], seq[m])
  BY <1>3
<1> HIDE DEF g
<1>7. \A m \in 0..n : m \in Typed
  <2>1. 0 \in Typed
    BY <1>5
  <2>2. ASSUME NEW m \in 1..n, m - 1 \in Typed PROVE m \in Typed
    <3>1. m - 1 \in 0..n /\ g[m - 1] \in Fights(ids) /\ m \in 0..n
      BY <2>2
    <3> QED
      BY <1>0, <1>6, <3>1
  <2> HIDE DEF Typed
  <2> QED
    BY <2>1, <2>2, RangeInduction
<1>8. g \in [0..n -> Fights(ids)]
  BY <1>7 DEF g
<1> QED
  BY <1>1, <1>5, <1>6, <1>8 DEF chosen, Fought

(* Who is still active after its own turn has won or outlived each fight.   *)
LEMMA TurnSettles ==
  ASSUME NEW s, NEW ids, NEW fight \in Fights(ids), NEW a \in Int,
         s[a].conflicts \subseteq Int, IsFiniteSet(s[a].conflicts)
  PROVE  /\ TakeTurn(s, fight, a) \in Fights(ids)
         /\ TakeTurn(s, fight, a).active \subseteq fight.active
         /\ Settled(fight) =>
              /\ Settled(TakeTurn(s, fight, a))
              /\ a \in TakeTurn(s, fight, a).active =>
                   s[a].conflicts \cap TakeTurn(s, fight, a).active \subseteq {a}
<1>1. CASE a \notin fight.active
  BY <1>1 DEF TakeTurn
<1>2. CASE a \in fight.active
  <2> DEFINE seq == Ascending(s[a].conflicts)
             n == Cardinality(s[a].conflicts)
  <2>1. /\ n \in Nat /\ seq \in [1..n -> s[a].conflicts]
        /\ \A b \in s[a].conflicts : \E i \in 1..n : seq[i] = b
    BY AscendingIds
  <2>a. Ascending(s[a].conflicts) = seq
    OBVIOUS
  <2> HIDE DEF seq, n
  <2>2. DOMAIN seq = 1..n /\ \A i \in 1..n : seq[i] \in Int
    BY <2>1
  <2>b. PICK g : Fought(g, s, ids, fight, a, n, seq)
    BY <1>2, <2>1, <2>2, <2>a, TurnTrace
  <2>3. /\ g \in [0..n -> Fights(ids)]
        /\ g[0] = fight /\ g[n] = TakeTurn(s, fight, a)
        /\ \A m \in 1..n : g[m] = Fight(s, a, g[m - 1], seq[m])
    BY <2>b DEF Fought
  <2> DEFINE Good(m) ==
        /\ g[m].active \subseteq fight.active
        /\ Settled(fight) =>
             /\ Settled(g[m])
             /\ \A i \in 1..m : a # seq[i] => ~ {a, seq[i]} \subseteq g[m].active
  <2>4. Good(0)
    BY <2>3
  <2>5. ASSUME NEW m \in 1..n, Good(m - 1) PROVE Good(m)
    <3>1. m - 1 \in 0..n /\ g[m - 1] \in Fights(ids) /\ seq[m] \in Int
      BY <2>1, <2>2, <2>3
    <3>2. g[m] = Fight(s, a, g[m - 1], seq[m])
      BY <2>3
    <3>3. /\ g[m].active \subseteq g[m - 1].active
          /\ Settled(g[m - 1]) => Settled(g[m])
          /\ Settled(g[m - 1]) /\ a # seq[m] => ~ {a, seq[m]} \subseteq g[m].active
      <4> DEFINE v == g[m - 1]
                 b == seq[m]
      <4>1. v \in Fights(ids) /\ b \in Int
        BY <3>1
      <4> HIDE DEF v, b
      <4>2. Decides(v, Fight(s, a, v, b), ids, a, b)
        BY <4>1, FightStep
      <4> QED
        BY <3>2, <4>2 DEF v, b, Decides
    <3>4. \A i \in 1..m : i = m \/ i \in 1..(m - 1)
      BY <2>1
    <3> QED
      BY <2>5, <3>3, <3>4
  <2> HIDE DEF Good
  <2>6. Good(n)
    <3> DEFINE S == {m \in 0..n : Good(m)}
    <3>1. 0 \in S
      BY <2>1, <2>4
    <3>2. \A m \in 1..n : m - 1 \in S => m \in S
      BY <2>1, <2>5
    <3> HIDE DEF S
    <3>3. \A m \in 0..n : m \in S
      BY <2>1, <3>1, <3>2, RangeInduction
    <3> QED
      BY <2>1, <3>3 DEF S
  <2>7. g[n] \in Fights(ids)
    BY <2>1, <2>3
  <2>8. ASSUME Settled(fight), a \in g[n].active, NEW b \in s[a].conflicts, b \in g[n].active
        PROVE  b = a
    BY <2>1, <2>6, <2>8 DEF Good
  <2> QED
    BY <2>3, <2>6, <2>7, <2>8 DEF Good
<1> QED
  BY <1>1, <1>2

(* The turns as the sequence of what is left of the fight after each.       *)
TurnsTaken(g, s, ids, given, n, seq) ==
  /\ g \in [0..n -> Fights(ids)]
  /\ g[0] = [active |-> ids, done |-> {}]
  /\ g[n].active = AfterConflicts(s, ids, given)
  /\ \A m \in 1..n : g[m] = TakeTurn(s, g[m - 1], seq[m])

LEMMA ConflictTrace ==
  ASSUME NEW s, NEW ids, NEW given, NEW n \in Nat, NEW seq,
         DOMAIN seq = 1..n, Turns(s, ids, given) = seq,
         \A i \in 1..n : /\ seq[i] \in Int
                        /\ s[seq[i]].conflicts \subseteq Int
                        /\ IsFiniteSet(s[seq[i]].conflicts)
  PROVE  \E g : TurnsTaken(g, s, ids, given, n, seq)
<1> DEFINE base == [active |-> ids, done |-> {}]
           Folds(iter) ==
             iter = [t \in SUBSET (1..n) |->
                       IF t = {} THEN base
                       ELSE TakeTurn(s, iter[t \ {Greatest(t)}], seq[Greatest(t)])]
<1>1. AfterConflicts(s, ids, given) = (CHOOSE iter : Folds(iter))[1..n].active
  <2>1. AfterConflicts(s, ids, given) = FoldLeft(LAMBDA f, a : TakeTurn(s, f, a), base, seq).active
    BY DEF AfterConflicts
  <2>2. FoldLeft(LAMBDA f, a : TakeTurn(s, f, a), base, seq) = (CHOOSE iter : Folds(iter))[1..n]
    BY Zenon DEF FoldLeft, MapThenFoldSet, Max, Greatest
  <2> QED
    BY <2>1, <2>2
<1>2. base \in Fights(ids)
  BY DEF Fights
<1>3. \A v \in Fights(ids), i \in 1..n : TakeTurn(s, v, seq[i]) \in Fights(ids)
  BY TurnSettles
<1> HIDE DEF base
<1> DEFINE chosen == CHOOSE iter : Folds(iter)
<1>4. Folds(chosen)
  <2> DEFINE step == [p \in Fights(ids) \X (1..n) |-> TakeTurn(s, p[1], seq[p[2]])]
  <2>1. \A v \in Fights(ids), i \in 1..n : step[<<v, i>>] = TakeTurn(s, v, seq[i])
    OBVIOUS
  <2> HIDE DEF step
  <2>2. \A v \in Fights(ids), i \in 1..n : step[<<v, i>>] \in Fights(ids)
    BY <1>3, <2>1
  <2>3. PICK iter \in [SUBSET (1..n) -> Fights(ids)] : FoldsUp(iter, n, base, step)
    BY <1>2, <2>2, FoldExists
  <2>4. \A t \in SUBSET (1..n) : t # {} => Greatest(t) \in 1..n
    BY GreatestIsMember
  <2>5. \A t \in SUBSET (1..n) : t # {} =>
          step[<<iter[t \ {Greatest(t)}], Greatest(t)>>]
            = TakeTurn(s, iter[t \ {Greatest(t)}], seq[Greatest(t)])
    BY <2>1, <2>3, <2>4
  <2>6. Folds(iter)
    BY <2>3, <2>5 DEF FoldsUp
  <2> QED
    BY <2>6
<1> HIDE DEF chosen
<1>5. ASSUME NEW m \in 1..n PROVE chosen[1..m] = TakeTurn(s, chosen[1..(m - 1)], seq[m])
  <2>1. m \in Nat \ {0} /\ 1..m \in SUBSET (1..n)
    OBVIOUS
  <2>2. Greatest(1..m) = m /\ (1..m) \ {m} = 1..(m - 1) /\ 1..m # {}
    BY <2>1, GreatestOfInterval
  <2> QED
    BY <1>4, <2>1, <2>2
<1>6. chosen[1..0] = base
  BY <1>4
<1> DEFINE g == [m \in 0..n |-> chosen[1..m]]
           Typed == {m \in 0..n : g[m] \in Fights(ids)}
<1>7. g[0] = base /\ g[n] = chosen[1..n]
  BY <1>6
<1>8. \A m \in 1..n : g[m] = TakeTurn(s, g[m - 1], seq[m])
  BY <1>5
<1> HIDE DEF g
<1>9. \A m \in 0..n : m \in Typed
  <2>1. 0 \in Typed
    BY <1>2, <1>7
  <2>2. ASSUME NEW m \in 1..n, m - 1 \in Typed PROVE m \in Typed
    <3>1. m - 1 \in 0..n /\ g[m - 1] \in Fights(ids) /\ m \in 0..n
      BY <2>2
    <3> QED
      BY <1>3, <1>8, <3>1
  <2> HIDE DEF Typed
  <2> QED
    BY <2>1, <2>2, RangeInduction
<1>10. g \in [0..n -> Fights(ids)]
  BY <1>9 DEF g
<1> QED
  BY <1>1, <1>7, <1>8, <1>10 DEF chosen, base, TurnsTaken

(* Every pair of ids that conflict has fought, whoever else fell before.    *)
LEMMA NoConflictIsLeft ==
  ASSUME NEW s, NEW ids \in SUBSET Int, IsFiniteSet(ids), NEW given,
         \A r \in ids : s[r].conflicts \subseteq Int /\ IsFiniteSet(s[r].conflicts)
  PROVE  /\ AfterConflicts(s, ids, given) \subseteq ids
         /\ \A a, b \in AfterConflicts(s, ids, given) : a # b => b \notin s[a].conflicts
<1> DEFINE seq == Turns(s, ids, given)
           n == Cardinality(ids)
<1>1. /\ n \in Nat /\ seq \in [1..n -> ids]
      /\ \A r \in ids : \E i \in 1..n : seq[i] = r
  BY AscendingIds DEF Turns
<1>2. Turns(s, ids, given) = seq
  OBVIOUS
<1> HIDE DEF seq, n
<1>3. DOMAIN seq = 1..n /\ \A i \in 1..n : seq[i] \in ids /\ seq[i] \in Int
  BY <1>1
<1>4. \A i \in 1..n : s[seq[i]].conflicts \subseteq Int /\ IsFiniteSet(s[seq[i]].conflicts)
  BY <1>3
<1>5. PICK g : TurnsTaken(g, s, ids, given, n, seq)
  BY <1>1, <1>2, <1>3, <1>4, ConflictTrace
<1>6. /\ g \in [0..n -> Fights(ids)]
      /\ g[0] = [active |-> ids, done |-> {}]
      /\ g[n].active = AfterConflicts(s, ids, given)
      /\ \A m \in 1..n : g[m] = TakeTurn(s, g[m - 1], seq[m])
  BY <1>5 DEF TurnsTaken
<1> DEFINE Good(m) ==
      /\ Settled(g[m])
      /\ \A i \in 1..m : seq[i] \in g[m].active =>
            s[seq[i]].conflicts \cap g[m].active \subseteq {seq[i]}
<1>7. Good(0)
  BY <1>6 DEF Settled
<1>8. ASSUME NEW m \in 1..n, Good(m - 1) PROVE Good(m)
  <2> DEFINE f == g[m - 1]
             a == seq[m]
  <2>1. f \in Fights(ids) /\ a \in Int /\ s[a].conflicts \subseteq Int /\ IsFiniteSet(s[a].conflicts)
    BY <1>1, <1>3, <1>4, <1>6
  <2>2. g[m] = TakeTurn(s, f, a)
    BY <1>6
  <2> HIDE DEF f, a
  <2>3. /\ TakeTurn(s, f, a).active \subseteq f.active
        /\ Settled(f) =>
             /\ Settled(TakeTurn(s, f, a))
             /\ a \in TakeTurn(s, f, a).active =>
                  s[a].conflicts \cap TakeTurn(s, f, a).active \subseteq {a}
    BY <2>1, TurnSettles
  <2>4. Settled(f)
    BY <1>8 DEF f
  <2>5. \A i \in 1..m : i = m \/ i \in 1..(m - 1)
    BY <1>1
  <2>6. \A i \in 1..(m - 1) : seq[i] \in f.active =>
          s[seq[i]].conflicts \cap f.active \subseteq {seq[i]}
    BY <1>8 DEF f
  <2> QED
    BY <2>2, <2>3, <2>4, <2>5, <2>6 DEF a
<1>9. Good(n)
  <2> DEFINE S == {m \in 0..n : Good(m)}
  <2> HIDE DEF Good
  <2>1. 0 \in S
    BY <1>1, <1>7
  <2>2. \A m \in 1..n : m - 1 \in S => m \in S
    BY <1>1, <1>8
  <2> HIDE DEF S
  <2>3. \A m \in 0..n : m \in S
    BY <1>1, <2>1, <2>2, RangeInduction
  <2> QED
    BY <1>1, <2>3 DEF S
<1>10. AfterConflicts(s, ids, given) \subseteq ids
  <2>1. g[n] \in Fights(ids)
    BY <1>1, <1>6
  <2> QED
    BY <1>6, <2>1 DEF Fights
<1>11. ASSUME NEW a \in AfterConflicts(s, ids, given), NEW b \in AfterConflicts(s, ids, given),
              b \in s[a].conflicts
       PROVE  a = b
  <2>1. PICK i \in 1..n : seq[i] = a
    BY <1>1, <1>10
  <2> QED
    BY <1>6, <1>9, <1>11, <2>1
<1> QED
  BY <1>10, <1>11

-----------------------------------------------------------------------------
(* What stands before bases are suppressed.                                 *)

LEMMA SupportedStands ==
  ASSUME NEW s, NEW ids
  PROVE  /\ Supported(s, ids) \subseteq ids
         /\ \A r \in Supported(s, ids) : s[r].requires \subseteq Supported(s, ids)
BY DEF Supported

LEMMA OneOutranks ==
  ASSUME NEW s, NEW a \in Int, NEW b \in Int,
         s[a].precedence \in Int, s[b].precedence \in Int,
         s[a].value \in Int, s[b].value \in Int
  PROVE  /\ ~ (Outranks(s, a, b) /\ Outranks(s, b, a))
         /\ ~ (PaysMore(s, a, b) /\ PaysMore(s, b, a))
BY DEF Outranks, PaysMore

(* A table of candidates.                                                   *)
IsTable(s) ==
  /\ DOMAIN s \in SUBSET Int /\ IsFiniteSet(DOMAIN s)
  /\ \A r \in DOMAIN s :
       /\ s[r].eligible \in BOOLEAN /\ s[r].includes \in BOOLEAN /\ s[r].isBase \in BOOLEAN
       /\ s[r].precedence \in Int /\ s[r].value \in Int
       /\ s[r].conflicts \subseteq Int /\ IsFiniteSet(s[r].conflicts)

LEMMA StandingIsCompatible ==
  ASSUME NEW s, IsTable(s), NEW given
  PROVE  /\ Standing(s, given) \subseteq DOMAIN s
         /\ \A r \in Standing(s, given) : s[r].requires \subseteq Standing(s, given)
         /\ \A a, b \in Standing(s, given) : a # b =>
              /\ b \notin s[a].conflicts
              /\ s[a].group = s[b].group =>
                   /\ "replaces_group" \notin {s[a].mode, s[b].mode}
                   /\ {s[a].mode, s[b].mode} # {"best_of_group"}
<1> DEFINE eligible == {r \in DOMAIN s : s[r].eligible}
           supported == Supported(s, eligible)
           peaceful == AfterConflicts(s, supported, given)
           alone == AfterReplacement(s, peaceful)
           best == AfterBestOf(s, alone)
<1>1. Standing(s, given) = Supported(s, best)
  BY DEF Standing
<1>2. supported \subseteq DOMAIN s
  BY SupportedStands
<1> HIDE DEF supported
<1>3. supported \in SUBSET Int /\ IsFiniteSet(supported)
  <2>1. DOMAIN s \in SUBSET Int /\ IsFiniteSet(DOMAIN s)
    BY DEF IsTable
  <2> QED
    BY <1>2, <2>1, FS_Subset
<1>4. \A r \in supported : s[r].conflicts \subseteq Int /\ IsFiniteSet(s[r].conflicts)
  BY <1>2 DEF IsTable
<1>5. peaceful \subseteq supported /\ \A a, b \in peaceful : a # b => b \notin s[a].conflicts
  BY <1>3, <1>4, NoConflictIsLeft
<1> HIDE DEF peaceful
<1>6. alone \subseteq peaceful /\ best \subseteq alone
  BY DEF AfterReplacement, AfterBestOf
<1>7. Standing(s, given) \subseteq best
  BY <1>1, SupportedStands
<1>8. ASSUME NEW a \in best, NEW b \in best, a # b
      PROVE  ~ (Outranks(s, a, b) /\ Outranks(s, b, a)) /\ ~ (PaysMore(s, a, b) /\ PaysMore(s, b, a))
  <2>1. a \in DOMAIN s /\ b \in DOMAIN s
    BY <1>2, <1>5, <1>6
  <2>2. a \in Int /\ b \in Int
    BY <2>1 DEF IsTable
  <2> QED
    BY <2>1, <2>2, OneOutranks DEF IsTable
<1>9. ASSUME NEW a \in best, NEW b \in best, a # b, s[a].group = s[b].group
      PROVE  s[b].mode # "replaces_group" /\ {s[a].mode, s[b].mode} # {"best_of_group"}
  <2>1. a \in alone /\ b \in alone /\ a \in peaceful /\ b \in peaceful
    BY <1>6
  <2>2. ASSUME s[b].mode = "replaces_group" PROVE FALSE
    <3>1. b \in Rivals(s, a, peaceful, "replaces_group")
      BY <1>9, <2>1, <2>2 DEF Rivals
    <3>2. s[a].mode = "replaces_group" /\ Outranks(s, a, b)
      BY <2>1, <3>1 DEF AfterReplacement
    <3>3. a \in Rivals(s, b, peaceful, "replaces_group")
      BY <1>9, <2>1, <3>2 DEF Rivals
    <3>4. Outranks(s, b, a)
      BY <2>1, <3>3 DEF AfterReplacement
    <3> QED
      BY <1>8, <1>9, <3>2, <3>4
  <2>3. ASSUME s[a].mode = "best_of_group", s[b].mode = "best_of_group" PROVE FALSE
    <3>1. /\ b \in Rivals(s, a, alone, "best_of_group")
          /\ a \in Rivals(s, b, alone, "best_of_group")
      BY <1>9, <2>1, <2>3 DEF Rivals
    <3>2. PaysMore(s, a, b) /\ PaysMore(s, b, a)
      BY <2>3, <3>1 DEF AfterBestOf
    <3> QED
      BY <1>8, <1>9, <3>2
  <2> QED
    BY <2>2, <2>3
<1> HIDE DEF best, alone
<1>10. best \subseteq peaceful /\ best \subseteq DOMAIN s
  BY <1>2, <1>5, <1>6
<1>11. \A r \in Standing(s, given) : s[r].requires \subseteq Standing(s, given)
  BY <1>1, SupportedStands
<1> QED
  BY <1>5, <1>7, <1>9, <1>10, <1>11

-----------------------------------------------------------------------------
(* Inclusion, in whatever order the rules are given.                        *)

(* The bases that rules of ids include.                                     *)
Bases(s, ids) == {q \in ids : \E c \in ids : s[c].includes /\ q \in IncludedBases(s, c)}

LEMMA InclusionFacts ==
  ASSUME NEW s, NEW ids \in SUBSET (DOMAIN s), NEW n \in Nat, NEW seq \in [1..n -> DOMAIN s],
         \A r \in DOMAIN s : \E i \in 1..n : seq[i] = r
  PROVE  /\ AfterInclusion(s, ids, seq) \subseteq ids
         /\ ids \ AfterInclusion(s, ids, seq) \subseteq Bases(s, ids)
         /\ \A a \in AfterInclusion(s, ids, seq) : s[a].includes =>
              IncludedBases(s, a) \cap AfterInclusion(s, ids, seq) = {}
         /\ (\A a, b \in ids : s[a].includes /\ s[b].includes =>
                b \notin IncludedBases(s, a) \ {a})
              => AfterInclusion(s, ids, seq) = ids \ Bases(s, ids)
<1> DEFINE unchained == \A a, b \in ids : s[a].includes /\ s[b].includes =>
                          b \notin IncludedBases(s, a) \ {a}
<1>1. DOMAIN seq = 1..n
  OBVIOUS
<1>2. PICK left : Included(left, s, ids, n, seq)
  BY <1>1, InclusionTrace
<1>3. /\ left \in [0..n -> SUBSET ids]
      /\ left[0] = ids /\ left[n] = AfterInclusion(s, ids, seq)
      /\ \A m \in 1..n : left[m] = Include(s, left[m - 1], seq[m])
  BY <1>2 DEF Included
<1> DEFINE Good(m) ==
      /\ left[m] \subseteq ids
      /\ \A q \in ids \ left[m] : \E i \in 1..m :
            seq[i] \in ids /\ s[seq[i]].includes /\ q \in IncludedBases(s, seq[i])
      /\ \A i \in 1..m : s[seq[i]].includes /\ seq[i] \in left[m] =>
            IncludedBases(s, seq[i]) \cap left[m] = {}
      /\ unchained => \A i \in 1..m : s[seq[i]].includes /\ seq[i] \in ids =>
            IncludedBases(s, seq[i]) \cap left[m] = {}
<1> HIDE DEF unchained
<1>4. Good(0)
  BY <1>3
<1>5. ASSUME NEW m \in 1..n, Good(m - 1) PROVE Good(m)
  <2> DEFINE l == left[m - 1]
             r == seq[m]
  <2>1. /\ left[m] = Include(s, l, r)
        /\ l \subseteq ids
        /\ \A q \in ids \ l : \E i \in 1..(m - 1) :
              seq[i] \in ids /\ s[seq[i]].includes /\ q \in IncludedBases(s, seq[i])
        /\ \A i \in 1..(m - 1) : s[seq[i]].includes /\ seq[i] \in l =>
              IncludedBases(s, seq[i]) \cap l = {}
        /\ unchained => \A i \in 1..(m - 1) : s[seq[i]].includes /\ seq[i] \in ids =>
              IncludedBases(s, seq[i]) \cap l = {}
    BY <1>3, <1>5
  <2>2. \A i \in 1..m : i = m \/ i \in 1..(m - 1)
    OBVIOUS
  <2>3. r = seq[m]
    OBVIOUS
  <2> HIDE DEF l, r
  <2>4. left[m] \subseteq l
    BY <2>1 DEF Include
  <2>5. ASSUME NEW q \in ids \ left[m]
        PROVE  \E i \in 1..m :
                 seq[i] \in ids /\ s[seq[i]].includes /\ q \in IncludedBases(s, seq[i])
    <3>1. CASE q \in l
      <4>1. r \in l /\ s[r].includes /\ q \in IncludedBases(s, r)
        BY <2>1, <2>5, <3>1 DEF Include
      <4> QED
        BY <2>1, <2>3, <4>1
    <3>2. CASE q \notin l
      <4>1. PICK i \in 1..(m - 1) :
              seq[i] \in ids /\ s[seq[i]].includes /\ q \in IncludedBases(s, seq[i])
        BY <2>1, <3>2
      <4>2. i \in 1..m
        OBVIOUS
      <4> QED
        BY <4>1, <4>2
    <3> QED
      BY <3>1, <3>2
  <2>6. s[r].includes /\ r \in left[m] => IncludedBases(s, r) \cap left[m] = {}
    BY <2>1 DEF Include
  <2>7. ASSUME unchained, s[r].includes, r \in ids PROVE IncludedBases(s, r) \cap left[m] = {}
    <3>1. CASE r \in l
      BY <2>1, <2>7, <3>1 DEF Include
    <3>2. CASE r \notin l
      <4>1. PICK i \in 1..(m - 1) :
              seq[i] \in ids /\ s[seq[i]].includes /\ r \in IncludedBases(s, seq[i])
        BY <2>1, <2>7, <3>2
      <4>2. seq[i] = r
        BY <2>7, <4>1 DEF unchained
      <4>3. IncludedBases(s, r) \cap l = {}
        BY <2>1, <2>7, <4>1, <4>2
      <4> QED
        BY <2>4, <4>3
    <3> QED
      BY <3>1, <3>2
  <2> QED
    BY <2>1, <2>2, <2>3, <2>4, <2>5, <2>6, <2>7
<1>6. Good(n)
  <2> DEFINE S == {m \in 0..n : Good(m)}
  <2> HIDE DEF Good
  <2>1. 0 \in S
    BY <1>4
  <2>2. \A m \in 1..n : m - 1 \in S => m \in S
    BY <1>5
  <2> HIDE DEF S
  <2>3. \A m \in 0..n : m \in S
    BY <2>1, <2>2, RangeInduction
  <2> QED
    BY <2>3 DEF S
<1>a. left[n] \subseteq ids /\ ids \ left[n] \subseteq Bases(s, ids)
  BY <1>6 DEF Bases
<1>7. ASSUME unchained PROVE left[n] = ids \ Bases(s, ids)
  <2>1. ASSUME NEW q \in left[n], q \in Bases(s, ids) PROVE FALSE
    <3>1. PICK c \in ids : s[c].includes /\ q \in IncludedBases(s, c)
      BY <2>1 DEF Bases
    <3>2. PICK i \in 1..n : seq[i] = c
      OBVIOUS
    <3> QED
      BY <1>6, <1>7, <2>1, <3>1, <3>2
  <2> HIDE DEF Good
  <2> QED
    BY <1>a, <2>1
<1>8. ASSUME NEW a \in left[n], s[a].includes PROVE IncludedBases(s, a) \cap left[n] = {}
  <2>1. PICK i \in 1..n : seq[i] = a
    BY <1>6
  <2> QED
    BY <1>6, <1>8, <2>1
<1> QED
  BY <1>3, <1>6, <1>7, <1>8, <1>a DEF unchained

-----------------------------------------------------------------------------
(* The kernel selects rules of the table, whatever the order of the input.  *)
LEMMA ResolveChooses ==
  ASSUME NEW s, DOMAIN s \in SUBSET Int, IsFiniteSet(DOMAIN s),
         \A r \in DOMAIN s : s[r].conflicts \subseteq Int /\ IsFiniteSet(s[r].conflicts),
         NEW n \in Nat, NEW seq, DOMAIN seq = 1..n
  PROVE  Resolve(s, seq) \subseteq DOMAIN s
<1> DEFINE eligible == {r \in DOMAIN s : s[r].eligible}
           supported == Supported(s, eligible)
           peaceful == AfterConflicts(s, supported, seq)
           best == AfterBestOf(s, AfterReplacement(s, peaceful))
           standing == Standing(s, seq)
<1>1. supported \subseteq DOMAIN s
  BY SupportedStands
<1>2. standing = Supported(s, best)
  BY DEF Standing
<1> HIDE DEF supported
<1>3. supported \in SUBSET Int /\ IsFiniteSet(supported)
  BY <1>1, FS_Subset
<1>4. peaceful \subseteq supported
  BY <1>1, <1>3, NoConflictIsLeft
<1> HIDE DEF peaceful
<1>5. best \subseteq peaceful
  BY DEF AfterReplacement, AfterBestOf
<1>6. standing \subseteq best
  BY <1>2, SupportedStands
<1> HIDE DEF best, standing
<1>7. PICK left : Included(left, s, standing, n, seq)
  BY InclusionTrace
<1>8. left[n] \subseteq standing /\ left[n] = AfterInclusion(s, standing, seq)
  BY <1>7 DEF Included
<1>9. Resolve(s, seq) = AfterInclusion(s, standing, seq)
  BY DEF Resolve, standing
<1> QED
  BY <1>1, <1>4, <1>5, <1>6, <1>8, <1>9
===============================================================================
