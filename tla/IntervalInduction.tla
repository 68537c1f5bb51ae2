------------------------- MODULE IntervalInduction -------------------------
(***************************************************************************)
(* Induction and recursion along an interval 0 .. n, stated of sets and of *)
(* functions.  The library's principles take an operator; these take a set *)
(* (of the numbers that have a property) and a function (the step of a     *)
(* recursion), which every backend can instantiate.                        *)
(***************************************************************************)
EXTENDS Integers, FiniteSets, FiniteSetTheorems, WellFoundedInduction, TLAPS

\* A set of natural numbers has a smallest element.
LEMMA Smallest ==
    ASSUME NEW T, T \subseteq Nat, T # {}
    PROVE  \E x \in T : \A y \in T : x <= y
<1> DEFINE F == {0 .. x : x \in T}
<1>1. F \subseteq FiniteSubsetsOf(Nat) /\ F # {}
    <2>1. \A x \in T : 0 .. x \in SUBSET Nat /\ IsFiniteSet(0 .. x)
        BY FS_Interval
    <2> QED BY <2>1 DEF FiniteSubsetsOf
<1> HIDE DEF F
<1>2. PICK X \in F : \A Y \in F : ~ (<<Y, X>> \in StrictSubsetOrdering(Nat))
    BY <1>1, FS_StrictSubsetOrderingWellFounded, WFMin
<1>3. PICK x \in T : X = 0 .. x
    BY DEF F
<1>4. ASSUME NEW y \in T, ~(x <= y) PROVE FALSE
    <2>1. 0 .. y \in F
        BY DEF F
    <2>2. x \in Nat /\ y \in Nat /\ y < x
        BY <1>4
    <2>3. 0 .. y \subseteq 0 .. x /\ x \in 0 .. x /\ x \notin 0 .. y
        BY <2>2
    <2>4. 0 .. y \in SUBSET Nat /\ 0 .. x \in SUBSET Nat
        BY <2>2
    <2>5. <<0 .. y, 0 .. x>> \in StrictSubsetOrdering(Nat)
        BY <2>3, <2>4 DEF StrictSubsetOrdering
    <2> QED BY <1>2, <1>3, <2>1, <2>5
<1> QED BY <1>4

\* What holds of 0, and of k + 1 when it holds of k, holds up to n.
LEMMA UpTo ==
    ASSUME NEW n \in Nat, NEW T, 0 \in T, \A k \in 0 .. n - 1 : k \in T => k + 1 \in T
    PROVE  0 .. n \subseteq T
<1> SUFFICES ASSUME (0 .. n) \ T # {} PROVE FALSE
    OBVIOUS
<1>0. (0 .. n) \ T \subseteq Nat
    OBVIOUS
<1>1. PICK x \in (0 .. n) \ T : \A y \in (0 .. n) \ T : x <= y
    BY <1>0, Smallest
<1>2. x # 0 /\ x - 1 \in T
    BY <1>1
<1> QED BY <1>1, <1>2

\* A function on 0 .. n is defined by its value at 0 and by what it does from each
\* number to the next.
Computes(w, n, S, first, step) ==
    w \in [0 .. n -> S] /\ w[0] = first /\ \A k \in 1 .. n : w[k] = step[k][w[k - 1]]

LEMMA RecursionExists ==
    ASSUME NEW n \in Nat, NEW S, NEW first \in S, NEW step \in [1 .. n -> [S -> S]]
    PROVE  \E w : Computes(w, n, S, first, step)
<1> DEFINE Upto(m) == {w \in [0 .. m -> S] :
                          w[0] = first /\ \A k \in 1 .. m : w[k] = step[k][w[k - 1]]}
           T == {m \in 0 .. n : Upto(m) # {}}
<1>1. 0 \in T
    <2>1. [k \in 0 .. 0 |-> first] \in Upto(0)
        OBVIOUS
    <2> QED BY <2>1
<1>2. ASSUME NEW m \in 0 .. n - 1, m \in T PROVE m + 1 \in T
    <2>1. PICK w \in Upto(m) : TRUE
        BY <1>2
    <2>2. m \in Nat /\ w \in [0 .. m -> S] /\ w[0] = first
          /\ \A k \in 1 .. m : w[k] = step[k][w[k - 1]]
        BY <2>1
    <2> DEFINE v == [k \in 0 .. m + 1 |-> IF k = m + 1 THEN step[m + 1][w[m]] ELSE w[k]]
    <2>3. step[m + 1][w[m]] \in S
        BY <2>2
    <2>4. v \in [0 .. m + 1 -> S] /\ v[0] = first
        BY <2>2, <2>3
    <2>5. ASSUME NEW k \in 1 .. m + 1 PROVE v[k] = step[k][v[k - 1]]
        <3>1. v[k - 1] = w[k - 1]
            BY <2>2
        <3>2. CASE k = m + 1
            BY <2>2, <3>1, <3>2
        <3>3. CASE k \in 1 .. m
            BY <2>2, <3>1, <3>3
        <3> QED BY <2>2, <3>2, <3>3
    <2> HIDE DEF v
    <2>6. v \in Upto(m + 1)
        BY <2>4, <2>5
    <2>7. m + 1 \in 0 .. n
        BY <2>2
    <2> HIDE DEF Upto
    <2> QED BY <2>6, <2>7
<1> HIDE DEF T
<1>3. 0 .. n \subseteq T
    BY <1>1, <1>2, UpTo
<1>4. n \in T
    BY <1>3
<1> QED BY <1>4 DEF T, Computes
=============================================================================
