----------------------------- MODULE Recursion -----------------------------
(***************************************************************************)
(* What proofs about recursive definitions keep needing.  Step says what a *)
(* definition has for a number, from what it has for the numbers before; a *)
(* module that defines something by recursion or by a fold instantiates    *)
(* Recursion with its own step.                                            *)
(*                                                                         *)
(* Induction over numbers is in a form that a set stands for what is shown *)
(* of them.                                                                *)
(***************************************************************************)
EXTENDS Integers, FiniteSetsExt, FiniteSetTheorems, WellFoundedInduction, TLAPS

CONSTANT Step(_, _, _)      \* of a parameter, a number and what comes before

LEMMA LeastNumber ==
    ASSUME NEW T, T \subseteq Nat, T # {}
    PROVE  \E x \in T : \A y \in T : x <= y
<1>1. PICK R : R = OpToRel(<, Nat)
    BY Zenon
<1>2. IsWellFoundedOn(R, Nat)
    BY <1>1, NatLessThanWellFounded, Zenon
<1>3. PICK x \in T : \A y \in T : <<y, x>> \notin R
    BY <1>2, WFMin, Zenon
<1>4. R = {ss \in Nat \X Nat : ss[1] < ss[2]}
    BY <1>1, Zenon DEF OpToRel
<1>5. \A y \in T : ~(y < x)
    BY <1>3, <1>4
<1>6. QED
    BY <1>3, <1>5

LEMMA SetInduction ==
    ASSUME NEW S, 0 \in S, \A n \in Nat : n \in S => n + 1 \in S
    PROVE  Nat \subseteq S
<1> DEFINE T == Nat \ S
<1> SUFFICES ASSUME T # {}
             PROVE  FALSE
    OBVIOUS
<1>1. PICK x \in T : \A y \in T : x <= y
    BY LeastNumber
<1>2. x - 1 \in Nat /\ x - 1 \notin T
    BY <1>1
<1>3. QED
    BY <1>1, <1>2

\* The highest of the first numbers
LEMMA HighestOf ==
    ASSUME NEW n \in Nat, NEW s, s \subseteq 1..(n + 1), n + 1 \in s
    PROVE  Max(s) = n + 1
<1>1. n + 1 \in s /\ \A y \in s : n + 1 >= y
    OBVIOUS
<1>2. \A x \in s : (\A y \in s : x >= y) => x = n + 1
    BY <1>1
<1>3. QED
    BY <1>1, <1>2 DEF Max

LEMMA FirstNumbers ==
    ASSUME NEW n \in Nat
    PROVE  Max(1..(n + 1)) = n + 1 /\ 1..(n + 1) # {} /\ (1..(n + 1)) \ {n + 1} = 1..n
BY HighestOf

LEMMA NoneFirst == 1..0 = {}
OBVIOUS

\* Numbers up to the next one
LEMMA OneMore ==
    ASSUME NEW n \in Nat
    PROVE  /\ n + 1 \in Nat
           /\ \A k \in 1..(n + 1) : k \in 1..n \/ k = n + 1
           /\ n + 1 \in 1..(n + 1) /\ n + 1 \notin 1..n
           /\ 1..n \subseteq 1..(n + 1)
           /\ \A k \in 1..n : k < n + 1
OBVIOUS

LEMMA UpTo ==
    ASSUME NEW n \in Nat, NEW m \in Nat, m + 1 <= n
    PROVE  m <= n /\ m + 1 \in 1..n /\ 1..(m + 1) \subseteq 1..n
OBVIOUS

\* Induction over the first numbers
LEMMA InductionTo ==
    ASSUME NEW n \in Nat, NEW S, 0 \in S,
           \A m \in Nat : m + 1 <= n /\ m \in S => m + 1 \in S
    PROVE  n \in S
<1> DEFINE T == {m \in Nat : m <= n => m \in S}
<1>1. 0 \in T
    OBVIOUS
<1>2. \A m \in Nat : m \in T => m + 1 \in T
    OBVIOUS
<1>3. n \in T
    <2> HIDE DEF T
    <2> QED
        BY <1>1, <1>2, SetInduction
<1>4. QED
    BY <1>3

-----------------------------------------------------------------------------
(***************************************************************************)
(* Stable sorting: a finite set of numbers has an order by their rank,     *)
(* which each of them has a place in.                                      *)
(***************************************************************************)
Earlier(rank, i, j) == rank[i] < rank[j] \/ (rank[i] = rank[j] /\ i < j)

RanksOn(rank, T) == T \subseteq Nat /\ IsFiniteSet(T) /\ rank \in [T -> Nat]

LEMMA EarliestOf ==
    ASSUME NEW T, NEW rank, RanksOn(rank, T), NEW rest \in SUBSET T, rest # {}
    PROVE  \E x \in rest : \A y \in rest : y = x \/ Earlier(rank, x, y)
<1>1. \A k \in rest : k \in Nat /\ rank[k] \in Nat
    BY DEF RanksOn
<1>2. PICK R : R = {rank[k] : k \in rest}
    OBVIOUS
<1>3. R \subseteq Nat /\ R # {}
    BY <1>1, <1>2
<1>4. PICK r \in R : \A q \in R : r <= q
    BY <1>3, LeastNumber
<1>5. PICK M : M = {k \in rest : rank[k] = r}
    OBVIOUS
<1>6. M \subseteq Nat /\ M # {}
    BY <1>1, <1>2, <1>5
<1>7. PICK x \in M : \A y \in M : x <= y
    BY <1>6, LeastNumber
<1>8. x \in rest /\ rank[x] = r /\ x \in Nat
    BY <1>1, <1>5
<1>9. ASSUME NEW y \in rest, y # x
      PROVE  Earlier(rank, x, y)
    <2>1. rank[y] \in R /\ rank[y] \in Nat /\ y \in Nat /\ r \in Nat
        BY <1>1, <1>2, <1>3
    <2>2. CASE rank[y] = r
        <3>1. x <= y
            BY <1>5, <1>7, <2>2
        <3>2. x < y
            BY <1>8, <1>9, <2>1, <3>1
        <3>3. QED
            BY <1>8, <2>2, <3>2 DEF Earlier
    <2>3. CASE rank[y] # r
        <3>1. r <= rank[y]
            BY <1>4, <2>1
        <3>2. r < rank[y]
            BY <2>1, <2>3, <3>1
        <3>3. QED
            BY <1>8, <3>2 DEF Earlier
    <2>4. QED
        BY <2>2, <2>3
<1>10. QED
    BY <1>8, <1>9

\* The first m places of an order, before all others
FirstPlaces(rank, T, m, places) ==
    /\ places \in [1..m -> T]
    /\ \A i, j \in 1..m : i < j => Earlier(rank, places[i], places[j])
    /\ \A i \in 1..m, k \in T :
          (\A j \in 1..m : places[j] # k) => Earlier(rank, places[i], k)

LEMMA PlacesInject ==
    ASSUME NEW T, NEW rank, RanksOn(rank, T), NEW m \in Nat,
           NEW places \in [1..m -> T],
           \A i, j \in 1..m : i < j => Earlier(rank, places[i], places[j])
    PROVE  \A i, j \in 1..m : i # j => places[i] # places[j]
<1> SUFFICES ASSUME NEW i \in 1..m, NEW j \in 1..m, i < j
             PROVE  places[i] # places[j]
    OBVIOUS
<1>1. PICK k, h : k = places[i] /\ h = places[j]
    OBVIOUS
<1>2. k \in Nat /\ rank[k] \in Nat
    BY <1>1 DEF RanksOn
<1>3. Earlier(rank, k, h)
    BY <1>1
<1>4. k # h
    BY <1>2, <1>3 DEF Earlier
<1>5. QED
    BY <1>1, <1>4

LEMMA FirstMany == \A n \in Nat : IsFiniteSet(1..n) /\ Cardinality(1..n) = n
BY FS_Interval

LEMMA NextPlace ==
    ASSUME NEW T, NEW rank, RanksOn(rank, T), NEW m \in Nat, m + 1 <= Cardinality(T),
           NEW places, FirstPlaces(rank, T, m, places)
    PROVE  \E next : FirstPlaces(rank, T, m + 1, next)
<1> DEFINE used == {places[i] : i \in 1..m}
           rest == T \ used
<1>1. rest # {}
    <2>1. places \in Surjection(1..m, used)
        BY DEF FirstPlaces, Surjection
    <2>2. IsFiniteSet(1..m) /\ Cardinality(1..m) = m
        BY FirstMany
    <2>3. Cardinality(used) <= m
        BY <2>1, <2>2, FS_Surjection
    <2>4. used # T
        <3> HIDE DEF used
        <3>1. Cardinality(T) \in Nat
            BY FS_CardinalityType DEF RanksOn
        <3>2. ~(Cardinality(T) <= m)
            BY <3>1
        <3>3. QED
            BY <2>3, <3>2
    <2>5. used \subseteq T
        BY DEF FirstPlaces
    <2>6. QED
        BY <2>4, <2>5
<1>2. PICK x \in rest : \A y \in rest : y = x \/ Earlier(rank, x, y)
    BY <1>1, EarliestOf
<1> DEFINE next == [i \in 1..(m + 1) |-> IF i = m + 1 THEN x ELSE places[i]]
<1>3. next[m + 1] = x /\ \A i \in 1..m : next[i] = places[i]
    OBVIOUS
<1>4. \A i \in 1..m : places[i] \in T /\ places[i] # x
    BY DEF FirstPlaces
<1>5. next \in [1..(m + 1) -> T]
    BY <1>4
<1> HIDE DEF next
<1>6. \A i \in 1..m : Earlier(rank, places[i], x)
    BY <1>4 DEF FirstPlaces
<1>7. \A k \in T : (\A j \in 1..(m + 1) : next[j] # k) => k \in rest /\ k # x
    <2>1. m + 1 \in 1..(m + 1) /\ 1..m \subseteq 1..(m + 1)
        BY OneMore
    <2>2. QED
        BY <1>3, <2>1, Zenon
<1>8. ASSUME NEW i \in 1..(m + 1), NEW j \in 1..(m + 1), i < j
      PROVE  Earlier(rank, next[i], next[j])
    <2>1. i \in 1..m
        BY <1>8
    <2>2. CASE j \in 1..m
        BY <1>3, <1>8, <2>1, <2>2 DEF FirstPlaces
    <2>3. CASE j = m + 1
        BY <1>3, <1>6, <2>1, <2>3
    <2>4. QED
        BY <2>2, <2>3
<1>9. ASSUME NEW i \in 1..(m + 1), NEW k \in rest, k # x
      PROVE  Earlier(rank, next[i], k)
    <2>1. CASE i \in 1..m
        <3>1. \A j \in 1..m : places[j] # k
            OBVIOUS
        <3>2. QED
            BY <1>3, <2>1, <3>1 DEF FirstPlaces
    <2>2. CASE i = m + 1
        BY <1>2, <1>3, <1>9, <2>2
    <2>3. QED
        BY <2>1, <2>2
<1>10. QED
    <2> HIDE DEF rest
    <2> QED
        BY <1>5, <1>7, <1>8, <1>9 DEF FirstPlaces

Ordering(rank, T, places) ==
    /\ RanksOn(rank, T)
    /\ places \in [1..Cardinality(T) -> T]
    /\ \A i, j \in 1..Cardinality(T) : i < j => Earlier(rank, places[i], places[j])

LEMMA OrderExists ==
    ASSUME NEW T, NEW rank, RanksOn(rank, T)
    PROVE  \E places : Ordering(rank, T, places)
<1> DEFINE S == {m \in Nat : \E places : FirstPlaces(rank, T, m, places)}
<1>1. 0 \in S
    <2>1. PICK places : places = [i \in {} |-> 1]
        OBVIOUS
    <2>2. FirstPlaces(rank, T, 0, places)
        BY <2>1, NoneFirst DEF FirstPlaces
    <2>3. QED
        BY <2>2
<1>2. \A m \in Nat : m + 1 <= Cardinality(T) /\ m \in S => m + 1 \in S
    BY NextPlace
<1>3. Cardinality(T) \in Nat
    BY FS_CardinalityType DEF RanksOn
<1>4. Cardinality(T) \in S
    <2> HIDE DEF S
    <2> QED
        BY <1>1, <1>2, <1>3, InductionTo
<1>5. QED
    BY <1>4 DEF FirstPlaces, Ordering

HavePlaces(T, places) == \A k \in T : \E i \in 1..Cardinality(T) : places[i] = k

LEMMA AllHavePlaces ==
    ASSUME NEW T, NEW rank, NEW places, Ordering(rank, T, places)
    PROVE  HavePlaces(T, places)
<1>1. PICK n : n = Cardinality(T)
    OBVIOUS
<1>2. n \in Nat /\ IsFiniteSet(T) /\ IsFiniteSet(1..n) /\ Cardinality(1..n) = n
    BY <1>1, FS_CardinalityType, FirstMany DEF Ordering, RanksOn
<1>3. places \in Injection(1..n, T)
    <2>1. \A i, j \in 1..n : i # j => places[i] # places[j]
        BY <1>1, <1>2, PlacesInject DEF Ordering
    <2>2. places \in [1..n -> T] /\ DOMAIN places = 1..n
        BY <1>1 DEF Ordering
    <2>3. QED
        BY <2>1, <2>2 DEF Injection, IsInjective
<1>4. places \in Surjection(1..n, T)
    BY <1>1, <1>2, <1>3, FS_Injection
<1>5. QED
    BY <1>1, <1>4 DEF HavePlaces, Surjection

-----------------------------------------------------------------------------
(***************************************************************************)
(* Recursion over the first numbers: a function that is at every number    *)
(* the step from the number before exists.                                 *)
(***************************************************************************)
Recurs(p, n, g) == g = [m \in 0..n |-> Step(p, m, IF m = 0 THEN {} ELSE g[m - 1])]

LEMMA RecursionExists == \A p : \A n \in Nat : \E g : Recurs(p, n, g)
<1> SUFFICES ASSUME NEW p
             PROVE  \A n \in Nat : \E g : Recurs(p, n, g)
    OBVIOUS
<1> DEFINE S == {n \in Nat : \E g : Recurs(p, n, g)}
<1>1. 0 \in S
    <2>1. PICK g : g = [m \in 0..0 |-> Step(p, 0, {})]
        OBVIOUS
    <2>2. Recurs(p, 0, g)
        BY <2>1 DEF Recurs
    <2>3. QED
        BY <2>2
<1>2. ASSUME NEW n \in Nat, n \in S
      PROVE  n + 1 \in S
    <2>1. PICK g : Recurs(p, n, g)
        BY <1>2
    <2>2. PICK f : f = [m \in 0..(n + 1) |-> IF m = n + 1 THEN Step(p, n + 1, g[n]) ELSE g[m]]
        OBVIOUS
    <2>3. ASSUME NEW m \in 0..(n + 1)
          PROVE  f[m] = Step(p, m, IF m = 0 THEN {} ELSE f[m - 1])
        <3>1. CASE m = n + 1
            BY <2>2, <3>1
        <3>2. CASE m # n + 1
            BY <2>1, <2>2, <3>2 DEF Recurs
        <3>3. QED
            BY <3>1, <3>2
    <2>4. Recurs(p, n + 1, f)
        BY <2>2, <2>3 DEF Recurs
    <2>5. QED
        BY <2>4
<1>3. QED
    BY <1>1, <1>2, SetInduction

\* The function that recursion defines
Recursive(p, n) == CHOOSE g : Recurs(p, n, g)

LEMMA RecursionSteps ==
    ASSUME NEW p, NEW n \in Nat
    PROVE  \A m \in 0..n :
              Recursive(p, n)[m] = Step(p, m, IF m = 0 THEN {} ELSE Recursive(p, n)[m - 1])
<1>1. Recurs(p, n, Recursive(p, n))
    BY RecursionExists, Zenon DEF Recursive
<1>2. QED
    BY <1>1 DEF Recurs

-----------------------------------------------------------------------------
(***************************************************************************)
(* Going around: the same with something to begin with at 0.               *)
(***************************************************************************)
Iterates(p, base, n, g) == g = [m \in 0..n |-> IF m = 0 THEN base ELSE Step(p, m, g[m - 1])]

LEMMA IterationExists == \A p, base : \A n \in Nat : \E g : Iterates(p, base, n, g)
<1> SUFFICES ASSUME NEW p, NEW base
             PROVE  \A n \in Nat : \E g : Iterates(p, base, n, g)
    OBVIOUS
<1> DEFINE S == {n \in Nat : \E g : Iterates(p, base, n, g)}
<1>1. 0 \in S
    <2>1. PICK g : g = [m \in 0..0 |-> base]
        OBVIOUS
    <2>2. Iterates(p, base, 0, g)
        BY <2>1 DEF Iterates
    <2>3. QED
        BY <2>2
<1>2. ASSUME NEW n \in Nat, n \in S
      PROVE  n + 1 \in S
    <2>1. PICK g : Iterates(p, base, n, g)
        BY <1>2
    <2>2. PICK f : f = [m \in 0..(n + 1) |-> IF m = n + 1 THEN Step(p, n + 1, g[n]) ELSE g[m]]
        OBVIOUS
    <2>3. ASSUME NEW m \in 0..(n + 1)
          PROVE  f[m] = IF m = 0 THEN base ELSE Step(p, m, f[m - 1])
        <3>1. CASE m = n + 1
            BY <2>2, <3>1
        <3>2. CASE m # n + 1
            BY <2>1, <2>2, <3>2 DEF Iterates
        <3>3. QED
            BY <3>1, <3>2
    <2>4. Iterates(p, base, n + 1, f)
        BY <2>2, <2>3 DEF Iterates
    <2>5. QED
        BY <2>4
<1>3. QED
    BY <1>1, <1>2, SetInduction

Iterated(p, base, n) == CHOOSE g : Iterates(p, base, n, g)

LEMMA IterationSteps ==
    ASSUME NEW p, NEW base, NEW n \in Nat
    PROVE  /\ Iterated(p, base, n)[0] = base
           /\ \A m \in Nat : m + 1 <= n =>
                 Iterated(p, base, n)[m + 1] = Step(p, m + 1, Iterated(p, base, n)[m])
<1>1. PICK g : g = Iterated(p, base, n)
    OBVIOUS
<1>2. Iterates(p, base, n, g)
    BY <1>1, IterationExists, Zenon DEF Iterated
<1>3. g[0] = base
    BY <1>2 DEF Iterates
<1>4. ASSUME NEW m \in Nat, m + 1 <= n
      PROVE  g[m + 1] = Step(p, m + 1, g[m])
    BY <1>2, <1>4 DEF Iterates
<1>5. QED
    BY <1>1, <1>3, <1>4

-----------------------------------------------------------------------------
(***************************************************************************)
(* FoldLeft of the library folds by a function on the sets of positions,   *)
(* the highest of which comes last.                                        *)
(***************************************************************************)
Folds(p, base, n, g) ==
    g = [s \in SUBSET (1..n) |->
            IF s = {} THEN base ELSE Step(p, Max(s), g[s \ {Max(s)}])]

LEMMA FoldExists == \A p, base : \A n \in Nat : \E g : Folds(p, base, n, g)
<1> SUFFICES ASSUME NEW p, NEW base
             PROVE  \A n \in Nat : \E g : Folds(p, base, n, g)
    OBVIOUS
<1> DEFINE S == {n \in Nat : \E g : Folds(p, base, n, g)}
<1>1. 0 \in S
    <2>1. PICK g : g = [s \in {{}} |-> base]
        OBVIOUS
    <2>2. SUBSET (1..0) = {{}}
        OBVIOUS
    <2>3. Folds(p, base, 0, g)
        BY <2>1, <2>2 DEF Folds
    <2>4. QED
        BY <2>3
<1>2. ASSUME NEW n \in Nat, n \in S
      PROVE  n + 1 \in S
    <2>1. PICK g : Folds(p, base, n, g)
        BY <1>2
    <2>2. PICK f : f = [s \in SUBSET (1..(n + 1)) |->
                          IF n + 1 \in s THEN Step(p, n + 1, g[s \ {n + 1}]) ELSE g[s]]
        OBVIOUS
    <2>3. ASSUME NEW s \in SUBSET (1..(n + 1))
          PROVE  f[s] = IF s = {} THEN base ELSE Step(p, Max(s), f[s \ {Max(s)}])
        <3>1. CASE n + 1 \in s
            <4>1. Max(s) = n + 1 /\ s # {}
                BY <3>1, HighestOf
            <4>2. s \ {n + 1} \in SUBSET (1..(n + 1)) /\ n + 1 \notin s \ {n + 1}
                OBVIOUS
            <4>3. f[s \ {n + 1}] = g[s \ {n + 1}]
                BY <2>2, <4>2
            <4>4. f[s] = Step(p, n + 1, g[s \ {n + 1}])
                BY <2>2, <3>1
            <4>5. QED
                BY <4>1, <4>3, <4>4
        <3>2. CASE n + 1 \notin s
            <4>1. s \in SUBSET (1..n)
                BY <3>2
            <4>2. f[s] = g[s]
                BY <2>2, <3>2
            <4>3. f[s \ {Max(s)}] = g[s \ {Max(s)}]
                BY <2>2, <3>2
            <4>4. g[s] = IF s = {} THEN base ELSE Step(p, Max(s), g[s \ {Max(s)}])
                BY <2>1, <4>1 DEF Folds
            <4>5. QED
                BY <4>2, <4>3, <4>4
        <3>3. QED
            BY <3>1, <3>2
    <2>4. Folds(p, base, n + 1, f)
        BY <2>2, <2>3 DEF Folds
    <2>5. QED
        BY <2>4
<1>3. QED
    BY <1>1, <1>2, SetInduction

\* What a fold over n positions has after the first m of them
Folded(p, base, n, m) == (CHOOSE g : Folds(p, base, n, g))[1..m]

LEMMA FoldSteps ==
    ASSUME NEW p, NEW base, NEW n \in Nat
    PROVE  /\ Folded(p, base, n, 0) = base
           /\ \A m \in Nat : m + 1 <= n =>
                 Folded(p, base, n, m + 1) = Step(p, m + 1, Folded(p, base, n, m))
<1>1. PICK g : g = CHOOSE f : Folds(p, base, n, f)
    OBVIOUS
<1>2. Folds(p, base, n, g)
    BY <1>1, FoldExists, Zenon
<1>3. \A m : Folded(p, base, n, m) = g[1..m]
    BY <1>1, Zenon DEF Folded
<1>4. {} \in SUBSET (1..n)
    OBVIOUS
<1>5. g[{}] = base
    BY <1>2, <1>4 DEF Folds
<1>6. ASSUME NEW m \in Nat, m + 1 <= n
      PROVE  g[1..(m + 1)] = Step(p, m + 1, g[1..m])
    <2>1. Max(1..(m + 1)) = m + 1 /\ 1..(m + 1) # {} /\ (1..(m + 1)) \ {m + 1} = 1..m
        BY FirstNumbers
    <2>2. 1..(m + 1) \in SUBSET (1..n)
        BY <1>6
    <2>3. QED
        BY <1>2, <2>1, <2>2 DEF Folds
<1>7. QED
    BY <1>3, <1>5, <1>6, NoneFirst

=============================================================================
