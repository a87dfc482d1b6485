----------------------------- MODULE SumTheorems -----------------------------
(***************************************************************************)
(* Facts about the sum of the values of a function over a finite set, as   *)
(* the community modules define it: a fold that takes the elements out of  *)
(* the set one by one.  The models use it for totals over customers and    *)
(* over reminders.  Induction on the size of the set is done by the least  *)
(* size at which a fact would fail.  Nothing here is about one component.  *)
(***************************************************************************)
EXTENDS Integers, FiniteSets, FiniteSetsExt, FiniteSetTheorems, TLAPS

SumOver(f, S) == MapThenSumSet(LAMBDA x : f[x], S)

(* The element a fold takes next, and the equation its partial sums satisfy. *)
Chosen(T) == CHOOSE x \in T : TRUE
FoldsAt(f, g, T) == g[T] = IF T = {} THEN 0 ELSE f[Chosen(T)] + g[T \ {Chosen(T)}]
Partial(f, S) ==
    CHOOSE g : g = [T \in SUBSET S |->
                      IF T = {} THEN 0 ELSE f[Chosen(T)] + g[T \ {Chosen(T)}]]

LEMMA SumIsPartial ==
  ASSUME NEW f, NEW S
  PROVE  SumOver(f, S) = Partial(f, S)[S]
  BY DEF SumOver, MapThenSumSet, MapThenFoldSet, Partial, Chosen

(* A nonempty set of numbers has a least one. *)
LEMMA Least ==
  ASSUME NEW N \in SUBSET Nat, N # {}
  PROVE  \E n \in N : \A m \in N : n <= m
<1>1. PICK n \in N : \A m \in N : ~(<<m, n>> \in OpToRel(<, Nat))
  BY WFMin, NatLessThanWellFounded
<1>2. \A m \in N : ~(m < n)
  BY <1>1 DEF OpToRel
<1> QED
  BY <1>2

(* A nonempty finite set of numbers has a greatest one: the one with the fewest
   greater ones in the set. *)
LEMMA Greatest ==
  ASSUME NEW T \in SUBSET Nat, IsFiniteSet(T), T # {}
  PROVE  \E m \in T : \A n \in T : n <= m
<1> DEFINE Above(x) == {y \in T : y > x}
           Sizes == {Cardinality(Above(x)) : x \in T}
<1>1. \A x \in T : /\ Above(x) \in SUBSET T /\ IsFiniteSet(Above(x))
                   /\ Cardinality(Above(x)) \in Nat
  BY FS_Subset, FS_CardinalityType
<1>2. PICK k \in Sizes : \A j \in Sizes : k <= j
  <2>1. Sizes \in SUBSET Nat /\ Sizes # {}
    BY <1>1
  <2> QED
    BY <2>1, Least
<1>3. PICK x \in T : \A z \in T : Cardinality(Above(x)) <= Cardinality(Above(z))
  BY <1>2
<1>4. ASSUME NEW y \in T, ~(y <= x) PROVE FALSE
  <2>0. x \in Nat /\ y \in Nat /\ y > x /\ \A z \in T : z \in Nat
    BY <1>4
  <2>1. Above(y) \in SUBSET Above(x) /\ y \in Above(x) /\ y \notin Above(y)
    <3>1. ASSUME NEW z \in T, z > y PROVE z > x
      BY <2>0, <3>1
    <3>2. ~(y > y)
      BY <2>0
    <3> QED
      BY <2>0, <3>1, <3>2
  <2>2. Cardinality(Above(y)) <= Cardinality(Above(x)) /\ Above(y) # Above(x)
    BY <1>1, <2>1, FS_Subset
  <2>3. Cardinality(Above(y)) # Cardinality(Above(x))
    BY <1>1, <2>1, <2>2, FS_Subset
  <2> QED
    BY <1>1, <1>3, <2>2, <2>3
<1> QED
  BY <1>3, <1>4

LEMMA TakeOne ==
  ASSUME NEW S, IsFiniteSet(S), NEW T \in SUBSET S
  PROVE  /\ IsFiniteSet(T) /\ Cardinality(T) \in Nat
         /\ T = {} <=> Cardinality(T) = 0
         /\ T # {} => /\ Chosen(T) \in T /\ T \ {Chosen(T)} \in SUBSET S
                      /\ Cardinality(T \ {Chosen(T)}) = Cardinality(T) - 1
<1>1. IsFiniteSet(T)
  BY FS_Subset
<1>2. T # {} => Chosen(T) \in T
  BY DEF Chosen
<1> QED
  BY <1>1, <1>2, FS_CardinalityType, FS_EmptySet, FS_RemoveElement

(* The partial sums of the subsets of at most n elements exist. *)
LEMMA PartialUpTo ==
  ASSUME NEW S, IsFiniteSet(S), NEW f, \A x \in S : f[x] \in Nat, NEW n \in Nat
  PROVE  \E g \in [SUBSET S -> Nat] :
           \A T \in SUBSET S : Cardinality(T) <= n => FoldsAt(f, g, T)
<1> DEFINE Good(m) == \E g \in [SUBSET S -> Nat] :
              \A T \in SUBSET S : Cardinality(T) <= m => FoldsAt(f, g, T)
           Bad == {m \in Nat : ~Good(m)}
<1> SUFFICES ASSUME ~Good(n) PROVE FALSE
  OBVIOUS
<1>1. Good(0)
  <2> DEFINE g == [T \in SUBSET S |-> 0]
  <2>1. ASSUME NEW T \in SUBSET S, Cardinality(T) <= 0 PROVE FoldsAt(f, g, T)
    <3>1. Cardinality(T) \in Nat /\ (T = {} <=> Cardinality(T) = 0)
      BY TakeOne
    <3>2. T = {}
      BY <2>1, <3>1
    <3> QED
      BY <3>2 DEF FoldsAt
  <2> QED
    BY <2>1
<1>2. PICK m \in Bad : \A k \in Bad : m <= k
  <2>1. Bad \in SUBSET Nat /\ Bad # {}
    OBVIOUS
  <2> QED
    BY <2>1, Least
<1>3. m \in Nat /\ ~Good(m)
  OBVIOUS
<1>4. m # 0
  BY <1>1, <1>3
<1>5. m - 1 \in Nat /\ ~(m <= m - 1)
  BY <1>3, <1>4
<1>6. Good(m - 1)
  BY <1>2, <1>5
<1>7. PICK g \in [SUBSET S -> Nat] :
        \A T \in SUBSET S : Cardinality(T) <= m - 1 => FoldsAt(f, g, T)
  BY <1>6
<1> DEFINE h == [T \in SUBSET S |->
                   IF Cardinality(T) <= m - 1 THEN g[T]
                   ELSE IF T = {} THEN 0 ELSE f[Chosen(T)] + g[T \ {Chosen(T)}]]
<1>8. h \in [SUBSET S -> Nat]
  <2>1. ASSUME NEW T \in SUBSET S, T # {} PROVE f[Chosen(T)] + g[T \ {Chosen(T)}] \in Nat
    <3>1. Chosen(T) \in S /\ T \ {Chosen(T)} \in SUBSET S
      BY <2>1, TakeOne
    <3> QED
      BY <3>1
  <2> QED
    BY <2>1
<1>9. ASSUME NEW T \in SUBSET S, Cardinality(T) <= m PROVE FoldsAt(f, h, T)
  <2>1. CASE T = {}
    <3>1. Cardinality(T) <= m - 1
      <4>1. Cardinality(T) = 0
        BY <2>1, FS_EmptySet
      <4> QED
        BY <1>5, <4>1
    <3> QED
      BY <1>7, <2>1, <3>1 DEF FoldsAt
  <2>2. CASE T # {}
    <3> DEFINE U == T \ {Chosen(T)}
    <3>1. U \in SUBSET S /\ Cardinality(U) = Cardinality(T) - 1 /\ Cardinality(T) \in Nat
      BY <2>2, TakeOne
    <3>2. Cardinality(U) <= m - 1
      BY <1>3, <1>9, <3>1
    <3>3. h[U] = g[U]
      BY <3>1, <3>2
    <3> HIDE DEF U
    <3>4. h[T] = f[Chosen(T)] + g[U]
      BY <1>7, <2>2 DEF FoldsAt, U
    <3> QED
      BY <2>2, <3>3, <3>4 DEF FoldsAt, U
  <2> QED
    BY <2>1, <2>2
<1> QED
  BY <1>3, <1>8, <1>9

LEMMA PartialFolds ==
  ASSUME NEW S, IsFiniteSet(S), NEW f, \A x \in S : f[x] \in Nat
  PROVE  /\ Partial(f, S) \in [SUBSET S -> Nat]
         /\ \A T \in SUBSET S : FoldsAt(f, Partial(f, S), T)
<1>1. Cardinality(S) \in Nat
  BY FS_CardinalityType
<1>2. PICK g \in [SUBSET S -> Nat] :
        \A T \in SUBSET S : Cardinality(T) <= Cardinality(S) => FoldsAt(f, g, T)
  BY <1>1, PartialUpTo
<1>3. \A T \in SUBSET S : FoldsAt(f, g, T)
  BY <1>2, FS_Subset
<1> DEFINE Eq(k) == k = [T \in SUBSET S |->
                          IF T = {} THEN 0 ELSE f[Chosen(T)] + k[T \ {Chosen(T)}]]
<1>4. Eq(g)
  BY <1>2, <1>3 DEF FoldsAt
<1>5. Eq(Partial(f, S))
  BY <1>4 DEF Partial
<1> DEFINE p == Partial(f, S)
<1>6. \A T \in SUBSET S : FoldsAt(f, p, T)
  BY <1>5 DEF FoldsAt
<1>7. DOMAIN p = SUBSET S
  BY <1>5
<1> HIDE DEF p
<1>8. ASSUME NEW T \in SUBSET S PROVE p[T] = g[T]
  <2> DEFINE Bad == {m \in Nat : \E V \in SUBSET S : Cardinality(V) = m /\ p[V] # g[V]}
  <2> SUFFICES ASSUME p[T] # g[T] PROVE FALSE
    OBVIOUS
  <2>1. Bad # {}
    BY TakeOne
  <2>2. PICK m \in Bad : \A k \in Bad : m <= k
    BY <2>1, Least
  <2>3. PICK V \in SUBSET S : Cardinality(V) = m /\ p[V] # g[V]
    BY <2>2
  <2>4. CASE V = {}
    BY <1>3, <1>6, <2>3, <2>4 DEF FoldsAt
  <2>5. CASE V # {}
    <3> DEFINE U == V \ {Chosen(V)}
    <3>1. U \in SUBSET S /\ Cardinality(U) = m - 1 /\ m \in Nat /\ m # 0
      BY <2>2, <2>3, <2>5, TakeOne
    <3>2. m - 1 \in Nat /\ ~(m <= m - 1)
      BY <3>1
    <3>3. m - 1 \notin Bad
      BY <2>2, <3>2
    <3>4. p[U] = g[U]
      BY <3>1, <3>2, <3>3
    <3>5. p[V] = f[Chosen(V)] + p[U] /\ g[V] = f[Chosen(V)] + g[U]
      BY <1>3, <1>6, <2>5 DEF FoldsAt
    <3> QED
      BY <2>3, <3>4, <3>5
  <2> QED
    BY <2>4, <2>5
<1>9. p \in [SUBSET S -> Nat]
  <2>1. p = [T \in SUBSET S |-> p[T]]
    BY <1>5, <1>7 DEF p
  <2> QED
    BY <1>8, <2>1
<1> QED
  BY <1>6, <1>9 DEF p

(* A sum of numbers is a number. *)
LEMMA SumType ==
  ASSUME NEW S, IsFiniteSet(S), NEW f, \A x \in S : f[x] \in Nat
  PROVE  SumOver(f, S) \in Nat
<1>1. Partial(f, S) \in [SUBSET S -> Nat]
  BY PartialFolds
<1> QED
  BY <1>1, SumIsPartial

(* Two functions, one of them below the other except for d more at one place. *)
LEMMA SumDiffers ==
  ASSUME NEW S, IsFiniteSet(S), NEW f, NEW h, \A x \in S : f[x] \in Nat /\ h[x] \in Nat,
         NEW c, NEW d \in Int,
         \A x \in S : h[x] <= f[x] + (IF x = c THEN d ELSE 0)
  PROVE  SumOver(h, S) <= SumOver(f, S) + (IF c \in S THEN d ELSE 0)
<1> DEFINE p == Partial(f, S)
           q == Partial(h, S)
           Holds(T) == q[T] <= p[T] + (IF c \in T THEN d ELSE 0)
<1>1. /\ p \in [SUBSET S -> Nat] /\ q \in [SUBSET S -> Nat]
      /\ \A T \in SUBSET S : FoldsAt(f, p, T) /\ FoldsAt(h, q, T)
  BY PartialFolds
<1> HIDE DEF p, q
<1>2. Holds(S)
  <2> DEFINE Bad == {m \in Nat : \E T \in SUBSET S : Cardinality(T) = m /\ ~Holds(T)}
  <2> SUFFICES ASSUME ~Holds(S) PROVE FALSE
    OBVIOUS
  <2>1. Bad # {}
    BY TakeOne
  <2>2. PICK m \in Bad : \A k \in Bad : m <= k
    BY <2>1, Least
  <2>3. PICK V \in SUBSET S : Cardinality(V) = m /\ ~Holds(V)
    BY <2>2
  <2>4. CASE V = {}
    <3>1. p[V] = 0 /\ q[V] = 0
      BY <1>1, <2>4 DEF FoldsAt
    <3> QED
      BY <2>3, <2>4, <3>1
  <2>5. CASE V # {}
    <3> DEFINE x == Chosen(V)
               U == V \ {Chosen(V)}
    <3>1. /\ U \in SUBSET S /\ Cardinality(U) = m - 1 /\ m \in Nat /\ m # 0
          /\ x \in V
      BY <2>2, <2>3, <2>5, TakeOne
    <3>2. m - 1 \in Nat /\ ~(m <= m - 1)
      BY <3>1
    <3>3. m - 1 \notin Bad
      BY <2>2, <3>2
    <3>4. Holds(U)
      BY <3>1, <3>2, <3>3
    <3>5. p[V] = f[x] + p[U] /\ q[V] = h[x] + q[U]
      BY <1>1, <2>5 DEF FoldsAt
    <3>6. /\ h[x] <= f[x] + (IF x = c THEN d ELSE 0)
          /\ f[x] \in Nat /\ h[x] \in Nat
      BY <3>1
    <3>7. /\ x = c => c \in V /\ c \notin U
          /\ x # c => (c \in V <=> c \in U)
      BY <3>1
    <3>8. p[U] \in Nat /\ q[U] \in Nat /\ p[V] \in Nat /\ q[V] \in Nat
      BY <1>1, <3>1
    <3> HIDE DEF x, U
    <3> QED
      BY <2>3, <3>4, <3>5, <3>6, <3>7, <3>8
  <2> QED
    BY <2>4, <2>5
<1> QED
  BY <1>2, SumIsPartial DEF p, q

(* A function that is nowhere above another has no greater sum. *)
LEMMA SumMonotone ==
  ASSUME NEW S, IsFiniteSet(S), NEW f, NEW h, \A x \in S : f[x] \in Nat /\ h[x] \in Nat,
         \A x \in S : h[x] <= f[x]
  PROVE  SumOver(h, S) <= SumOver(f, S)
<1>1. \A x \in S : h[x] <= f[x] + (IF x = 0 THEN 0 ELSE 0)
  OBVIOUS
<1>2. 0 \in Int
  OBVIOUS
<1>3. SumOver(h, S) <= SumOver(f, S) + (IF 0 \in S THEN 0 ELSE 0)
  BY <1>1, <1>2, SumDiffers
<1>4. SumOver(f, S) \in Nat
  BY SumType
<1> QED
  BY <1>3, <1>4

(* A function that is d more at one place of the set has a sum of d more. *)
LEMMA SumIncreases ==
  ASSUME NEW S, IsFiniteSet(S), NEW f \in [S -> Nat], NEW h \in [S -> Nat],
         NEW c \in S, NEW d \in Nat,
         \A x \in S : h[x] = f[x] + (IF x = c THEN d ELSE 0)
  PROVE  SumOver(h, S) = SumOver(f, S) + d
<1>1. SumOver(h, S) <= SumOver(f, S) + (IF c \in S THEN d ELSE 0)
  <2>1. \A x \in S : h[x] <= f[x] + (IF x = c THEN d ELSE 0)
    OBVIOUS
  <2>2. d \in Int
    OBVIOUS
  <2> QED
    BY <2>1, <2>2, SumDiffers
<1>2. SumOver(f, S) <= SumOver(h, S) + (IF c \in S THEN 0 - d ELSE 0)
  <2>1. \A x \in S : f[x] <= h[x] + (IF x = c THEN 0 - d ELSE 0)
    OBVIOUS
  <2>2. 0 - d \in Int
    OBVIOUS
  <2> QED
    BY <2>1, <2>2, SumDiffers
<1> QED
  BY <1>1, <1>2, SumType
==============================================================================
