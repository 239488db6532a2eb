-------------------------- MODULE PositionTheorems --------------------------
(* Arithmetic of column values and their products, sums over a table, and     *)
(* the position rules: they keep the types of the columns they are stored in, *)
(* for every fill and every mark, and the profit they store is that of the    *)
(* mark; every step of the position book keeps both.                          *)
EXTENDS Positions, Functions, FiniteSetTheorems, TLAPS

(* The product of two column values that are not negative is not negative.   *)
LEMMA ProductNat ==
    ASSUME NEW m \in Nat, NEW n \in Nat
    PROVE  m * n \in Nat
  OBVIOUS

(* A larger quantity at one price costs no less.                              *)
LEMMA ProductMonotone ==
    ASSUME NEW m \in Nat, NEW n \in Nat, NEW p \in Nat, m <= n
    PROVE  m * p <= n * p
<1>1. PICK d \in Nat : n = m + d
  <2>1. n - m \in Nat /\ n = m + (n - m)
    OBVIOUS
  <2> QED
    BY <2>1
<1>2. n * p = m * p + d * p
  BY <1>1
<1>3. d * p \in Nat /\ m * p \in Nat
  BY <1>1, ProductNat
<1> QED
  BY <1>2, <1>3

(* Rounding a quotient gives an integer, and one that is not negative when    *)
(* the dividend is not.                                                       *)
LEMMA RoundDivType ==
    ASSUME NEW n \in Int, NEW d \in Nat \ {0}
    PROVE  /\ RoundDiv(n, d) \in Int
           /\ n >= 0 => RoundDiv(n, d) \in Nat
<1>1. 2 * d \in Nat \ {0} /\ 2 * n + d \in Int /\ 2 * (-n) + d \in Int
  OBVIOUS
<1>2. (2 * n + d) \div (2 * d) \in Int /\ (2 * (-n) + d) \div (2 * d) \in Int
  BY <1>1
<1>3. n >= 0 => (2 * n + d) \div (2 * d) >= 0
  BY <1>1
<1> QED
  BY <1>2, <1>3 DEF RoundDiv

(* Rounding is off by half a unit at most.                                    *)
LEMMA FloorError ==
    ASSUME NEW n \in Nat, NEW d \in Nat \ {0}
    PROVE  /\ ((2 * n + d) \div (2 * d)) * d \in Int
           /\ -d <= 2 * (((2 * n + d) \div (2 * d)) * d) - 2 * n
           /\ 2 * (((2 * n + d) \div (2 * d)) * d) - 2 * n <= d
<1> DEFINE m == 2 * n + d
           dd == 2 * d
           q == m \div dd
           r == m % dd
<1>1. m \in Int /\ dd \in Nat \ {0}
  OBVIOUS
<1>2. q \in Int /\ r \in Int /\ m = dd * q + r /\ 0 <= r /\ r < dd
  <2> HIDE DEF m, dd
  <2> QED
    BY <1>1
<1> HIDE DEF q, r
<1>3. dd * q = 2 * (q * d) /\ q * d \in Int
  BY <1>2
<1> QED
  BY <1>2, <1>3 DEF q

LEMMA RoundDivError ==
    ASSUME NEW n \in Int, NEW d \in Nat \ {0}
    PROVE  RoundDiv(n, d) * d \in Int /\ 2 * Abs(RoundDiv(n, d) * d - n) <= d
<1>1. CASE n >= 0
  <2> DEFINE product == ((2 * n + d) \div (2 * d)) * d
  <2>1. n \in Nat /\ RoundDiv(n, d) * d = product
    BY <1>1 DEF RoundDiv
  <2>2. product \in Int /\ -d <= 2 * product - 2 * n /\ 2 * product - 2 * n <= d
    BY <2>1, FloorError
  <2> HIDE DEF product
  <2> QED
    BY <2>1, <2>2 DEF Abs
<1>2. CASE n < 0
  <2> DEFINE k == -n
             q == (2 * k + d) \div (2 * d)
             product == q * d
  <2>1. k \in Nat /\ q \in Int
    BY <1>2
  <2>2. product \in Int /\ -d <= 2 * product - 2 * k /\ 2 * product - 2 * k <= d
    <3> HIDE DEF k
    <3> QED
      BY <2>1, FloorError
  <2>3. RoundDiv(n, d) = -q
    BY <1>2 DEF RoundDiv
  <2> HIDE DEF q
  <2>4. RoundDiv(n, d) * d = -product
    BY <2>1, <2>3
  <2>5. RoundDiv(n, d) * d - n = -(product - k)
    <3> HIDE DEF product
    <3> QED
      BY <2>2, <2>4
  <2> HIDE DEF product, k
  <2> QED
    BY <2>1, <2>2, <2>4, <2>5 DEF Abs
<1> QED
  BY <1>1, <1>2

(* The store keeps an amount that fits its column as it is.                   *)
LEMMA StoredWide ==
    ASSUME NEW c \in Int
    PROVE  Stored(Wide(c)) = c
<1> DEFINE d == 2 * Scale
<1>1. Scale \in Nat \ {0} /\ c * Scale \in Int /\ d \in Nat \ {0}
  BY ScaleAssumption
<1>2. CASE c >= 0
  <2>1. 2 * (c * Scale) + Scale = d * c + Scale /\ 0 <= Scale /\ Scale < d
    BY <1>1
  <2>2. (d * c + Scale) \div d = c
    BY <1>1, <2>1
  <2>3. c * Scale >= 0
    BY <1>1, <1>2
  <2> QED
    BY <1>1, <2>1, <2>2, <2>3 DEF Stored, Wide, RoundDiv
<1>3. CASE c < 0
  <2>1. 2 * (-(c * Scale)) + Scale = d * (-c) + Scale /\ 0 <= Scale /\ Scale < d
    BY <1>1
  <2>2. (d * (-c) + Scale) \div d = -c
    BY <1>1, <2>1
  <2>3. c * Scale < 0
    BY <1>1, <1>3
  <2> QED
    BY <1>1, <2>1, <2>2, <2>3 DEF Stored, Wide, RoundDiv
<1> QED
  BY <1>2, <1>3

(* Rounding never turns a smaller amount into a larger one.                   *)
LEMMA StoredMonotone ==
    ASSUME NEW a \in Nat, NEW b \in Nat, a <= b
    PROVE  0 <= Stored(a) /\ Stored(a) <= Stored(b)
<1> DEFINE d == 2 * Scale
           m == 2 * a + Scale
           n == 2 * b + Scale
           p == m \div d
           q == n \div d
<1>1. Scale \in Nat \ {0} /\ d \in Nat \ {0} /\ m \in Nat /\ n \in Nat /\ m <= n
  BY ScaleAssumption
<1>2. Stored(a) = p /\ Stored(b) = q
  BY DEF Stored, RoundDiv
<1> HIDE DEF d, m, n
<1>3. /\ p \in Nat /\ q \in Nat
      /\ p * d <= m /\ n < (q + 1) * d
  <2> DEFINE r == m % d
             t == n % d
             x == d * p
             y == d * q
  <2>1. p \in Nat /\ r \in Nat /\ m = x + r
    BY <1>1
  <2>2. q \in Nat /\ t \in Nat /\ n = y + t /\ t < d
    BY <1>1
  <2> HIDE DEF p, q, r, t
  <2>3. p * d = x /\ (q + 1) * d = y + d /\ x \in Nat /\ y \in Nat
    BY <1>1, <2>1, <2>2
  <2> HIDE DEF x, y
  <2> QED
    BY <1>1, <2>1, <2>2, <2>3
<1> HIDE DEF p, q
<1>4. ASSUME q < p PROVE FALSE
  <2>1. q + 1 \in Nat /\ q + 1 <= p
    BY <1>3, <1>4
  <2>2. (q + 1) * d <= p * d
    BY <1>1, <1>3, <2>1, ProductMonotone
  <2>3. (q + 1) * d \in Nat /\ p * d \in Nat
    BY <1>1, <1>3, <2>1, ProductNat
  <2> QED
    BY <1>1, <1>3, <2>2, <2>3
<1> QED
  BY <1>2, <1>3, <1>4

(* With one column unit to the currency unit nothing is ever rounded.         *)
LEMMA StoredExact ==
    ASSUME Scale = 1, NEW w \in Int
    PROVE  Stored(w) = w
  BY DEF Stored, RoundDiv

-----------------------------------------------------------------------------
(* Sums over a table.                                                         *)

(* Induction over a finite set: what holds of a subset whenever it holds of   *)
(* the strictly smaller ones holds of the whole set.                          *)
LEMMA SetInduction ==
    ASSUME NEW S, IsFiniteSet(S), NEW T \in SUBSET SUBSET S,
           \A U \in SUBSET S : (\A V \in SUBSET U : V # U => V \in T) => U \in T
    PROVE  S \in T
<1>1. IsWellFoundedOn(StrictSubsetOrdering(S), SUBSET S)
  BY FS_StrictSubsetOrderingWellFounded, FS_FiniteSubsetsOfFinite
<1>2. ASSUME NEW bad \in SUBSET SUBSET S, bad # {}
      PROVE  \E x \in bad : \A y \in bad : ~(<<y, x>> \in StrictSubsetOrdering(S))
  BY ONLY <1>1, <1>2, WFMin
<1>3. ASSUME S \notin T PROVE FALSE
  <2>1. PICK x \in (SUBSET S) \ T :
            \A y \in (SUBSET S) \ T : ~(<<y, x>> \in StrictSubsetOrdering(S))
    <3>1. (SUBSET S) \ T # {} /\ (SUBSET S) \ T \in SUBSET SUBSET S
      BY <1>3
    <3> QED
      BY <3>1, <1>2
  <2>2. \A V \in SUBSET x : V # x => V \in T
    BY <2>1 DEF StrictSubsetOrdering
  <2> QED
    BY <2>1, <2>2
<1> QED
  BY <1>3

(* The folds of the community modules add up a set one chosen element at a    *)
(* time, by a function defined on its subsets by recursion.                   *)
Chosen(s) == CHOOSE x \in s : TRUE
Adds(f, S, g) ==
    g = [s \in SUBSET S |-> IF s = {} THEN 0 ELSE f[Chosen(s)] + g[s \ {Chosen(s)}]]

(* A sum is what that recursion gives for the whole set.                      *)
LEMMA SumUnfolds ==
    ASSUME NEW f, NEW S
    PROVE  SumFunctionOnSet(f, S) = (CHOOSE g : Adds(f, S, g))[S]
  BY DEF Adds, Chosen, SumFunctionOnSet, FoldFunctionOnSet, MapThenFoldSet

(* One step of the recursion.                                                 *)
LEMMA AddsValue ==
    ASSUME NEW f, NEW S, NEW g, Adds(f, S, g), NEW U \in SUBSET S
    PROVE  g[U] = IF U = {} THEN 0 ELSE f[Chosen(U)] + g[U \ {Chosen(U)}]
  BY DEF Adds

(* The chosen element belongs to its set, and the rest is smaller.            *)
LEMMA ChosenIn ==
    ASSUME NEW s, s # {}
    PROVE  /\ Chosen(s) \in s
           /\ s \ {Chosen(s)} \in SUBSET s /\ s \ {Chosen(s)} # s
  BY DEF Chosen

(* The recursion has one value for each finite set, whatever set it was       *)
(* started from.                                                              *)
LEMMA AddsAgree ==
    ASSUME NEW f, NEW S, NEW U, NEW g, NEW h, Adds(f, S, g), Adds(f, U, h),
           NEW W \in SUBSET (S \cap U), IsFiniteSet(W)
    PROVE  g[W] = h[W]
<1> DEFINE T == {V \in SUBSET W : g[V] = h[V]}
<1>1. ASSUME NEW V \in SUBSET W, \A X \in SUBSET V : X # V => X \in T
      PROVE  V \in T
  <2>1. CASE V = {}
    BY <2>1, AddsValue
  <2>2. CASE V # {}
    <3>1. V \ {Chosen(V)} \in T
      BY <1>1, <2>2, ChosenIn
    <3>2. V \in SUBSET S /\ V \in SUBSET U
      OBVIOUS
    <3>3. g[V] = f[Chosen(V)] + g[V \ {Chosen(V)}]
      BY <2>2, <3>2, AddsValue
    <3>4. h[V] = f[Chosen(V)] + h[V \ {Chosen(V)}]
      BY <2>2, <3>2, AddsValue
    <3> QED
      BY <3>1, <3>3, <3>4
  <2> QED
    BY <2>1, <2>2
<1>2. W \in T
  <2> HIDE DEF T
  <2>1. T \in SUBSET SUBSET W
    BY DEF T
  <2> QED
    BY <1>1, <2>1, SetInduction
<1> QED
  BY <1>2

(* The recursive equation has a solution on the subsets of a finite set.      *)
LEMMA AddsExists ==
    ASSUME NEW f, NEW S, IsFiniteSet(S)
    PROVE  \E g : Adds(f, S, g)
<1> DEFINE T == {U \in SUBSET S : \E g : Adds(f, U, g)}
           total(U) == SumFunctionOnSet(f, U)
<1>1. ASSUME NEW U \in SUBSET S, \A V \in SUBSET U : V # U => V \in T
      PROVE  U \in T
  <2>1. ASSUME NEW V \in SUBSET U, V # U
        PROVE  \E h : Adds(f, V, h) /\ total(V) = h[V]
    <3>1. \E h : Adds(f, V, h)
      BY <1>1, <2>1
    <3>2. Adds(f, V, CHOOSE h : Adds(f, V, h))
      BY <3>1
    <3> QED
      BY <3>2, SumUnfolds
  <2>2. ASSUME NEW V \in SUBSET U, V # U
        PROVE  total(V) = IF V = {} THEN 0 ELSE f[Chosen(V)] + total(V \ {Chosen(V)})
    <3> DEFINE W == V \ {Chosen(V)}
    <3>1. PICK h : Adds(f, V, h) /\ total(V) = h[V]
      BY <2>1, <2>2
    <3>2. CASE V = {}
      BY <3>1, <3>2, AddsValue
    <3>3. CASE V # {}
      <4>1. W \in SUBSET V /\ W \in SUBSET U /\ W # U /\ IsFiniteSet(W)
        <5>1. IsFiniteSet(W)
          BY FS_Subset
        <5> QED
          BY <2>2, <5>1, <3>3, ChosenIn
      <4>2. PICK k : Adds(f, W, k) /\ total(W) = k[W]
        BY <2>1, <4>1
      <4>3. h[W] = k[W]
        BY <3>1, <4>1, <4>2, AddsAgree
      <4>4. h[V] = f[Chosen(V)] + h[W]
        BY <3>1, <3>3, AddsValue
      <4> QED
        BY <3>1, <3>3, <4>2, <4>3, <4>4
    <3> QED
      BY <3>2, <3>3
  <2> HIDE DEF total
  <2> DEFINE value(s) == IF s = {} THEN 0 ELSE f[Chosen(s)] + total(s \ {Chosen(s)})
             g == [s \in SUBSET U |-> value(s)]
  <2>3. ASSUME NEW s \in SUBSET U
        PROVE  g[s] = IF s = {} THEN 0 ELSE f[Chosen(s)] + g[s \ {Chosen(s)}]
    <3>1. CASE s = {}
      BY <3>1
    <3>2. CASE s # {}
      <4> DEFINE W == s \ {Chosen(s)}
      <4>1. W \in SUBSET U /\ W # U
        BY <3>2, ChosenIn
      <4>2. g[W] = value(W)
        BY <4>1
      <4>3. value(W) = total(W)
        BY <2>2, <4>1
      <4> QED
        BY <3>2, <4>2, <4>3
    <3> QED
      BY <3>1, <3>2
  <2>4. Adds(f, U, g)
    <3> HIDE DEF value
    <3>1. g = [s \in SUBSET U |-> g[s]]
      OBVIOUS
    <3> QED
      BY <2>3, <3>1 DEF Adds
  <2> QED
    BY <2>4
<1>2. S \in T
  <2> HIDE DEF T
  <2>1. T \in SUBSET SUBSET S
    BY DEF T
  <2> QED
    BY <1>1, <2>1, SetInduction
<1> QED
  BY <1>2
(* The sum over no element is zero.                                           *)
LEMMA SumOnEmpty ==
    ASSUME NEW f
    PROVE  SumFunctionOnSet(f, {}) = 0
<1>1. IsFiniteSet({})
  BY FS_EmptySet
<1>2. Adds(f, {}, CHOOSE h : Adds(f, {}, h))
  BY <1>1, AddsExists
<1>3. (CHOOSE h : Adds(f, {}, h))[{}] = 0
  BY <1>2, AddsValue
<1> QED
  BY <1>3, SumUnfolds

(* The sum over a set is that of the chosen element and of the rest.          *)
LEMMA SumStep ==
    ASSUME NEW f, NEW S, IsFiniteSet(S), S # {}
    PROVE  SumFunctionOnSet(f, S) = f[Chosen(S)] + SumFunctionOnSet(f, S \ {Chosen(S)})
<1> DEFINE W == S \ {Chosen(S)}
<1>1. ASSUME NEW U, IsFiniteSet(U)
      PROVE  \E h : Adds(f, U, h) /\ SumFunctionOnSet(f, U) = h[U]
  <2>1. Adds(f, U, CHOOSE h : Adds(f, U, h))
    BY <1>1, AddsExists
  <2> QED
    BY <2>1, SumUnfolds
<1>2. PICK h : Adds(f, S, h) /\ SumFunctionOnSet(f, S) = h[S]
  BY <1>1
<1>3. W \in SUBSET S /\ IsFiniteSet(W)
  BY FS_Subset
<1>4. PICK k : Adds(f, W, k) /\ SumFunctionOnSet(f, W) = k[W]
  BY <1>1, <1>3
<1>5. h[W] = k[W]
  BY <1>2, <1>3, <1>4, AddsAgree
<1>6. h[S] = f[Chosen(S)] + h[W]
  BY <1>2, AddsValue
<1> QED
  BY <1>2, <1>4, <1>5, <1>6

(* A finite sum of integers is an integer.                                    *)
LEMMA SumOnSetType ==
    ASSUME NEW f, NEW S, IsFiniteSet(S), \A x \in S : f[x] \in Int
    PROVE  SumFunctionOnSet(f, S) \in Int
<1> DEFINE T == {U \in SUBSET S : SumFunctionOnSet(f, U) \in Int}
<1>1. ASSUME NEW U \in SUBSET S, \A V \in SUBSET U : V # U => V \in T
      PROVE  U \in T
  <2>1. IsFiniteSet(U)
    BY FS_Subset
  <2>2. CASE U # {}
    <3>1. U \ {Chosen(U)} \in T /\ f[Chosen(U)] \in Int
      BY <1>1, <2>2, ChosenIn
    <3>2. SumFunctionOnSet(f, U) = f[Chosen(U)] + SumFunctionOnSet(f, U \ {Chosen(U)})
      BY <2>1, <2>2, SumStep
    <3> QED
      BY <3>1, <3>2
  <2>3. CASE U = {}
    BY <2>3, SumOnEmpty
  <2> QED
    BY <2>2, <2>3
<1>2. S \in T
  <2> HIDE DEF T
  <2>1. T \in SUBSET SUBSET S
    BY DEF T
  <2> QED
    BY <1>1, <2>1, SetInduction
<1> QED
  BY <1>2

(* Any element of a finite set can be taken out of a sum over it.             *)
LEMMA SumOnSetElement ==
    ASSUME NEW f, NEW S, IsFiniteSet(S), \A x \in S : f[x] \in Int, NEW e \in S
    PROVE  SumFunctionOnSet(f, S) = f[e] + SumFunctionOnSet(f, S \ {e})
<1> DEFINE sum(U) == SumFunctionOnSet(f, U)
           T == {U \in SUBSET S : \A x \in U : sum(U) = f[x] + sum(U \ {x})}
<1>1. ASSUME NEW U \in SUBSET S, \A V \in SUBSET U : V # U => V \in T, NEW x \in U
      PROVE  sum(U) = f[x] + sum(U \ {x})
  <2> DEFINE c == Chosen(U)
  <2>1. /\ IsFiniteSet(U) /\ IsFiniteSet(U \ {x}) /\ IsFiniteSet((U \ {c}) \ {x})
        /\ c \in U /\ U \ {c} \in T /\ U \ {x} \in T
    <3>1. \A V \in SUBSET U : IsFiniteSet(V)
      BY FS_Subset
    <3>2. c \in U /\ U \ {c} # U
      BY ChosenIn
    <3> QED
      BY <1>1, <3>1, <3>2
  <2>2. sum(U) = f[c] + sum(U \ {c})
    BY <2>1, SumStep
  <2>3. CASE x # c
    <3>1. sum(U \ {c}) = f[x] + sum((U \ {c}) \ {x})
      BY <2>1, <2>3
    <3>2. sum(U \ {x}) = f[c] + sum((U \ {x}) \ {c})
      BY <2>1, <2>3
    <3>3. (U \ {c}) \ {x} = (U \ {x}) \ {c}
      OBVIOUS
    <3>4. f[x] \in Int /\ f[c] \in Int /\ sum((U \ {c}) \ {x}) \in Int
      BY <2>1, SumOnSetType
    <3>5. sum(U) = f[c] + (f[x] + sum((U \ {c}) \ {x}))
      BY <2>2, <3>1
    <3>6. sum(U \ {x}) = f[c] + sum((U \ {c}) \ {x})
      BY <3>2, <3>3
    <3>7. f[c] + (f[x] + sum((U \ {c}) \ {x})) = f[x] + (f[c] + sum((U \ {c}) \ {x}))
      <4> HIDE DEF sum, c
      <4> QED
        BY <3>4
    <3> QED
      BY <3>5, <3>6, <3>7
  <2> QED
    BY <2>2, <2>3
<1>2. S \in T
  <2> HIDE DEF sum
  <2>1. T \in SUBSET SUBSET S
    OBVIOUS
  <2>2. ASSUME NEW U \in SUBSET S, \A V \in SUBSET U : V # U => V \in T
        PROVE  U \in T
    BY <1>1, <2>2
  <2> HIDE DEF T
  <2> QED
    BY <2>1, <2>2, SetInduction
<1> QED
  BY <1>2

(* A sum depends on the values of its elements only.                          *)
LEMMA SumOnSetSame ==
    ASSUME NEW f, NEW g, NEW S, IsFiniteSet(S), \A x \in S : f[x] = g[x]
    PROVE  SumFunctionOnSet(f, S) = SumFunctionOnSet(g, S)
<1> DEFINE T == {U \in SUBSET S : SumFunctionOnSet(f, U) = SumFunctionOnSet(g, U)}
<1>1. ASSUME NEW U \in SUBSET S, \A V \in SUBSET U : V # U => V \in T
      PROVE  U \in T
  <2>1. IsFiniteSet(U)
    BY FS_Subset
  <2>2. CASE U # {}
    <3>1. U \ {Chosen(U)} \in T /\ f[Chosen(U)] = g[Chosen(U)]
      BY <1>1, <2>2, ChosenIn
    <3> QED
      BY <2>1, <2>2, <3>1, SumStep
  <2>3. CASE U = {}
    BY <2>3, SumOnEmpty
  <2> QED
    BY <2>2, <2>3
<1>2. S \in T
  <2> HIDE DEF T
  <2>1. T \in SUBSET SUBSET S
    BY DEF T
  <2> QED
    BY <1>1, <2>1, SetInduction
<1> QED
  BY <1>2

(* A function whose values can be added up.                                   *)
SumsUp(f) == IsFiniteSet(DOMAIN f) /\ \A x \in DOMAIN f : f[x] \in Int

(* The sum of finitely many integers is an integer.                           *)
LEMMA SumType ==
    ASSUME NEW f, SumsUp(f)
    PROVE  SumFunction(f) \in Int
  BY SumOnSetType DEF SumFunction, SumsUp

(* The sum of nothing is zero.                                                *)
LEMMA SumEmpty ==
    ASSUME NEW f, DOMAIN f = {}
    PROVE  SumFunction(f) = 0
  BY SumOnEmpty DEF SumFunction

(* A row is added to a table: its value is added to the sum.                  *)
LEMMA SumAdded ==
    ASSUME NEW f, NEW g, NEW e, SumsUp(g),
           e \notin DOMAIN f, DOMAIN g = DOMAIN f \cup {e},
           \A x \in DOMAIN f : g[x] = f[x]
    PROVE  SumFunction(g) = SumFunction(f) + g[e] /\ SumFunction(f) \in Int
<1>1. IsFiniteSet(DOMAIN f)
  BY FS_Subset DEF SumsUp
<1>2. SumFunctionOnSet(f, DOMAIN f) = SumFunctionOnSet(g, DOMAIN f)
  BY <1>1, SumOnSetSame
<1>3. SumFunctionOnSet(g, DOMAIN f) \in Int
  BY <1>1, SumOnSetType DEF SumsUp
<1>4. SumFunctionOnSet(g, DOMAIN g) = g[e] + SumFunctionOnSet(g, DOMAIN g \ {e})
  BY SumOnSetElement DEF SumsUp
<1>5. DOMAIN g \ {e} = DOMAIN f
  OBVIOUS
<1>6. g[e] \in Int
  BY DEF SumsUp
<1> QED
  BY <1>2, <1>3, <1>4, <1>5, <1>6 DEF SumFunction

(* A row of a table changes: the sum changes by as much.                      *)
LEMMA SumChanged ==
    ASSUME NEW f, NEW g, NEW e \in DOMAIN f, SumsUp(f), SumsUp(g), DOMAIN g = DOMAIN f,
           \A x \in DOMAIN f \ {e} : g[x] = f[x]
    PROVE  SumFunction(g) = SumFunction(f) - f[e] + g[e]
<1> DEFINE D == DOMAIN f
<1>1. IsFiniteSet(D \ {e})
  BY FS_Subset DEF SumsUp
<1>2. SumFunctionOnSet(f, D \ {e}) = SumFunctionOnSet(g, D \ {e})
  BY <1>1, SumOnSetSame
<1>3. SumFunctionOnSet(f, D \ {e}) \in Int
  BY <1>1, SumOnSetType DEF SumsUp
<1>4. SumFunctionOnSet(f, D) = f[e] + SumFunctionOnSet(f, D \ {e})
  BY SumOnSetElement DEF SumsUp
<1>5. SumFunctionOnSet(g, D) = g[e] + SumFunctionOnSet(g, D \ {e})
  BY SumOnSetElement DEF SumsUp
<1>6. f[e] \in Int /\ g[e] \in Int
  BY DEF SumsUp
<1> QED
  BY <1>2, <1>3, <1>4, <1>5, <1>6 DEF SumFunction

(* Nothing changes: the sum stays.                                            *)
LEMMA SumSame ==
    ASSUME NEW f, NEW g, IsFiniteSet(DOMAIN f), DOMAIN g = DOMAIN f,
           \A x \in DOMAIN f : g[x] = f[x]
    PROVE  SumFunction(g) = SumFunction(f)
  BY SumOnSetSame DEF SumFunction

(* A finite sum of natural numbers is one.                                    *)
LEMMA SumOnSetNat ==
    ASSUME NEW f, NEW S, IsFiniteSet(S), \A x \in S : f[x] \in Nat
    PROVE  SumFunctionOnSet(f, S) \in Nat
<1> DEFINE T == {U \in SUBSET S : SumFunctionOnSet(f, U) \in Nat}
<1>1. ASSUME NEW U \in SUBSET S, \A V \in SUBSET U : V # U => V \in T
      PROVE  U \in T
  <2>1. IsFiniteSet(U)
    BY FS_Subset
  <2>2. CASE U # {}
    <3>1. U \ {Chosen(U)} \in T /\ f[Chosen(U)] \in Nat
      BY <1>1, <2>2, ChosenIn
    <3>2. SumFunctionOnSet(f, U) = f[Chosen(U)] + SumFunctionOnSet(f, U \ {Chosen(U)})
      BY <2>1, <2>2, SumStep
    <3> QED
      BY <3>1, <3>2
  <2>3. CASE U = {}
    BY <2>3, SumOnEmpty
  <2> QED
    BY <2>2, <2>3
<1>2. S \in T
  <2> HIDE DEF T
  <2>1. T \in SUBSET SUBSET S
    BY DEF T
  <2> QED
    BY <1>1, <2>1, SetInduction
<1> QED
  BY <1>2

(* No element of a sum of natural numbers exceeds the sum.                    *)
LEMMA SumBounds ==
    ASSUME NEW f, IsFiniteSet(DOMAIN f), \A x \in DOMAIN f : f[x] \in Nat, NEW e \in DOMAIN f
    PROVE  f[e] <= SumFunction(f)
<1>1. SumFunctionOnSet(f, DOMAIN f) = f[e] + SumFunctionOnSet(f, DOMAIN f \ {e})
  BY SumOnSetElement
<1>2. SumFunctionOnSet(f, DOMAIN f \ {e}) \in Nat
  BY SumOnSetNat, FS_Subset
<1> QED
  BY <1>1, <1>2 DEF SumFunction

-----------------------------------------------------------------------------
(* The position rules.                                                        *)

LEMMA NoRowsType ==
    ASSUME NEW Row
    PROVE  DOMAIN NoRows = {} /\ NoRows \in [DOMAIN NoRows -> Row]
  BY DEF NoRows

LEMMA StoredType ==
    ASSUME NEW w \in Int
    PROVE  Stored(w) \in Int
  BY RoundDivType, ScaleAssumption DEF Stored

LEMMA AbsSignType ==
    ASSUME NEW n \in Int
    PROVE  Abs(n) \in Nat /\ Sign(n) \in Int /\ (n # 0 => Abs(n) \in Nat \ {0})
  BY DEF Abs, Sign

(* calculate_position_after_fill: the cost of the position that results is    *)
(* never negative, whichever side it is on.                                   *)
LEMMA AfterFillType ==
    ASSUME NEW row \in Position, NEW side, NEW quantity \in Nat \ {0}, NEW price \in Nat \ {0}
    PROVE  AfterFill(row, side, quantity, price) \in [net: Int, realized: Int, cost: Nat]
<1> DEFINE signed == IF side = "BUY" THEN quantity ELSE -quantity
           net == row.net + signed
           closing == Least(Abs(row.net), quantity)
           gain == Sign(row.net) * (price - row.avg) * closing
<1>1. row.net \in Int /\ row.avg \in Nat /\ row.realized \in Int
  BY DEF Position
<1>2. signed \in Int /\ net \in Int
  BY <1>1
<1>3. Abs(row.net) \in Nat /\ Abs(net) \in Nat /\ Sign(row.net) \in Int
  BY <1>1, <1>2, AbsSignType
<1>4. closing \in Nat
  BY <1>3 DEF Least
<1>5. gain \in Int
  <2> HIDE DEF closing
  <2> QED
    BY <1>1, <1>3, <1>4
<1>6. Wide(row.realized) \in Int
  BY <1>1, ScaleAssumption DEF Wide
<1>7. /\ Abs(row.net) * row.avg + quantity * price \in Nat
      /\ Abs(net) * row.avg \in Nat
      /\ Abs(net) * price \in Nat
  <2> HIDE DEF net
  <2> QED
    BY <1>1, <1>3, ProductNat
<1>8. AfterFill(row, side, quantity, price) =
          IF row.net * signed >= 0
          THEN [net |-> net, realized |-> Wide(row.realized),
                cost |-> Abs(row.net) * row.avg + quantity * price]
          ELSE [net |-> net, realized |-> Wide(row.realized) + gain,
                cost |-> IF row.net * net > 0 THEN Abs(net) * row.avg ELSE Abs(net) * price]
  BY DEF AfterFill, SignedFill, Closing, IncreasedCost
<1> HIDE DEF signed, net, closing, gain
<1> QED
  BY <1>2, <1>5, <1>6, <1>7, <1>8

LEMMA ExecutedPositionType ==
    ASSUME NEW row \in Position, NEW side, NEW quantity \in Nat \ {0}, NEW price \in Nat \ {0},
           NEW mark \in Nat
    PROVE  ExecutedPosition(row, side, quantity, price, mark) \in Position
<1> DEFINE after == AfterFill(row, side, quantity, price)
<1>1. after.net \in Int /\ after.realized \in Int /\ after.cost \in Nat
  BY AfterFillType
<1>2. ExecutedPosition(row, side, quantity, price, mark) =
        [net        |-> after.net,
         avg        |-> IF after.net = 0 THEN 0 ELSE RoundDiv(after.cost, Abs(after.net)),
         realized   |-> Stored(after.realized),
         unrealized |-> Stored(UnrealizedPnl(after.net, after.cost, mark)),
         mark       |-> mark]
  BY DEF ExecutedPosition
<1> HIDE DEF after
<1>3. (IF after.net = 0 THEN 0 ELSE RoundDiv(after.cost, Abs(after.net))) \in Nat
  <2>1. CASE after.net = 0
    BY <2>1
  <2>2. CASE after.net # 0
    <3>1. Abs(after.net) \in Nat \ {0} /\ after.cost \in Int /\ after.cost >= 0
      BY <1>1, <2>2, AbsSignType
    <3>2. RoundDiv(after.cost, Abs(after.net)) \in Nat
      BY <3>1, RoundDivType
    <3> QED
      BY <2>2, <3>2
  <2> QED
    BY <2>1, <2>2
<1>4. UnrealizedPnl(after.net, after.cost, mark) \in Int
  BY <1>1, AbsSignType DEF UnrealizedPnl
<1> QED
  BY <1>1, <1>2, <1>3, <1>4, StoredType DEF Position

LEMMA MarkedPositionType ==
    ASSUME NEW row \in Position, NEW price \in Nat
    PROVE  MarkedPosition(row, price) \in Position
<1>1. row.net \in Int /\ row.avg \in Nat
  BY DEF Position
<1>2. Abs(row.net) * row.avg \in Nat
  BY <1>1, AbsSignType, ProductNat
<1>3. UnrealizedPnl(row.net, Abs(row.net) * row.avg, price) \in Int
  BY <1>1, <1>2, AbsSignType DEF UnrealizedPnl
<1> QED
  BY <1>3, StoredType DEF MarkedPosition, Position

(* apply_execution keeps the types of the position book.                      *)
LEMMA ApplyExecutionType ==
    ASSUME PositionsTypeOK,
           NEW account \in Accounts, NEW symbol \in Symbols, NEW side,
           NEW quantity \in Nat \ {0}, NEW price \in Nat \ {0},
           ApplyExecution(account, symbol, side, quantity, price)
    PROVE  PositionsTypeOK'
<1> DEFINE mark == IF symbol \in DOMAIN marketPrices THEN marketPrices[symbol].price ELSE price
           key  == <<account, symbol>>
           row  == IF key \in DOMAIN positions THEN positions[key] ELSE FlatPosition(mark)
           new  == ExecutedPosition(row, side, quantity, price, mark)
<1>1. mark \in Nat
  BY DEF PositionsTypeOK, MarketPrice
<1>2. row \in Position
  <2> HIDE DEF mark
  <2>1. FlatPosition(mark) \in Position
    BY <1>1 DEF FlatPosition, Position
  <2> QED
    BY <2>1 DEF PositionsTypeOK
<1>3. positions' = Put(positions, key, new) /\ UNCHANGED marketPrices
  BY DEF ApplyExecution
<1>4. key \in Accounts \X Symbols
  OBVIOUS
<1>5. new \in Position
  <2> HIDE DEF mark, row
  <2> QED
    BY <1>1, <1>2, ExecutedPositionType
<1> HIDE DEF new, key
<1>6. /\ DOMAIN positions' = DOMAIN positions \cup {key}
      /\ positions' \in [DOMAIN positions' -> Position]
  BY <1>3, <1>5 DEF Put, PositionsTypeOK
<1> QED
  BY <1>3, <1>4, <1>6 DEF PositionsTypeOK

(* apply_tick keeps the types of the position book.                           *)
LEMMA ApplyTickType ==
    ASSUME PositionsTypeOK,
           NEW symbol \in Symbols, NEW price \in TickPrices, NEW observedAt \in TickTimes,
           ApplyTick(symbol, price, observedAt)
    PROVE  PositionsTypeOK'
<1> DEFINE new == [price |-> price, observedAt |-> observedAt]
<1>1. price \in Nat /\ observedAt \in Nat
  BY TickPricesAssumption, TickTimesAssumption
<1>2. new \in MarketPrice
  BY <1>1 DEF MarketPrice
<1>3. marketPrices' = Put(marketPrices, symbol, new)
  BY DEF ApplyTick, TickAccepted
<1> HIDE DEF new
<1>4. /\ DOMAIN marketPrices' = DOMAIN marketPrices \cup {symbol}
      /\ marketPrices' \in [DOMAIN marketPrices' -> MarketPrice]
  BY <1>2, <1>3 DEF Put, PositionsTypeOK
<1>5. positions' = [k \in DOMAIN positions |->
                        IF k[2] = symbol THEN MarkedPosition(positions[k], price)
                                         ELSE positions[k]]
  BY DEF ApplyTick, TickAccepted
<1>6. \A k \in DOMAIN positions : MarkedPosition(positions[k], price) \in Position
  BY <1>1, MarkedPositionType DEF PositionsTypeOK
<1>7. DOMAIN positions' = DOMAIN positions /\ positions' \in [DOMAIN positions' -> Position]
  BY <1>5, <1>6 DEF PositionsTypeOK
<1> QED
  BY <1>4, <1>7 DEF PositionsTypeOK

LEMMA TickType ==
    ASSUME PositionsTypeOK, Tick
    PROVE  PositionsTypeOK'
  BY ApplyTickType DEF Tick

LEMMA BookInitType ==
    ASSUME BookInit
    PROVE  PositionsTypeOK
  BY NoRowsType DEF BookInit, PositionsTypeOK

-----------------------------------------------------------------------------
(* Marking to market.                                                         *)

(* The unrealized P&L of a row is that of its mark, to the rounding of the    *)
(* stored average and of the stored P&L.                                      *)
ProfitIsThatOfMark(row) ==
    2 * Abs(Wide(row.unrealized) - (row.mark - row.avg) * row.net) <= Abs(row.net) + Scale

LEMMA StoredProfit ==
    ASSUME NEW net \in Int, NEW avg \in Int, NEW cost \in Int, NEW mark \in Int,
           NEW drift \in Nat,
           Sign(net) * cost \in Int, 2 * Abs(avg * net - Sign(net) * cost) <= drift
    PROVE  2 * Abs(Wide(Stored(UnrealizedPnl(net, cost, mark))) - (mark - avg) * net)
               <= drift + Scale
<1> DEFINE profit == UnrealizedPnl(net, cost, mark)
           stored == Wide(Stored(profit))
           book == Sign(net) * cost
           open == avg * net
           value == mark * net
<1>1. /\ profit = value - book /\ value \in Int /\ open \in Int /\ book \in Int
      /\ (mark - avg) * net = value - open
  BY DEF UnrealizedPnl
<1>2. Scale \in Nat \ {0} /\ profit \in Int
  BY <1>1, ScaleAssumption
<1>3. stored \in Int /\ 2 * Abs(stored - profit) <= Scale
  <2> HIDE DEF profit
  <2> QED
    BY <1>2, RoundDivError DEF Stored, Wide
<1>4. 2 * Abs(open - book) <= drift
  OBVIOUS
<1> HIDE DEF profit, stored, book, open, value
<1>5. 2 * Abs(stored - (value - open)) <= drift + Scale
  BY <1>1, <1>2, <1>3, <1>4 DEF Abs
<1> QED
  BY <1>1, <1>5 DEF profit, stored, value, open

(* The average of an open position times its quantity is its cost, but for    *)
(* the rounding of the average.                                               *)
LEMMA AverageDrift ==
    ASSUME NEW net \in Int, net # 0, NEW cost \in Nat
    PROVE  /\ Sign(net) * cost \in Int
           /\ 2 * Abs(RoundDiv(cost, Abs(net)) * net - Sign(net) * cost) <= Abs(net)
<1> DEFINE avg == RoundDiv(cost, Abs(net))
<1>1. Abs(net) \in Nat \ {0} /\ avg \in Int
  BY AbsSignType, RoundDivType
<1>2. avg * Abs(net) \in Int /\ 2 * Abs(avg * Abs(net) - cost) <= Abs(net)
  BY <1>1, RoundDivError
<1> HIDE DEF avg
<1>3. CASE net > 0
  BY <1>1, <1>2, <1>3 DEF Abs, Sign, avg
<1>4. CASE net < 0
  <2>1. Sign(net) * cost = -cost /\ avg * Abs(net) = -(avg * net) /\ avg * net \in Int
    BY <1>1, <1>4 DEF Abs, Sign
  <2>2. 2 * Abs(avg * net + cost) <= Abs(net)
    BY <1>1, <1>2, <2>1 DEF Abs
  <2> QED
    BY <2>1, <2>2 DEF avg
<1> QED
  BY <1>3, <1>4

LEMMA ExecutedProfit ==
    ASSUME NEW row \in Position, NEW side, NEW quantity \in Nat \ {0}, NEW price \in Nat \ {0},
           NEW mark \in Nat
    PROVE  /\ ExecutedPosition(row, side, quantity, price, mark).mark = mark
           /\ ProfitIsThatOfMark(ExecutedPosition(row, side, quantity, price, mark))
<1> DEFINE after == AfterFill(row, side, quantity, price)
           avg == IF after.net = 0 THEN 0 ELSE RoundDiv(after.cost, Abs(after.net))
           new == ExecutedPosition(row, side, quantity, price, mark)
<1>1. after.net \in Int /\ after.cost \in Nat
  BY AfterFillType
<1>2. /\ new.net = after.net /\ new.avg = avg /\ new.mark = mark
      /\ new.unrealized = Stored(UnrealizedPnl(after.net, after.cost, mark))
  BY DEF ExecutedPosition
<1> HIDE DEF after, new
<1>3. Abs(after.net) \in Nat
  BY <1>1, AbsSignType
<1>4. /\ avg \in Int /\ Sign(after.net) * after.cost \in Int
      /\ 2 * Abs(avg * after.net - Sign(after.net) * after.cost) <= Abs(after.net)
  <2>1. CASE after.net = 0
    BY <1>1, <2>1 DEF Abs, Sign
  <2>2. CASE after.net # 0
    <3>1. Abs(after.net) \in Nat \ {0}
      BY <1>1, <2>2, AbsSignType
    <3>2. RoundDiv(after.cost, Abs(after.net)) \in Int
      BY <1>1, <3>1, RoundDivType
    <3> QED
      BY <1>1, <2>2, <3>2, AverageDrift
  <2> QED
    BY <2>1, <2>2
<1> HIDE DEF avg
<1>5. 2 * Abs(Wide(new.unrealized) - (mark - avg) * after.net) <= Abs(after.net) + Scale
  <2> DEFINE net == after.net
             cost == after.cost
             drift == Abs(after.net)
  <2>1. net \in Int /\ cost \in Int /\ mark \in Int /\ drift \in Nat
    BY <1>1, <1>3
  <2>2. Sign(net) * cost \in Int /\ 2 * Abs(avg * net - Sign(net) * cost) <= drift
    BY <1>4
  <2> HIDE DEF net, cost, drift
  <2>3. 2 * Abs(Wide(Stored(UnrealizedPnl(net, cost, mark))) - (mark - avg) * net)
            <= drift + Scale
    BY <1>4, <2>1, <2>2, StoredProfit
  <2> QED
    BY <1>2, <2>3 DEF net, cost, drift
<1> QED
  BY <1>2, <1>5 DEF ProfitIsThatOfMark, new

LEMMA MarkedProfit ==
    ASSUME NEW row \in Position, NEW price \in Nat
    PROVE  /\ MarkedPosition(row, price).mark = price
           /\ ProfitIsThatOfMark(MarkedPosition(row, price))
<1> DEFINE cost == Abs(row.net) * row.avg
           new == MarkedPosition(row, price)
<1>1. row.net \in Int /\ row.avg \in Nat
  BY DEF Position
<1>2. /\ new.net = row.net /\ new.avg = row.avg /\ new.mark = price
      /\ new.unrealized = Stored(UnrealizedPnl(row.net, cost, price))
  BY DEF MarkedPosition, Position
<1>3. Abs(row.net) \in Nat /\ cost \in Nat
  BY <1>1, AbsSignType, ProductNat
<1>4. Sign(row.net) * cost = row.avg * row.net /\ row.avg * row.net \in Int
  BY <1>1 DEF Sign, Abs
<1> HIDE DEF cost, new
<1>5. 2 * Abs(row.avg * row.net - Sign(row.net) * cost) <= Abs(row.net)
  BY <1>1, <1>3, <1>4 DEF Abs
<1>6. 2 * Abs(Wide(new.unrealized) - (price - row.avg) * row.net) <= Abs(row.net) + Scale
  <2> DEFINE net == row.net
             avg == row.avg
             drift == Abs(row.net)
  <2>1. net \in Int /\ avg \in Int /\ cost \in Int /\ price \in Int /\ drift \in Nat
    BY <1>1, <1>3
  <2>2. Sign(net) * cost \in Int /\ 2 * Abs(avg * net - Sign(net) * cost) <= drift
    BY <1>4, <1>5
  <2> HIDE DEF net, avg, drift
  <2>3. 2 * Abs(Wide(Stored(UnrealizedPnl(net, cost, price))) - (price - avg) * net)
            <= drift + Scale
    BY <2>1, <2>2, StoredProfit
  <2> QED
    BY <1>2, <2>3 DEF net, avg, drift
<1> QED
  BY <1>2, <1>6 DEF ProfitIsThatOfMark, new

LEMMA ApplyExecutionMarks ==
    ASSUME PositionsTypeOK, PositionsAreMarkedToMarket,
           NEW account \in Accounts, NEW symbol \in Symbols, NEW side,
           NEW quantity \in Nat \ {0}, NEW price \in Nat \ {0},
           ApplyExecution(account, symbol, side, quantity, price)
    PROVE  PositionsAreMarkedToMarket'
<1> DEFINE mark == IF symbol \in DOMAIN marketPrices THEN marketPrices[symbol].price ELSE price
           key  == <<account, symbol>>
           row  == IF key \in DOMAIN positions THEN positions[key] ELSE FlatPosition(mark)
           new  == ExecutedPosition(row, side, quantity, price, mark)
<1>1. mark \in Nat
  BY DEF PositionsTypeOK, MarketPrice
<1>2. row \in Position
  <2> HIDE DEF mark
  <2>1. FlatPosition(mark) \in Position
    BY <1>1 DEF FlatPosition, Position
  <2> QED
    BY <2>1 DEF PositionsTypeOK
<1>3. positions' = Put(positions, key, new) /\ marketPrices' = marketPrices
  BY DEF ApplyExecution
<1>4. new.mark = mark /\ ProfitIsThatOfMark(new)
  <2> HIDE DEF mark, row
  <2> QED
    BY <1>1, <1>2, ExecutedProfit
<1>5. key[2] = symbol
  OBVIOUS
<1> HIDE DEF new, key, row
<1>6. ASSUME NEW k \in DOMAIN positions'
      PROVE  /\ k[2] \in DOMAIN marketPrices => positions'[k].mark = marketPrices[k[2]].price
             /\ ProfitIsThatOfMark(positions'[k])
  <2>1. CASE k = key
    <3>1. positions'[k] = new
      BY <1>3, <2>1 DEF Put
    <3> QED
      BY <1>4, <1>5, <2>1, <3>1
  <2>2. CASE k # key
    <3>1. k \in DOMAIN positions /\ positions'[k] = positions[k]
      BY <1>3, <2>2 DEF Put
    <3> QED
      BY <3>1 DEF PositionsAreMarkedToMarket, ProfitIsThatOfMark
  <2> QED
    BY <2>1, <2>2
<1> QED
  BY <1>3, <1>6 DEF PositionsAreMarkedToMarket, ProfitIsThatOfMark

LEMMA ApplyTickMarks ==
    ASSUME PositionsTypeOK, PositionsAreMarkedToMarket,
           NEW symbol \in Symbols, NEW price \in TickPrices, NEW observedAt \in TickTimes,
           ApplyTick(symbol, price, observedAt)
    PROVE  PositionsAreMarkedToMarket'
<1> DEFINE new == [price |-> price, observedAt |-> observedAt]
<1>1. price \in Nat /\ new.price = price
  BY TickPricesAssumption
<1>2. /\ marketPrices' = Put(marketPrices, symbol, new)
      /\ positions' = [k \in DOMAIN positions |->
                          IF k[2] = symbol THEN MarkedPosition(positions[k], price)
                                           ELSE positions[k]]
  BY DEF ApplyTick, TickAccepted
<1> HIDE DEF new
<1>3. ASSUME NEW k \in DOMAIN positions'
      PROVE  /\ k[2] \in DOMAIN marketPrices' => positions'[k].mark = marketPrices'[k[2]].price
             /\ ProfitIsThatOfMark(positions'[k])
  <2>1. k \in DOMAIN positions /\ positions[k] \in Position
    BY <1>2 DEF PositionsTypeOK
  <2>2. CASE k[2] = symbol
    <3>1. positions'[k] = MarkedPosition(positions[k], price) /\ marketPrices'[k[2]] = new
      BY <1>2, <2>1, <2>2 DEF Put
    <3> QED
      BY <1>1, <2>1, <3>1, MarkedProfit
  <2>3. CASE k[2] # symbol
    <3>1. /\ positions'[k] = positions[k]
          /\ k[2] \in DOMAIN marketPrices' =>
                 k[2] \in DOMAIN marketPrices /\ marketPrices'[k[2]] = marketPrices[k[2]]
      BY <1>2, <2>1, <2>3 DEF Put
    <3> QED
      BY <2>1, <3>1 DEF PositionsAreMarkedToMarket, ProfitIsThatOfMark
  <2> QED
    BY <2>2, <2>3
<1> QED
  BY <1>3 DEF PositionsAreMarkedToMarket, ProfitIsThatOfMark
=============================================================================
