---------------------------- MODULE BookTheorems ----------------------------
(* What any sequence of executions and ticks leaves in the position book:     *)
(* the net quantity, the average price and the profit, for every quantity,    *)
(* price and scale, however many executions there are.                        *)
EXTENDS PositionBook, PositionTheorems, SequenceTheorems

-----------------------------------------------------------------------------
(* One execution of one position.                                             *)

LEMMA SignOfProduct ==
    ASSUME NEW n \in Int, NEW q \in Nat \ {0}
    PROVE  /\ n * q >= 0 <=> n >= 0
           /\ n * (-q) >= 0 <=> n <= 0
           /\ n * q > 0 <=> n > 0
           /\ n * (-q) > 0 <=> n < 0
<1>1. CASE n = 0
  BY <1>1
<1>2. CASE n > 0
  <2>1. n * q > 0 /\ n * (-q) = -(n * q) /\ n * q \in Int
    BY <1>2
  <2> QED
    BY <1>2, <2>1
<1>3. CASE n < 0
  <2> DEFINE m == -n
  <2>1. m \in Nat \ {0} /\ n = -m
    BY <1>3
  <2>2. m * q > 0 /\ m * q \in Int
    BY <2>1
  <2>3. n * q = -(m * q) /\ n * (-q) = m * q
    BY <2>1
  <2> QED
    BY <1>3, <2>2, <2>3
<1> QED
  BY <1>1, <1>2, <1>3

(* A rounded quotient stays between whole numbers that bound the dividend.    *)
LEMMA RoundDivBetween ==
    ASSUME NEW n \in Nat, NEW d \in Nat \ {0}, NEW lo \in Nat, NEW hi \in Nat,
           lo * d <= n, n <= hi * d
    PROVE  lo <= RoundDiv(n, d) /\ RoundDiv(n, d) <= hi
<1> DEFINE m == 2 * n + d
           dd == 2 * d
           q == m \div dd
<1>1. RoundDiv(n, d) = q /\ m \in Nat /\ dd \in Nat \ {0}
  BY DEF RoundDiv
<1>2. q \in Nat /\ q * dd <= m /\ m < (q + 1) * dd
  <2> HIDE DEF m, dd
  <2> DEFINE r == m % dd
             x == dd * q
  <2>1. q \in Nat /\ r \in Nat /\ m = x + r /\ r < dd
    BY <1>1
  <2> HIDE DEF q, r
  <2>2. q * dd = x /\ (q + 1) * dd = x + dd /\ x \in Nat
    BY <1>1, <2>1
  <2> HIDE DEF x
  <2> QED
    BY <1>1, <2>1, <2>2
<1> HIDE DEF q
<1>3. lo * dd = 2 * (lo * d) /\ hi * dd = 2 * (hi * d) /\ lo * d \in Nat /\ hi * d \in Nat
  BY ProductNat
<1>4. ASSUME q < lo PROVE FALSE
  <2>1. (q + 1) * dd <= lo * dd
    BY <1>1, <1>2, <1>4, ProductMonotone
  <2>2. (q + 1) * dd \in Nat
    BY <1>1, <1>2, ProductNat
  <2> QED
    BY <1>2, <1>3, <2>1, <2>2
<1>5. ASSUME hi < q PROVE FALSE
  <2>1. (hi + 1) * dd <= q * dd
    BY <1>1, <1>2, <1>5, ProductMonotone
  <2>2. (hi + 1) * dd = hi * dd + dd /\ q * dd \in Nat
    BY <1>1, <1>2, ProductNat
  <2> QED
    BY <1>2, <1>3, <2>1, <2>2
<1> QED
  BY <1>1, <1>2, <1>4, <1>5

(* An execution increases a position, reduces it, or closes it and opens the  *)
(* other side with what is left.                                              *)
Increases(row, after, s, quantity, price) ==
    /\ row.net * s >= 0
    /\ after.net # 0 /\ Abs(after.net) = Abs(row.net) + quantity
    /\ after.realized = Wide(row.realized)
    /\ after.cost = Abs(row.net) * row.avg + quantity * price

Reduces(row, after, s, quantity, price) ==
    /\ row.net * s < 0
    /\ quantity < Abs(row.net) /\ after.net # 0 /\ Abs(after.net) = Abs(row.net) - quantity
    /\ Sign(after.net) = Sign(row.net)
    /\ after.realized = Wide(row.realized) + Sign(row.net) * (price - row.avg) * quantity
    /\ after.cost = Abs(after.net) * row.avg

Reverses(row, after, s, quantity, price) ==
    /\ row.net * s < 0
    /\ Abs(row.net) <= quantity /\ Abs(after.net) = quantity - Abs(row.net)
    /\ after.realized = Wide(row.realized) + Sign(row.net) * (price - row.avg) * Abs(row.net)
    /\ after.cost = Abs(after.net) * price

LEMMA AfterFillCases ==
    ASSUME NEW row \in Position, NEW side \in {"BUY", "SELL"},
           NEW quantity \in Nat \ {0}, NEW price \in Nat \ {0},
           NEW s, s = SignedFill(side, quantity),
           NEW after, after = AfterFill(row, side, quantity, price)
    PROVE  /\ s \in Int /\ s # 0 /\ Abs(s) = quantity /\ after.net = row.net + s
           /\ \/ Increases(row, after, s, quantity, price)
              \/ Reduces(row, after, s, quantity, price)
              \/ Reverses(row, after, s, quantity, price)
<1> DEFINE n == row.net
           k == n + s
           gain == Sign(n) * (price - row.avg) * Closing(n, quantity)
<1>1. /\ n \in Int /\ row.avg \in Nat /\ row.realized \in Int
      /\ (s = quantity \/ s = -quantity) /\ s \in Int /\ s # 0 /\ k \in Int
  BY DEF Position, SignedFill
<1>2. Abs(s) = quantity
  BY <1>1 DEF Abs
<1>3. after = IF n * s >= 0
              THEN [net |-> k, realized |-> Wide(row.realized),
                    cost |-> Abs(n) * row.avg + quantity * price]
              ELSE [net |-> k, realized |-> Wide(row.realized) + gain,
                    cost |-> IF n * k > 0 THEN Abs(k) * row.avg ELSE Abs(k) * price]
  BY DEF AfterFill, IncreasedCost
<1>4. after.net = k
  BY <1>3
<1>5. CASE n * s >= 0
  <2>1. (n >= 0 /\ s = quantity) \/ (n <= 0 /\ s = -quantity)
    BY <1>1, <1>5, SignOfProduct
  <2>2. k # 0 /\ Abs(k) = Abs(n) + quantity
    BY <1>1, <2>1 DEF Abs
  <2> HIDE DEF n, k, gain
  <2>3. Increases(row, after, s, quantity, price)
    BY <1>3, <1>4, <1>5, <2>2 DEF Increases, n
  <2> QED
    BY <1>1, <1>2, <1>4, <2>3 DEF k, n
<1>6. CASE ~(n * s >= 0)
  <2>1. n * s \in Int /\ n * s < 0
    BY <1>1, <1>6
  <2>2. (n < 0 /\ s = quantity) \/ (n > 0 /\ s = -quantity)
    BY <1>1, <1>6, SignOfProduct
  <2>3. after.realized = Wide(row.realized) + gain
        /\ after.cost = IF n * k > 0 THEN Abs(k) * row.avg ELSE Abs(k) * price
    <3> HIDE DEF n, k, gain
    <3> QED
      BY <1>3, <1>6
  <2>4. CASE quantity < Abs(n)
    <3>1. Closing(n, quantity) = quantity
      BY <1>1, <2>4 DEF Closing, Least, Abs
    <3>2. k # 0 /\ Abs(k) = Abs(n) - quantity /\ Sign(k) = Sign(n)
      BY <1>1, <2>2, <2>4 DEF Abs, Sign
    <3>3. n * k > 0
      <4>1. CASE n > 0
        <5>1. k \in Nat \ {0}
          BY <1>1, <2>2, <2>4, <4>1 DEF Abs
        <5> QED
          BY <1>1, <4>1, <5>1, SignOfProduct
      <4>2. CASE n < 0
        <5>1. -k \in Nat \ {0} /\ k = -(-k)
          BY <1>1, <2>2, <2>4, <4>2 DEF Abs
        <5> DEFINE j == -k
        <5>2. j \in Nat \ {0} /\ k = -j
          BY <5>1
        <5> HIDE DEF j, k
        <5> QED
          BY <1>1, <4>2, <5>2, SignOfProduct
      <4> QED
        BY <2>2, <4>1, <4>2
    <3>4. Reduces(row, after, s, quantity, price)
      <4> HIDE DEF k
      <4> QED
        BY <1>4, <2>1, <2>3, <2>4, <3>1, <3>2, <3>3 DEF Reduces
    <3> QED
      BY <1>1, <1>2, <1>4, <3>4
  <2>5. CASE ~(quantity < Abs(n))
    <3>1. Closing(n, quantity) = Abs(n) /\ Abs(n) <= quantity
      BY <1>1, <2>5 DEF Closing, Least, Abs
    <3>2. Abs(k) = quantity - Abs(n)
      BY <1>1, <2>2, <2>5 DEF Abs
    <3>3. ~(n * k > 0)
      <4>1. CASE n > 0
        <5> DEFINE j == -k
        <5>1. j \in Nat /\ k = -j
          BY <1>1, <2>2, <2>5, <4>1 DEF Abs
        <5> HIDE DEF j, k
        <5>2. CASE j = 0
          BY <1>1, <5>1, <5>2
        <5>3. CASE j # 0
          BY <1>1, <4>1, <5>1, <5>3, SignOfProduct
        <5> QED
          BY <5>2, <5>3
      <4>2. CASE n < 0
        <5>1. k \in Nat
          BY <1>1, <2>2, <2>5, <4>2 DEF Abs
        <5> HIDE DEF k
        <5>2. CASE k = 0
          BY <1>1, <5>1, <5>2
        <5>3. CASE k # 0
          BY <1>1, <4>2, <5>1, <5>3, SignOfProduct
        <5> QED
          BY <5>2, <5>3
      <4> QED
        BY <2>2, <4>1, <4>2
    <3>4. Reverses(row, after, s, quantity, price)
      <4> HIDE DEF k
      <4> QED
        BY <1>4, <2>1, <2>3, <3>1, <3>2, <3>3 DEF Reverses
    <3> QED
      BY <1>1, <1>2, <1>4, <3>4
  <2> QED
    BY <2>4, <2>5
<1> QED
  BY <1>5, <1>6

(* The average after an execution lies between any bounds of the one before   *)
(* and of the price: it is never a price that nobody traded at or beyond.     *)
LEMMA AverageBetween ==
    ASSUME NEW row \in Position, NEW side \in {"BUY", "SELL"},
           NEW quantity \in Nat \ {0}, NEW price \in Nat \ {0}, NEW mark \in Nat,
           NEW lo \in Nat, NEW hi \in Nat, lo <= price, price <= hi,
           row.net # 0 => lo <= row.avg /\ row.avg <= hi,
           NEW new, new = ExecutedPosition(row, side, quantity, price, mark), new.net # 0
    PROVE  lo <= new.avg /\ new.avg <= hi
<1> DEFINE s == SignedFill(side, quantity)
           after == AfterFill(row, side, quantity, price)
           n == Abs(row.net)
           d == Abs(after.net)
           avg == row.avg
<1>1. /\ row.net \in Int /\ avg \in Nat /\ n \in Nat
      /\ after.net \in Int /\ after.cost \in Nat
      /\ new.net = after.net /\ new.avg = RoundDiv(after.cost, d) /\ d \in Nat \ {0}
  <2>1. row.net \in Int /\ avg \in Nat /\ after.net \in Int /\ after.cost \in Nat
    BY AfterFillType DEF Position
  <2>2. new.net = after.net
    BY DEF ExecutedPosition
  <2>3. new.avg = RoundDiv(after.cost, d)
    BY <2>2 DEF ExecutedPosition
  <2> QED
    BY <2>1, <2>2, <2>3, AbsSignType
<1>2. \/ Increases(row, after, s, quantity, price)
      \/ Reduces(row, after, s, quantity, price)
      \/ Reverses(row, after, s, quantity, price)
  <2> HIDE DEF s, after
  <2> QED
    BY AfterFillCases DEF s, after
<1> HIDE DEF s, after
<1>3. lo * d <= after.cost /\ after.cost <= hi * d
  <2>1. CASE Increases(row, after, s, quantity, price)
    <3>1. d = n + quantity /\ after.cost = n * avg + quantity * price
      BY <2>1 DEF Increases
    <3>2. quantity * lo <= quantity * price /\ quantity * price <= quantity * hi
      BY ProductMonotone
    <3>3. n * lo <= n * avg /\ n * avg <= n * hi
      <4>1. CASE row.net = 0
        <5>1. n = 0
          BY <4>1 DEF Abs
        <5> QED
          BY <1>1, <5>1
      <4>2. CASE row.net # 0
        <5>1. lo <= avg /\ avg <= hi
          BY <4>2
        <5> HIDE DEF n, avg
        <5>2. lo * n <= avg * n /\ avg * n <= hi * n
          BY <1>1, <5>1, ProductMonotone
        <5>3. lo * n = n * lo /\ avg * n = n * avg /\ hi * n = n * hi
          BY <1>1
        <5> QED
          BY <5>2, <5>3
      <4> QED
        BY <4>1, <4>2
    <3> HIDE DEF n, avg, d
    <3>4. lo * d = n * lo + quantity * lo /\ hi * d = n * hi + quantity * hi
      BY <1>1, <3>1
    <3>5. /\ n * lo \in Nat /\ quantity * lo \in Nat /\ n * hi \in Nat /\ quantity * hi \in Nat
          /\ n * avg \in Nat /\ quantity * price \in Nat
      BY <1>1, ProductNat
    <3> QED
      BY <3>1, <3>2, <3>3, <3>4, <3>5
  <2>2. CASE Reduces(row, after, s, quantity, price)
    <3>1. after.cost = d * avg /\ row.net # 0
      BY <1>1, <2>2 DEF Reduces, Abs
    <3>2. lo <= avg /\ avg <= hi
      BY <3>1
    <3> HIDE DEF avg, d
    <3>3. lo * d <= avg * d /\ avg * d <= hi * d
      BY <1>1, <3>2, ProductMonotone
    <3>4. d * avg = avg * d
      BY <1>1
    <3> QED
      BY <3>1, <3>3, <3>4
  <2>3. CASE Reverses(row, after, s, quantity, price)
    <3>1. after.cost = d * price
      BY <2>3 DEF Reverses
    <3> HIDE DEF d
    <3>2. lo * d <= price * d /\ price * d <= hi * d
      BY <1>1, ProductMonotone
    <3>3. d * price = price * d
      BY <1>1
    <3> QED
      BY <3>1, <3>2, <3>3
  <2> QED
    BY <1>2, <2>1, <2>2, <2>3
<1> QED
  <2> HIDE DEF d
  <2> QED
    BY <1>1, <1>3, RoundDivBetween

(* What an execution moves from the cost of the position to its profit, and   *)
(* what it pays: until they are rounded, profit less cost is the cash.        *)
LEMMA CashIdentity ==
    ASSUME NEW row \in Position, NEW side \in {"BUY", "SELL"},
           NEW quantity \in Nat \ {0}, NEW price \in Nat \ {0},
           NEW s, s = SignedFill(side, quantity),
           NEW after, after = AfterFill(row, side, quantity, price)
    PROVE  after.realized - Sign(after.net) * after.cost + s * price
               = Wide(row.realized) - row.net * row.avg
<1> DEFINE n == row.net
           k == after.net
           a == row.avg
           wide == Wide(row.realized)
<1>1. /\ n \in Int /\ a \in Nat /\ wide \in Int /\ s \in Int /\ k = n + s
      /\ (s = quantity \/ s = -quantity)
  <2>1. row.realized \in Int /\ Scale \in Int
    BY ScaleAssumption DEF Position
  <2> QED
    BY <2>1, AfterFillCases DEF Position, Wide, SignedFill
<1>2. \/ Increases(row, after, s, quantity, price)
      \/ Reduces(row, after, s, quantity, price)
      \/ Reverses(row, after, s, quantity, price)
  BY AfterFillCases
<1>3. CASE Increases(row, after, s, quantity, price)
  <2>1. n * s >= 0 /\ after.realized = wide /\ after.cost = Abs(n) * a + quantity * price
    BY <1>3 DEF Increases
  <2>2. (n >= 0 /\ s = quantity) \/ (n <= 0 /\ s = -quantity)
    BY <1>1, <2>1, SignOfProduct
  <2> HIDE DEF n, k, a, wide
  <2>3. CASE n >= 0 /\ s = quantity
    <3>1. Sign(k) = 1 /\ Abs(n) = n
      BY <1>1, <2>3 DEF Sign, Abs
    <3>2. n * a \in Int /\ quantity * price \in Int
      BY <1>1
    <3> QED
      BY <1>1, <2>1, <2>3, <3>1, <3>2 DEF n, k, a, wide
  <2>4. CASE n <= 0 /\ s = -quantity
    <3>1. Sign(k) = -1 /\ Abs(n) = -n
      BY <1>1, <2>4 DEF Sign, Abs
    <3>2. /\ n * a \in Int /\ quantity * price \in Int
          /\ (-n) * a = -(n * a) /\ s * price = -(quantity * price)
      BY <1>1, <2>4
    <3> QED
      BY <1>1, <2>1, <2>4, <3>1, <3>2 DEF n, k, a, wide
  <2> QED
    BY <2>2, <2>3, <2>4
<1>4. CASE Reduces(row, after, s, quantity, price)
  <2>1. /\ n * s < 0 /\ Sign(k) = Sign(n) /\ Abs(k) = Abs(n) - quantity
        /\ after.realized = wide + Sign(n) * (price - a) * quantity
        /\ after.cost = Abs(k) * a
    BY <1>4 DEF Reduces
  <2>2. (n < 0 /\ s = quantity) \/ (n > 0 /\ s = -quantity)
    BY <1>1, <2>1, SignOfProduct
  <2> HIDE DEF n, k, a, wide
  <2>3. CASE n > 0 /\ s = -quantity
    <3>1. Sign(n) = 1 /\ Abs(n) = n
      BY <1>1, <2>3 DEF Sign, Abs
    <3>2. after.realized = wide + (price - a) * quantity /\ after.cost = (n - quantity) * a
      BY <1>1, <2>1, <3>1
    <3>3. /\ (price - a) * quantity = quantity * price - quantity * a
          /\ (n - quantity) * a = n * a - quantity * a
          /\ n * a \in Int /\ quantity * price \in Int /\ quantity * a \in Int
          /\ s * price = -(quantity * price)
      BY <1>1, <2>3
    <3> QED
      BY <1>1, <2>1, <3>1, <3>2, <3>3 DEF n, k, a, wide
  <2>4. CASE n < 0 /\ s = quantity
    <3>1. Sign(n) = -1 /\ Abs(n) = -n
      BY <1>1, <2>4 DEF Sign, Abs
    <3>2. after.realized = wide - (price - a) * quantity /\ after.cost = (-n - quantity) * a
      BY <1>1, <2>1, <3>1
    <3>3. /\ (price - a) * quantity = quantity * price - quantity * a
          /\ (-n - quantity) * a = -(n * a) - quantity * a
          /\ n * a \in Int /\ quantity * price \in Int /\ quantity * a \in Int
          /\ s * price = quantity * price
      BY <1>1, <2>4
    <3> QED
      BY <1>1, <2>1, <3>1, <3>2, <3>3 DEF n, k, a, wide
  <2> QED
    BY <2>2, <2>3, <2>4
<1>5. CASE Reverses(row, after, s, quantity, price)
  <2>1. /\ n * s < 0 /\ Abs(n) <= quantity /\ Abs(k) = quantity - Abs(n)
        /\ after.realized = wide + Sign(n) * (price - a) * Abs(n)
        /\ after.cost = Abs(k) * price
    BY <1>5 DEF Reverses
  <2>2. (n < 0 /\ s = quantity) \/ (n > 0 /\ s = -quantity)
    BY <1>1, <2>1, SignOfProduct
  <2> HIDE DEF n, k, a, wide
  <2>3. CASE n > 0 /\ s = -quantity
    <3>1. Sign(n) = 1 /\ Abs(n) = n /\ k <= 0
      BY <1>1, <2>1, <2>3 DEF Sign, Abs
    <3>2. after.realized = wide + (price - a) * n /\ after.cost = (quantity - n) * price
      BY <1>1, <2>1, <3>1
    <3>3. Sign(k) * after.cost = -((quantity - n) * price)
      <4>1. CASE k = 0
        <5>1. quantity - n = 0 /\ Sign(k) = 0
          BY <1>1, <2>3, <4>1 DEF Sign
        <5> QED
          BY <3>2, <5>1
      <4>2. CASE k # 0
        <5>1. Sign(k) = -1 /\ (quantity - n) * price \in Int
          BY <1>1, <3>1, <4>2 DEF Sign
        <5> QED
          BY <3>2, <5>1
      <4> QED
        BY <4>1, <4>2
    <3>4. /\ (price - a) * n = n * price - n * a
          /\ (quantity - n) * price = quantity * price - n * price
          /\ n * a \in Int /\ quantity * price \in Int /\ n * price \in Int
          /\ s * price = -(quantity * price)
      BY <1>1, <2>3
    <3> QED
      BY <1>1, <3>2, <3>3, <3>4 DEF n, k, a, wide
  <2>4. CASE n < 0 /\ s = quantity
    <3>1. Sign(n) = -1 /\ Abs(n) = -n /\ k >= 0
      BY <1>1, <2>1, <2>4 DEF Sign, Abs
    <3>2. after.realized = wide - (price - a) * (-n) /\ after.cost = (quantity + n) * price
      BY <1>1, <2>1, <3>1
    <3>3. Sign(k) * after.cost = (quantity + n) * price
      <4>1. CASE k = 0
        <5>1. quantity + n = 0 /\ Sign(k) = 0
          BY <1>1, <2>4, <4>1 DEF Sign
        <5> QED
          BY <3>2, <5>1
      <4>2. CASE k # 0
        <5>1. Sign(k) = 1 /\ (quantity + n) * price \in Int
          BY <1>1, <3>1, <4>2 DEF Sign
        <5> QED
          BY <3>2, <5>1
      <4> QED
        BY <4>1, <4>2
    <3>4. /\ (price - a) * (-n) = -(n * price) + n * a
          /\ (quantity + n) * price = quantity * price + n * price
          /\ n * a \in Int /\ quantity * price \in Int /\ n * price \in Int
          /\ s * price = quantity * price
      BY <1>1, <2>4
    <3> QED
      BY <1>1, <3>2, <3>3, <3>4 DEF n, k, a, wide
  <2> QED
    BY <2>2, <2>3, <2>4
<1> QED
  BY <1>2, <1>3, <1>4, <1>5

(* An execution adds to the drift between the stored profit and the cash no   *)
(* more than the rounding of one average and of one profit.                   *)
Drift(row, cash) == Wide(row.realized) - row.net * row.avg + cash

Executes(row, side, quantity, price, mark, new) ==
    /\ row \in Position /\ side \in {"BUY", "SELL"} /\ quantity \in Nat \ {0}
    /\ price \in Nat \ {0} /\ mark \in Nat
    /\ new = ExecutedPosition(row, side, quantity, price, mark)

DriftsBy(row, new, s, price, cash) ==
    /\ Drift(row, cash) \in Int /\ Drift(new, cash + s * price) \in Int
    /\ new.net = row.net + s
    /\ 2 * Abs(Drift(new, cash + s * price)) <= 2 * Abs(Drift(row, cash)) + Abs(new.net) + Scale

LEMMA DriftGrows ==
    ASSUME NEW row, NEW side, NEW quantity, NEW price, NEW mark, NEW new, NEW cash \in Int,
           Executes(row, side, quantity, price, mark, new)
    PROVE  DriftsBy(row, new, SignedFill(side, quantity), price, cash)
<1> DEFINE s == SignedFill(side, quantity)
<1>0. /\ row \in Position /\ side \in {"BUY", "SELL"} /\ quantity \in Nat \ {0}
      /\ price \in Nat \ {0} /\ mark \in Nat
      /\ new = ExecutedPosition(row, side, quantity, price, mark)
      /\ s = SignedFill(side, quantity)
  BY DEF Executes
<1> HIDE DEF s
<1> USE <1>0
<1> DEFINE after == AfterFill(row, side, quantity, price)
           k == after.net
           signedCost == Sign(k) * after.cost
           held == k * new.avg
           stored == Wide(new.realized)
           old == Drift(row, cash)
           pays == s * price
<1>1. /\ row.net \in Int /\ row.avg \in Nat /\ row.realized \in Int
      /\ after.net \in Int /\ after.cost \in Nat /\ after.realized \in Int
      /\ s \in Int /\ after.net = row.net + s /\ Scale \in Nat \ {0}
  BY AfterFillType, AfterFillCases, ScaleAssumption DEF Position
<1>2. new \in Position /\ new.net = k /\ new.realized = Stored(after.realized)
  BY ExecutedPositionType DEF ExecutedPosition
<1>3. after.realized - signedCost + pays = Wide(row.realized) - row.net * row.avg
  BY CashIdentity
<1>4. stored \in Int /\ 2 * Abs(stored - after.realized) <= Scale
  <2> DEFINE w == after.realized
  <2> HIDE DEF w
  <2>1. w \in Int /\ new.realized = Stored(w)
    BY <1>1, <1>2 DEF w
  <2>2. RoundDiv(w, Scale) * Scale \in Int /\ 2 * Abs(RoundDiv(w, Scale) * Scale - w) <= Scale
    BY <1>1, <2>1, RoundDivError
  <2> QED
    BY <2>1, <2>2 DEF Stored, Wide, w
<1>5. held \in Int /\ signedCost \in Int /\ 2 * Abs(held - signedCost) <= Abs(k)
  <2>1. CASE k = 0
    <3>1. new.avg = 0 /\ Sign(k) = 0
      BY <1>2, <2>1 DEF ExecutedPosition, Sign
    <3>2. held = 0
      BY <2>1, <3>1
    <3>3. signedCost = 0
      <4> DEFINE c == after.cost
                 sign == Sign(k)
      <4>1. c \in Nat /\ sign = 0
        BY <1>1, <3>1
      <4> HIDE DEF c, sign
      <4>2. sign * c = 0
        BY <4>1
      <4> QED
        BY <4>2 DEF sign, c
    <3> HIDE DEF held, signedCost, k
    <3> QED
      BY <2>1, <3>2, <3>3 DEF Abs
  <2>2. CASE k # 0
    <3> DEFINE c == after.cost
    <3>1. new.avg = RoundDiv(c, Abs(k))
      BY <1>2, <2>2 DEF ExecutedPosition
    <3>2. c \in Nat /\ k \in Int
      BY <1>1
    <3> HIDE DEF c, k
    <3>3. /\ Sign(k) * c \in Int
          /\ 2 * Abs(RoundDiv(c, Abs(k)) * k - Sign(k) * c) <= Abs(k)
      BY <2>2, <3>2, AverageDrift
    <3>4. new.avg \in Int /\ new.avg * k = k * new.avg /\ k * new.avg \in Int
      BY <1>2, <3>2 DEF Position
    <3> QED
      BY <3>1, <3>3, <3>4 DEF c
  <2> QED
    BY <2>1, <2>2
<1>6. pays \in Int
  BY <1>1
<1>7. row.net * row.avg \in Int /\ Wide(row.realized) \in Int /\ old \in Int
  BY <1>1 DEF Wide, Drift
<1>8. old = after.realized - signedCost + pays + cash
  BY <1>1, <1>3, <1>5, <1>6, <1>7 DEF Drift
<1>9. Drift(new, cash + s * price) = stored - held + (cash + pays)
  BY <1>2 DEF Drift
<1> DEFINE next == Drift(new, cash + s * price)
           w == after.realized
<1>10. w \in Int
  BY <1>1
<1> HIDE DEF stored, held, signedCost, pays, old, next, w
<1>11. next \in Int /\ next = old + (stored - w) - (held - signedCost)
  BY <1>4, <1>5, <1>6, <1>7, <1>8, <1>9, <1>10 DEF next, w
<1>12. /\ stored - w \in Int /\ held - signedCost \in Int
       /\ 2 * Abs(stored - w) <= Scale /\ 2 * Abs(held - signedCost) <= Abs(new.net)
       /\ Abs(new.net) \in Nat
  BY <1>1, <1>2, <1>4, <1>5, <1>10, AbsSignType DEF w
<1> DEFINE x == stored - w
           y == held - signedCost
<1>13. 2 * Abs(next) <= 2 * Abs(old) + Abs(new.net) + Scale
  <2>1. x \in Int /\ y \in Int /\ next = old + x - y /\ 2 * Abs(x) <= Scale
        /\ 2 * Abs(y) <= Abs(new.net)
    BY <1>11, <1>12
  <2> DEFINE z == Abs(new.net)
  <2>2. z \in Nat
    BY <1>12
  <2> HIDE DEF x, y, z
  <2>3. 2 * Abs(y) <= z
    BY <2>1 DEF z
  <2>4. 2 * Abs(next) <= 2 * Abs(old) + z + Scale
    BY <1>1, <1>7, <1>11, <2>1, <2>2, <2>3 DEF Abs
  <2> QED
    BY <2>4 DEF z
<1>14. DriftsBy(row, new, s, price, cash)
  BY <1>1, <1>2, <1>7, <1>11, <1>13 DEF next, old, DriftsBy
<1> QED
  BY <1>14 DEF s

-----------------------------------------------------------------------------
(* The executions of one position.                                            *)
Execution == [key: Accounts \X Symbols, price: Nat \ {0}, signed: Int]

LEMMA ExecutionSums ==
    ASSUME executions \in Seq(Execution), NEW k
    PROVE  /\ IsFiniteSet(ExecutionsOf(k)) /\ ExecutionsOf(k) \subseteq 1 .. Len(executions)
           /\ SumsUp(SignedOf(k)) /\ SumsUp(TradedOf(k)) /\ SumsUp(PaidOf(k))
<1>1. /\ DOMAIN executions = 1 .. Len(executions) /\ Len(executions) \in Nat
      /\ \A i \in DOMAIN executions : executions[i] \in Execution
  OBVIOUS
<1>2. ExecutionsOf(k) \subseteq 1 .. Len(executions)
  BY <1>1 DEF ExecutionsOf
<1>3. IsFiniteSet(ExecutionsOf(k))
  <2>1. IsFiniteSet(1 .. Len(executions))
    BY <1>1, FS_Interval
  <2> QED
    BY <1>2, <2>1, FS_Subset
<1>4. ASSUME NEW i \in ExecutionsOf(k)
      PROVE  /\ executions[i].signed \in Int /\ Abs(executions[i].signed) \in Int
             /\ executions[i].signed * executions[i].price \in Int
  <2> DEFINE n == executions[i].signed
             p == executions[i].price
  <2>1. executions[i] \in Execution
    BY <1>1, <1>2
  <2>2. n \in Int /\ p \in Int
    BY <2>1 DEF Execution
  <2> HIDE DEF n, p
  <2>3. Abs(n) \in Int
    BY <2>2 DEF Abs
  <2>4. n * p \in Int
    BY <2>2
  <2> QED
    BY <2>2, <2>3, <2>4 DEF n, p
<1>5. \A f : DOMAIN f = ExecutionsOf(k) /\ (\A i \in ExecutionsOf(k) : f[i] \in Int) => SumsUp(f)
  BY <1>3 DEF SumsUp
<1>6. SumsUp(SignedOf(k))
  BY <1>4, <1>5 DEF SignedOf
<1>7. SumsUp(TradedOf(k))
  BY <1>4, <1>5 DEF TradedOf
<1>8. SumsUp(PaidOf(k))
  BY <1>4, <1>5 DEF PaidOf
<1> QED
  BY <1>2, <1>3, <1>6, <1>7, <1>8

(* An execution joins those of its own position only.                         *)
LEMMA ExecutionAdded ==
    ASSUME executions \in Seq(Execution), NEW x \in Execution,
           executions' = Append(executions, x), NEW k
    PROVE  /\ executions' \in Seq(Execution)
           /\ \A i \in DOMAIN executions : i \in DOMAIN executions' /\ executions'[i] = executions[i]
           /\ k # x.key => ExecutionsOf(k)' = ExecutionsOf(k)
           /\ k = x.key =>
                  /\ ExecutionsOf(k)' = ExecutionsOf(k) \cup {Len(executions) + 1}
                  /\ Len(executions) + 1 \notin ExecutionsOf(k)
                  /\ executions'[Len(executions) + 1] = x
<1>1. /\ executions' \in Seq(Execution)
      /\ DOMAIN executions = 1 .. Len(executions) /\ Len(executions) \in Nat
      /\ DOMAIN executions' = 1 .. Len(executions) + 1
      /\ \A i \in 1 .. Len(executions) : executions'[i] = executions[i]
      /\ executions'[Len(executions) + 1] = x
  OBVIOUS
<1> DEFINE n == Len(executions)
<1> HIDE DEF n
<1>2. 1 .. n + 1 = (1 .. n) \cup {n + 1} /\ n + 1 \notin 1 .. n
  BY <1>1 DEF n
<1> QED
  BY <1>1, <1>2 DEF ExecutionsOf, n

LEMMA SumExtended ==
    ASSUME NEW f, NEW g, NEW e, SumsUp(f), e \notin DOMAIN f, DOMAIN g = DOMAIN f \cup {e},
           \A x \in DOMAIN f : g[x] = f[x], g[e] \in Int
    PROVE  SumFunction(g) = SumFunction(f) + g[e] /\ SumFunction(f) \in Int
<1>1. IsFiniteSet(DOMAIN g)
  BY FS_AddElement DEF SumsUp
<1>2. \A x \in DOMAIN g : g[x] \in Int
  BY DEF SumsUp
<1>3. SumsUp(g)
  BY <1>1, <1>2 DEF SumsUp
<1> QED
  BY <1>3, SumAdded

(* What one more execution adds to the sums of its position.                  *)
LEMMA SumsGrow ==
    ASSUME executions \in Seq(Execution), NEW x \in Execution,
           executions' = Append(executions, x), NEW k, k = x.key
    PROVE  /\ SumFunction(SignedOf(k))' = SumFunction(SignedOf(k)) + x.signed
           /\ SumFunction(TradedOf(k))' = SumFunction(TradedOf(k)) + Abs(x.signed)
           /\ SumFunction(PaidOf(k))' = SumFunction(PaidOf(k)) + x.signed * x.price
           /\ SumFunction(SignedOf(k)) \in Int /\ SumFunction(TradedOf(k)) \in Int
           /\ SumFunction(PaidOf(k)) \in Int
           /\ Cardinality(ExecutionsOf(k))' = Cardinality(ExecutionsOf(k)) + 1
           /\ Cardinality(ExecutionsOf(k)) \in Nat
<1> DEFINE e == Len(executions) + 1
<1>1. /\ ExecutionsOf(k)' = ExecutionsOf(k) \cup {e} /\ e \notin ExecutionsOf(k)
      /\ executions'[e] = x
      /\ \A i \in DOMAIN executions : executions'[i] = executions[i]
  BY ExecutionAdded
<1>2. /\ IsFiniteSet(ExecutionsOf(k)) /\ SumsUp(SignedOf(k)) /\ SumsUp(TradedOf(k))
      /\ SumsUp(PaidOf(k))
  BY ExecutionSums
<1>3. x.signed \in Int /\ x.price \in Int
  BY DEF Execution
<1>4. Abs(x.signed) \in Int /\ x.signed * x.price \in Int
  <2> DEFINE n == x.signed
             p == x.price
  <2>1. n \in Int /\ p \in Int
    BY <1>3
  <2> HIDE DEF n, p
  <2>2. Abs(n) \in Int /\ n * p \in Int
    BY <2>1 DEF Abs
  <2> QED
    BY <2>2 DEF n, p
<1>5. \A i \in ExecutionsOf(k) : executions'[i] = executions[i]
  BY <1>1 DEF ExecutionsOf
<1> HIDE DEF e
<1>6. /\ SumFunction(SignedOf(k))' = SumFunction(SignedOf(k)) + x.signed
      /\ SumFunction(SignedOf(k)) \in Int
  <2> DEFINE f == SignedOf(k)
             g == [i \in ExecutionsOf(k)' |-> executions'[i].signed]
  <2>1. DOMAIN f = ExecutionsOf(k) /\ DOMAIN g = ExecutionsOf(k) \cup {e}
    BY <1>1 DEF SignedOf
  <2>2. \A i \in DOMAIN f : g[i] = f[i]
    BY <1>1, <1>5, <2>1 DEF SignedOf
  <2>3. g[e] = x.signed
    BY <1>1
  <2>4. SumFunction(g) = SumFunction(f) + g[e] /\ SumFunction(f) \in Int
    <3> HIDE DEF f, g
    <3> QED
      BY <1>1, <1>2, <1>3, <2>1, <2>2, <2>3, SumExtended DEF f
  <2>5. SumFunction(SignedOf(k))' = SumFunction(g)
    BY DEF SignedOf
  <2> QED
    BY <2>3, <2>4, <2>5
<1>7. /\ SumFunction(TradedOf(k))' = SumFunction(TradedOf(k)) + Abs(x.signed)
      /\ SumFunction(TradedOf(k)) \in Int
  <2> DEFINE f == TradedOf(k)
             g == [i \in ExecutionsOf(k)' |-> Abs(executions'[i].signed)]
  <2>1. DOMAIN f = ExecutionsOf(k) /\ DOMAIN g = ExecutionsOf(k) \cup {e}
    BY <1>1 DEF TradedOf
  <2>2. \A i \in DOMAIN f : g[i] = f[i]
    BY <1>1, <1>5, <2>1 DEF TradedOf
  <2>3. g[e] = Abs(x.signed)
    BY <1>1
  <2>4. SumFunction(g) = SumFunction(f) + g[e] /\ SumFunction(f) \in Int
    <3> HIDE DEF f, g
    <3> QED
      BY <1>1, <1>2, <1>4, <2>1, <2>2, <2>3, SumExtended DEF f
  <2>5. SumFunction(TradedOf(k))' = SumFunction(g)
    BY DEF TradedOf
  <2> QED
    BY <2>3, <2>4, <2>5
<1>8. /\ SumFunction(PaidOf(k))' = SumFunction(PaidOf(k)) + x.signed * x.price
      /\ SumFunction(PaidOf(k)) \in Int
  <2> DEFINE f == PaidOf(k)
             g == [i \in ExecutionsOf(k)' |-> executions'[i].signed * executions'[i].price]
  <2>1. DOMAIN f = ExecutionsOf(k) /\ DOMAIN g = ExecutionsOf(k) \cup {e}
    BY <1>1 DEF PaidOf
  <2>2. \A i \in DOMAIN f : g[i] = f[i]
    BY <1>1, <1>5, <2>1 DEF PaidOf
  <2>3. g[e] = x.signed * x.price
    BY <1>1
  <2>4. SumFunction(g) = SumFunction(f) + g[e] /\ SumFunction(f) \in Int
    <3> HIDE DEF f, g
    <3> QED
      BY <1>1, <1>2, <1>4, <2>1, <2>2, <2>3, SumExtended DEF f
  <2>5. SumFunction(PaidOf(k))' = SumFunction(g)
    BY DEF PaidOf
  <2> QED
    BY <2>3, <2>4, <2>5
<1>9. /\ Cardinality(ExecutionsOf(k))' = Cardinality(ExecutionsOf(k)) + 1
      /\ Cardinality(ExecutionsOf(k)) \in Nat
  <2>1. Cardinality(ExecutionsOf(k) \cup {e}) = Cardinality(ExecutionsOf(k)) + 1
    BY <1>1, <1>2, FS_AddElement
  <2>2. Cardinality(ExecutionsOf(k)) \in Nat
    BY <1>2, FS_CardinalityType
  <2> QED
    BY <1>1, <2>1, <2>2
<1> QED
  BY <1>6, <1>7, <1>8, <1>9
-----------------------------------------------------------------------------
(* What a position row says of its executions: the three properties, row by   *)
(* row, and that no more is held than was traded.                             *)
WithinBound(row, cash, count, traded) ==
    /\ Abs(row.net) <= traded
    /\ 2 * Abs(Drift(row, cash)) <= count * (traded + Scale)

BalancedWithCash(row, k) ==
    /\ row.net = SumFunction(SignedOf(k))
    /\ WithinBound(row, SumFunction(PaidOf(k)), Cardinality(ExecutionsOf(k)),
                   SumFunction(TradedOf(k)))

AverageWithinPrices(row, k) ==
    IF row.net = 0
    THEN row.avg = 0 /\ row.unrealized = 0
    ELSE \E i, j \in ExecutionsOf(k) :
             executions[i].price <= row.avg /\ row.avg <= executions[j].price

RowFits(row, k) ==
    BalancedWithCash(row, k) /\ AverageWithinPrices(row, k)

BookInv ==
    /\ PositionsTypeOK
    /\ executions \in Seq(Execution)
    /\ \A k \in (Accounts \X Symbols) \ DOMAIN positions : ExecutionsOf(k) = {}
    /\ \A k \in DOMAIN positions : RowFits(positions[k], k)

(* A row that does not exist yet is a flat one without executions.            *)
LEMMA FlatFits ==
    ASSUME NEW k, ExecutionsOf(k) = {}, NEW mark \in Nat
    PROVE  FlatPosition(mark) \in Position /\ RowFits(FlatPosition(mark), k)
<1> DEFINE row == FlatPosition(mark)
<1>1. row.net = 0 /\ row.avg = 0 /\ row.realized = 0 /\ row.unrealized = 0 /\ row \in Position
  BY DEF FlatPosition, Position
<1>2. /\ SumFunction(SignedOf(k)) = 0 /\ SumFunction(TradedOf(k)) = 0
      /\ SumFunction(PaidOf(k)) = 0
  <2>1. DOMAIN SignedOf(k) = {} /\ DOMAIN TradedOf(k) = {} /\ DOMAIN PaidOf(k) = {}
    BY DEF SignedOf, TradedOf, PaidOf
  <2> QED
    BY <2>1, SumEmpty
<1>3. Cardinality(ExecutionsOf(k)) = 0
  BY FS_EmptySet
<1> HIDE DEF row
<1>4. Drift(row, SumFunction(PaidOf(k))) = 0
  BY <1>1, <1>2, ScaleAssumption DEF Drift, Wide
<1>5. BalancedWithCash(row, k)
  BY <1>1, <1>2, <1>3, <1>4, ScaleAssumption DEF BalancedWithCash, WithinBound, Abs
<1>6. AverageWithinPrices(row, k)
  BY <1>1 DEF AverageWithinPrices
<1> QED
  BY <1>1, <1>5, <1>6 DEF RowFits, row

(* The bound on the drift, one execution later.                               *)
LEMMA BoundGrows ==
    ASSUME NEW c \in Nat, NEW t \in Nat, NEW u \in Nat, NEW v \in Nat,
           NEW old \in Int, NEW new \in Int,
           old <= c * (t + Scale), new <= old + v + Scale, v <= t + u
    PROVE  new <= (c + 1) * (t + u + Scale)
<1> DEFINE m == t + Scale
           n == t + u + Scale
<1>1. Scale \in Nat
  BY ScaleAssumption
<1>2. m \in Nat /\ n \in Nat /\ m <= n /\ v + Scale <= n
  BY <1>1
<1>3. old <= c * m /\ new <= old + (v + Scale) /\ v + Scale \in Nat
  BY <1>1
<1> HIDE DEF m, n
<1>4. m * c <= n * c
  BY <1>2, ProductMonotone
<1>5. c * m = m * c /\ c * n = n * c /\ c * m \in Nat /\ c * n \in Nat
  BY <1>2, ProductNat
<1>6. (c + 1) * n = c * n + n
  BY <1>2
<1>7. old <= c * n
  BY <1>3, <1>4, <1>5
<1>8. new <= c * n + n
  <2> DEFINE cn == c * n
  <2>1. cn \in Nat /\ old <= cn
    BY <1>5, <1>7
  <2> HIDE DEF cn
  <2>2. new <= cn + n
    BY <1>2, <1>3, <2>1
  <2> QED
    BY <2>2 DEF cn
<1> QED
  BY <1>6, <1>8 DEF n
LEMMA TriangleAbs ==
    ASSUME NEW a \in Int, NEW b \in Int
    PROVE  Abs(a + b) <= Abs(a) + Abs(b)
  BY DEF Abs

(* The drift of the row is within its bound after one more execution.         *)
LEMMA ExecutionBalances ==
    ASSUME NEW row, NEW side, NEW quantity, NEW price, NEW mark, NEW new,
           Executes(row, side, quantity, price, mark, new),
           NEW count \in Nat, NEW traded \in Int, NEW cash \in Int,
           WithinBound(row, cash, count, traded)
    PROVE  WithinBound(new, cash + SignedFill(side, quantity) * price, count + 1,
                       traded + Abs(SignedFill(side, quantity)))
<1> DEFINE s == SignedFill(side, quantity)
<1>0. DriftsBy(row, new, s, price, cash)
  BY DriftGrows
<1> DEFINE old == Drift(row, cash)
           next == Drift(new, cash + s * price)
           u == Abs(s)
           v == Abs(new.net)
<1>1. /\ old \in Int /\ next \in Int /\ new.net = row.net + s
      /\ 2 * Abs(next) <= 2 * Abs(old) + v + Scale
  BY <1>0 DEF DriftsBy
<1>2. /\ row.net \in Int /\ s \in Int /\ Abs(row.net) <= traded
      /\ 2 * Abs(old) <= count * (traded + Scale)
  BY DEF Position, SignedFill, Executes, WithinBound
<1> HIDE DEF s
<1>3. u \in Nat /\ v \in Nat /\ Abs(row.net) \in Nat
  BY <1>1, <1>2, AbsSignType
<1>4. traded \in Nat
  BY <1>2, <1>3
<1>5. v <= traded + u
  <2>1. v <= Abs(row.net) + u
    BY <1>1, <1>2, TriangleAbs
  <2> HIDE DEF u, v
  <2> QED
    BY <1>2, <1>3, <1>4, <2>1
<1> DEFINE b == 2 * Abs(old)
           d == 2 * Abs(next)
<1>6. b \in Int /\ d \in Int
  BY <1>1, AbsSignType
<1>7. b <= count * (traded + Scale) /\ d <= b + v + Scale
  BY <1>1, <1>2
<1> HIDE DEF old, next, u, v, b, d
<1>8. d <= (count + 1) * (traded + u + Scale)
  BY <1>3, <1>4, <1>5, <1>6, <1>7, BoundGrows
<1>9. WithinBound(new, cash + s * price, count + 1, traded + Abs(s))
  BY <1>5, <1>8 DEF u, v, d, next, WithinBound
<1> QED
  BY <1>9 DEF s

(* A flat row has no open profit.                                             *)
LEMMA FlatHasNoProfit ==
    ASSUME NEW row \in Position, NEW side \in {"BUY", "SELL"},
           NEW quantity \in Nat \ {0}, NEW price \in Nat \ {0}, NEW mark \in Nat,
           NEW new, new = ExecutedPosition(row, side, quantity, price, mark), new.net = 0
    PROVE  new.avg = 0 /\ new.unrealized = 0
<1> DEFINE after == AfterFill(row, side, quantity, price)
<1>1. after.net \in Int /\ after.cost \in Nat
  BY AfterFillType
<1>2. /\ after.net = 0 /\ new.avg = 0
      /\ new.unrealized = Stored(UnrealizedPnl(after.net, after.cost, mark))
  BY DEF ExecutedPosition
<1> HIDE DEF after
<1>3. UnrealizedPnl(0, after.cost, mark) = 0
  <2> DEFINE c == after.cost
  <2>1. c \in Nat
    BY <1>1
  <2> HIDE DEF c
  <2>2. mark * 0 = 0 /\ 0 * c = 0 /\ Sign(0) = 0
    BY <2>1 DEF Sign
  <2>3. mark * 0 - Sign(0) * c = 0
    BY <2>2
  <2> QED
    BY <2>3 DEF UnrealizedPnl, c
<1>4. Wide(0) = 0
  BY ScaleAssumption DEF Wide
<1>5. Stored(0) = 0
  BY <1>4, StoredWide
<1> QED
  BY <1>2, <1>3, <1>5

(* The row that results from an execution fits the executions with it.        *)
LEMMA ExecutionFits ==
    ASSUME executions \in Seq(Execution), NEW x \in Execution,
           executions' = Append(executions, x), NEW k, k = x.key,
           NEW row \in Position, RowFits(row, k), NEW side \in {"BUY", "SELL"},
           NEW quantity \in Nat \ {0}, NEW price \in Nat \ {0}, NEW mark \in Nat,
           x.signed = SignedFill(side, quantity), x.price = price,
           NEW new, new = ExecutedPosition(row, side, quantity, price, mark)
    PROVE  RowFits(new, k)'
<1> DEFINE s == x.signed
           cash == SumFunction(PaidOf(k))
           traded == SumFunction(TradedOf(k))
           count == Cardinality(ExecutionsOf(k))
<1>1. /\ SumFunction(SignedOf(k))' = SumFunction(SignedOf(k)) + s
      /\ SumFunction(TradedOf(k))' = traded + Abs(s)
      /\ SumFunction(PaidOf(k))' = cash + s * x.price
      /\ traded \in Int /\ cash \in Int
      /\ Cardinality(ExecutionsOf(k))' = count + 1 /\ count \in Nat
  BY SumsGrow
<1>2. row.net = SumFunction(SignedOf(k)) /\ WithinBound(row, cash, count, traded)
  BY DEF RowFits, BalancedWithCash
<1>3. s = SignedFill(side, quantity) /\ x.price = price
  OBVIOUS
<1> HIDE DEF s, cash, traded, count
<1>4. Executes(row, side, quantity, price, mark, new)
  BY DEF Executes
<1>5. WithinBound(new, cash + s * price, count + 1, traded + Abs(s))
  <2>1. WithinBound(new, cash + SignedFill(side, quantity) * price, count + 1,
                    traded + Abs(SignedFill(side, quantity)))
    BY <1>1, <1>2, <1>4, ExecutionBalances
  <2> QED
    BY <1>3, <2>1
<1>6. BalancedWithCash(new, k)'
  <2>1. new.net = row.net + s
    <3>1. DriftsBy(row, new, SignedFill(side, quantity), price, cash)
      BY <1>1, <1>4, DriftGrows
    <3> QED
      BY <1>3, <3>1 DEF DriftsBy
  <2>2. WithinBound(new, SumFunction(PaidOf(k)), Cardinality(ExecutionsOf(k)),
                    SumFunction(TradedOf(k)))'
    BY <1>1, <1>3, <1>5 DEF WithinBound, Drift
  <2> QED
    BY <1>1, <1>2, <2>1, <2>2 DEF BalancedWithCash
<1>7. AverageWithinPrices(new, k)'
  <2>1. CASE new.net = 0
    BY <2>1, FlatHasNoProfit DEF AverageWithinPrices
  <2>2. CASE new.net # 0
    <3> DEFINE e == Len(executions) + 1
    <3>1. /\ ExecutionsOf(k)' = ExecutionsOf(k) \cup {e} /\ executions'[e].price = price
          /\ \A i \in ExecutionsOf(k) : executions'[i] = executions[i]
      <4>1. \A i \in ExecutionsOf(k) : i \in DOMAIN executions
        BY DEF ExecutionsOf
      <4> QED
        BY <4>1, ExecutionAdded
    <3>2. \A i \in ExecutionsOf(k) : executions[i].price \in Nat
      <4>1. \A i \in DOMAIN executions : executions[i] \in Execution
        OBVIOUS
      <4> QED
        BY <4>1 DEF ExecutionsOf, Execution
    <3> HIDE DEF e
    <3> DEFINE P(i) == executions'[i].price
               Q(i, j) == /\ P(i) \in Nat /\ P(j) \in Nat /\ P(i) <= price /\ price <= P(j)
                          /\ row.net # 0 => P(i) <= row.avg /\ row.avg <= P(j)
    <3>3. \E i, j \in ExecutionsOf(k)' : Q(i, j)
      <4>1. e \in ExecutionsOf(k)' /\ P(e) = price
        BY <3>1
      <4>2. CASE row.net = 0
        <5>1. Q(e, e)
          BY <4>1, <4>2
        <5> HIDE DEF Q
        <5> QED
          BY <4>1, <5>1
      <4>3. CASE row.net # 0
        <5>1. PICK a \in ExecutionsOf(k), b \in ExecutionsOf(k) :
                  executions[a].price <= row.avg /\ row.avg <= executions[b].price
          BY <4>3 DEF RowFits, AverageWithinPrices
        <5>2. P(a) <= row.avg /\ row.avg <= P(b) /\ P(a) \in Nat /\ P(b) \in Nat
          BY <3>1, <3>2, <5>1
        <5>3. row.avg \in Nat /\ a \in ExecutionsOf(k)' /\ b \in ExecutionsOf(k)'
          BY <3>1, <5>1 DEF Position
        <5> HIDE DEF P
        <5>4. Q(a, b) \/ Q(e, b) \/ Q(a, e)
          BY <4>1, <5>2, <5>3
        <5> HIDE DEF Q
        <5> QED
          BY <4>1, <5>3, <5>4
      <4> QED
        BY <4>2, <4>3
    <3>4. PICK i \in ExecutionsOf(k)', j \in ExecutionsOf(k)' : Q(i, j)
      BY <3>3
    <3>5. executions'[i].price <= new.avg /\ new.avg <= executions'[j].price
      BY <2>2, <3>4, AverageBetween
    <3> QED
      BY <2>2, <3>4, <3>5 DEF AverageWithinPrices
  <2> QED
    BY <2>1, <2>2
<1> QED
  BY <1>6, <1>7 DEF RowFits
(* A row without new executions still fits, whatever its mark becomes.        *)
LEMMA FitKept ==
    ASSUME NEW k, NEW row, RowFits(row, k), ExecutionsOf(k)' = ExecutionsOf(k),
           \A i \in ExecutionsOf(k) : executions'[i] = executions[i],
           NEW new, new.net = row.net, new.avg = row.avg, new.realized = row.realized,
           row.net = 0 => new.unrealized = 0
    PROVE  RowFits(new, k)'
<1>1. SignedOf(k)' = SignedOf(k) /\ TradedOf(k)' = TradedOf(k) /\ PaidOf(k)' = PaidOf(k)
  BY DEF SignedOf, TradedOf, PaidOf
<1>2. BalancedWithCash(new, k)'
  <2>1. BalancedWithCash(row, k)
    BY DEF RowFits
  <2> QED
    BY <1>1, <2>1 DEF BalancedWithCash, WithinBound, Drift
<1>3. AverageWithinPrices(new, k)'
  <2>1. AverageWithinPrices(row, k)
    BY DEF RowFits
  <2>2. CASE row.net = 0
    BY <2>1, <2>2 DEF AverageWithinPrices
  <2>3. CASE row.net # 0
    <3>1. PICK i \in ExecutionsOf(k), j \in ExecutionsOf(k) :
              executions[i].price <= row.avg /\ row.avg <= executions[j].price
      BY <2>1, <2>3 DEF AverageWithinPrices
    <3>2. i \in ExecutionsOf(k)' /\ j \in ExecutionsOf(k)'
          /\ executions'[i].price <= new.avg /\ new.avg <= executions'[j].price
      BY <3>1
    <3> QED
      BY <2>3, <3>2 DEF AverageWithinPrices
  <2> QED
    BY <2>2, <2>3
<1> QED
  BY <1>2, <1>3 DEF RowFits

-----------------------------------------------------------------------------
(* The invariant.                                                             *)

LEMMA BookInvInit ==
    ASSUME BookSpecInit
    PROVE  BookInv
<1>1. PositionsTypeOK
  BY BookInitType DEF BookSpecInit
<1>2. executions = <<>> /\ DOMAIN positions = {}
  BY NoRowsType DEF BookSpecInit, BookInit
<1>3. executions \in Seq(Execution) /\ \A k : ExecutionsOf(k) = {}
  BY <1>2 DEF ExecutionsOf
<1> QED
  BY <1>1, <1>2, <1>3 DEF BookInv

(* One execution: its row is looked up or created, and changed; every other   *)
(* row and its executions stay.                                               *)
LEMMA ExecuteKeeps ==
    ASSUME BookInv, Execute
    PROVE  BookInv'
<1>1. PICK a \in Accounts, s \in Symbols, side \in {"BUY", "SELL"}, q \in Quantities, p \in Prices :
          /\ ApplyExecution(a, s, side, q, p)
          /\ executions' = Append(executions, [key |-> <<a, s>>, price |-> p,
                                       signed |-> IF side = "BUY" THEN q ELSE -q])
  BY DEF Execute
<1> DEFINE key == <<a, s>>
           x == [key |-> key, price |-> p, signed |-> IF side = "BUY" THEN q ELSE -q]
           mark == IF s \in DOMAIN marketPrices THEN marketPrices[s].price ELSE p
           row == IF key \in DOMAIN positions THEN positions[key] ELSE FlatPosition(mark)
           new == ExecutedPosition(row, side, q, p, mark)
<1>2. q \in Nat \ {0} /\ p \in Nat \ {0}
  BY ExecutionsAssumption
<1>3. key \in Accounts \X Symbols
  OBVIOUS
<1>4. x \in Execution /\ x.key = key /\ x.price = p /\ x.signed = SignedFill(side, q)
  BY <1>2, <1>3 DEF Execution, SignedFill
<1>5. /\ PositionsTypeOK /\ executions \in Seq(Execution)
      /\ \A k \in (Accounts \X Symbols) \ DOMAIN positions : ExecutionsOf(k) = {}
      /\ \A k \in DOMAIN positions : \E r : r = positions[k] /\ RowFits(r, k)
  BY DEF BookInv
<1>6. mark \in Nat
  BY <1>2, <1>5 DEF PositionsTypeOK, MarketPrice
<1>7. positions' = Put(positions, key, new)
  BY <1>1 DEF ApplyExecution
<1>8. executions' = Append(executions, x)
  BY <1>1
<1> HIDE DEF key, x, mark
<1>9. \E r \in Position : r = row /\ RowFits(r, key)
  <2>1. CASE key \in DOMAIN positions
    <3>1. PICK r : r = positions[key] /\ RowFits(r, key)
      BY <1>5, <2>1
    <3>2. r \in Position /\ r = row
      BY <1>5, <2>1, <3>1 DEF PositionsTypeOK
    <3> QED
      BY <3>1, <3>2
  <2>2. CASE key \notin DOMAIN positions
    <3>1. ExecutionsOf(key) = {}
      BY <1>3, <1>5, <2>2
    <3>2. FlatPosition(mark) \in Position /\ RowFits(FlatPosition(mark), key)
      BY <1>6, <3>1, FlatFits
    <3>3. row = FlatPosition(mark)
      BY <2>2
    <3> QED
      BY <3>2, <3>3
  <2> QED
    BY <2>1, <2>2
<1> HIDE DEF row
<1>10. \E n : n = new /\ RowFits(n, key)'
  <2>1. PICK r \in Position : r = row /\ RowFits(r, key)
    BY <1>9
  <2>2. PICK n : n = ExecutedPosition(r, side, q, p, mark)
    OBVIOUS
  <2>3. n = new
    BY <2>1, <2>2
  <2> HIDE DEF new
  <2>4. RowFits(n, key)'
    BY <1>2, <1>4, <1>5, <1>6, <1>8, <2>1, <2>2, ExecutionFits
  <2> QED
    BY <2>3, <2>4
<1> HIDE DEF new
<1>11. PositionsTypeOK'
  BY <1>1, <1>2, <1>5, ApplyExecutionType
<1>12. /\ executions' \in Seq(Execution)
       /\ \A i \in DOMAIN executions : i \in DOMAIN executions' /\ executions'[i] = executions[i]
       /\ \A k : k # key => ExecutionsOf(k)' = ExecutionsOf(k)
  BY <1>4, <1>5, <1>8, ExecutionAdded
<1>13. /\ DOMAIN positions' = DOMAIN positions \cup {key} /\ positions'[key] = new
       /\ \A k \in DOMAIN positions : k # key => positions'[k] = positions[k]
  BY <1>7 DEF Put
<1>14. ASSUME NEW k \in (Accounts \X Symbols) \ DOMAIN positions' PROVE ExecutionsOf(k)' = {}
  BY <1>5, <1>12, <1>13, <1>14
<1>15. ASSUME NEW k \in DOMAIN positions'
       PROVE  \E r : r = positions'[k] /\ RowFits(r, k)'
  <2>1. CASE k = key
    BY <1>10, <1>13, <2>1
  <2>2. CASE k # key
    <3>1. k \in DOMAIN positions /\ positions'[k] = positions[k]
      BY <1>13, <1>15, <2>2
    <3>2. PICK r : r = positions[k] /\ RowFits(r, k)
      BY <1>5, <3>1
    <3>3. /\ ExecutionsOf(k)' = ExecutionsOf(k)
          /\ \A i \in ExecutionsOf(k) : executions'[i] = executions[i]
      BY <1>12, <2>2 DEF ExecutionsOf
    <3>4. r.net = 0 => r.unrealized = 0
      BY <3>2 DEF RowFits, AverageWithinPrices
    <3>5. RowFits(r, k)'
      BY <3>2, <3>3, <3>4, FitKept
    <3> QED
      BY <3>1, <3>2, <3>5
  <2> QED
    BY <2>1, <2>2
<1> QED
  BY <1>11, <1>12, <1>14, <1>15 DEF BookInv
(* A tick marks rows: it leaves quantity, average and realized P&L alone, and *)
(* a flat row without profit.                                                 *)
LEMMA MarkKeeps ==
    ASSUME NEW row \in Position, NEW price \in Nat, NEW new, new = MarkedPosition(row, price)
    PROVE  /\ new.net = row.net /\ new.avg = row.avg /\ new.realized = row.realized
           /\ row.net = 0 => new.unrealized = 0
<1>1. /\ new.net = row.net /\ new.avg = row.avg /\ new.realized = row.realized
      /\ new.unrealized = Stored(UnrealizedPnl(row.net, Abs(row.net) * row.avg, price))
  BY DEF MarkedPosition, Position
<1>2. ASSUME row.net = 0 PROVE new.unrealized = 0
  <2>1. Abs(row.net) * row.avg = 0
    <3> DEFINE a == row.avg
    <3>1. a \in Nat /\ Abs(row.net) = 0
      BY <1>2 DEF Position, Abs
    <3> HIDE DEF a
    <3>2. 0 * a = 0
      BY <3>1
    <3> QED
      BY <3>1, <3>2 DEF a
  <2>2. UnrealizedPnl(0, 0, price) = 0
    BY DEF UnrealizedPnl, Sign
  <2>3. Wide(0) = 0
    BY ScaleAssumption DEF Wide
  <2>4. Stored(0) = 0
    BY <2>3, StoredWide
  <2> QED
    BY <1>1, <1>2, <2>1, <2>2, <2>4
<1> QED
  BY <1>1, <1>2

LEMMA TickKeeps ==
    ASSUME BookInv, Tick, UNCHANGED executions
    PROVE  BookInv'
<1>1. PICK s \in Symbols, p \in TickPrices, t \in TickTimes : ApplyTick(s, p, t)
  BY DEF Tick
<1>2. p \in Nat
  BY TickPricesAssumption
<1>3. /\ PositionsTypeOK /\ executions \in Seq(Execution)
      /\ \A k \in (Accounts \X Symbols) \ DOMAIN positions : ExecutionsOf(k) = {}
      /\ \A k \in DOMAIN positions : RowFits(positions[k], k)
  BY DEF BookInv
<1>4. PositionsTypeOK'
  BY <1>3, TickType
<1>5. positions' = [k \in DOMAIN positions |->
                       IF k[2] = s THEN MarkedPosition(positions[k], p) ELSE positions[k]]
  BY <1>1 DEF ApplyTick, TickAccepted
<1>6. \A k : ExecutionsOf(k)' = ExecutionsOf(k)
  BY DEF ExecutionsOf
<1>7. ASSUME NEW k \in DOMAIN positions' PROVE RowFits(positions[k], k)'
  <2>1. k \in DOMAIN positions
    BY <1>5, <1>7
  <2>2. PICK row : row = positions[k] /\ RowFits(row, k)
    BY <1>3, <2>1
  <2>3. row \in Position
    BY <1>3, <2>1, <2>2 DEF PositionsTypeOK
  <2>4. row.net = 0 => row.unrealized = 0
    BY <2>2 DEF RowFits, AverageWithinPrices
  <2>5. PICK new : new = positions'[k]
    OBVIOUS
  <2>6. /\ new.net = row.net /\ new.avg = row.avg /\ new.realized = row.realized
        /\ row.net = 0 => new.unrealized = 0
    <3>1. CASE k[2] = s
      <4>1. new = MarkedPosition(row, p)
        BY <1>5, <2>1, <2>2, <2>5, <3>1
      <4> QED
        BY <1>2, <2>3, <4>1, MarkKeeps
    <3>2. CASE k[2] # s
      BY <1>5, <2>1, <2>2, <2>4, <2>5, <3>2
    <3> QED
      BY <3>1, <3>2
  <2>7. RowFits(new, k)'
    BY <1>6, <2>2, <2>6, FitKept
  <2> QED
    BY <2>5, <2>7
<1> QED
  BY <1>3, <1>4, <1>5, <1>6, <1>7 DEF BookInv

LEMMA BookInvKept ==
    ASSUME BookInv, [BookNext]_bookSpecVars
    PROVE  BookInv'
<1>1. CASE Execute
  BY <1>1, ExecuteKeeps
<1>2. CASE Tick /\ UNCHANGED executions
  BY <1>2, TickKeeps
<1>3. CASE UNCHANGED bookSpecVars
  <2>1. /\ positions' = positions /\ marketPrices' = marketPrices /\ executions' = executions
    BY <1>3 DEF bookSpecVars, bookVars
  <2>2. PositionsTypeOK'
    BY <2>1 DEF BookInv, PositionsTypeOK
  <2>3. \A k : ExecutionsOf(k)' = ExecutionsOf(k)
    BY <2>1 DEF ExecutionsOf
  <2>4. ASSUME NEW k \in DOMAIN positions' PROVE RowFits(positions[k], k)'
    <3>1. PICK row : row = positions[k] /\ RowFits(row, k)
      BY <2>1, <2>4 DEF BookInv
    <3>2. row.net = 0 => row.unrealized = 0
      BY <3>1 DEF RowFits, AverageWithinPrices
    <3>3. RowFits(row, k)'
      BY <2>1, <2>3, <3>1, <3>2, FitKept
    <3> QED
      BY <2>1, <3>1, <3>3
  <2> QED
    BY <2>1, <2>2, <2>3, <2>4 DEF BookInv
<1> QED
  BY <1>1, <1>2, <1>3 DEF BookNext

LEMMA BookSpecInv == BookSpec => []BookInv
<1> QED
  BY BookInvInit, BookInvKept, PTL DEF BookSpec

(* The net quantity of every position is the signed sum of its executions,    *)
(* through every increase, reduction, close and reversal of                   *)
(* calculate_position_after_fill, in any order with the ticks.                *)
THEOREM NetIsTheSum == BookSpec => []NetIsSumOfExecutions
<1>1. BookInv => NetIsSumOfExecutions
  <2> SUFFICES ASSUME BookInv, NEW k \in DOMAIN positions
               PROVE  PositionsTypeOK /\ positions[k].net = SumFunction(SignedOf(k))
    BY DEF NetIsSumOfExecutions, BookInv
  <2>1. PICK row : row = positions[k] /\ RowFits(row, k)
    BY DEF BookInv
  <2> QED
    BY <2>1 DEF BookInv, RowFits, BalancedWithCash
<1> QED
  BY <1>1, BookSpecInv, PTL

(* Realized P&L less the cost of the open quantity is the cash the            *)
(* executions brought in: the weighted averages and the stored P&L of         *)
(* position_rules.py lose or make no money beyond their rounding.             *)
THEOREM ProfitAddsUp == BookSpec => []ProfitIsCashFlow
<1>1. BookInv => ProfitIsCashFlow
  <2> SUFFICES ASSUME BookInv, NEW k \in DOMAIN positions
               PROVE  2 * Abs(Wide(positions[k].realized) - positions[k].net * positions[k].avg
                                  + SumFunction(PaidOf(k)))
                          <= Cardinality(ExecutionsOf(k)) * (SumFunction(TradedOf(k)) + Scale)
    BY DEF ProfitIsCashFlow
  <2>1. PICK row : row = positions[k] /\ RowFits(row, k)
    BY DEF BookInv
  <2> QED
    BY <2>1 DEF RowFits, BalancedWithCash, WithinBound, Drift
<1> QED
  BY <1>1, BookSpecInv, PTL

(* The weighted average entry price stays within the prices of the            *)
(* executions, however often it was averaged and rounded, and a position      *)
(* that is closed has neither an average nor an open profit left.             *)
THEOREM AverageIsTraded == BookSpec => []AverageIsBetweenPrices
<1>1. BookInv => AverageIsBetweenPrices
  <2> SUFFICES ASSUME BookInv, NEW k \in DOMAIN positions
               PROVE  IF positions[k].net = 0
                      THEN positions[k].avg = 0 /\ positions[k].unrealized = 0
                      ELSE \E i, j \in ExecutionsOf(k) :
                               /\ executions[i].price <= positions[k].avg
                               /\ positions[k].avg <= executions[j].price
    BY DEF AverageIsBetweenPrices
  <2>1. PICK row : row = positions[k] /\ RowFits(row, k)
    BY DEF BookInv
  <2> QED
    BY <2>1 DEF RowFits, AverageWithinPrices
<1> QED
  BY <1>1, BookSpecInv, PTL

(* Every position of a priced symbol carries the latest accepted price and    *)
(* its profit: apply_execution and apply_tick compute it anew from the row.   *)
THEOREM BookIsMarked == BookSpec => []PositionsAreMarkedToMarket
<1>1. BookSpecInit => PositionsAreMarkedToMarket
  BY NoRowsType DEF BookSpecInit, BookInit, PositionsAreMarkedToMarket
<1>2. ASSUME BookInv, PositionsAreMarkedToMarket, [BookNext]_bookSpecVars
      PROVE  PositionsAreMarkedToMarket'
  <2>1. PositionsTypeOK
    BY <1>2 DEF BookInv
  <2>2. CASE Execute
    <3>1. PICK a \in Accounts, s \in Symbols, side \in {"BUY", "SELL"},
               q \in Quantities, p \in Prices : ApplyExecution(a, s, side, q, p)
      BY <2>2 DEF Execute
    <3>2. q \in Nat \ {0} /\ p \in Nat \ {0}
      BY ExecutionsAssumption
    <3> QED
      BY <1>2, <2>1, <3>1, <3>2, ApplyExecutionMarks
  <2>3. CASE Tick
    BY <1>2, <2>1, <2>3, ApplyTickMarks DEF Tick
  <2>4. CASE UNCHANGED bookSpecVars
    BY <1>2, <2>4 DEF bookSpecVars, bookVars, PositionsAreMarkedToMarket
  <2> QED
    BY <1>2, <2>2, <2>3, <2>4 DEF BookNext
<1> QED
  BY <1>1, <1>2, BookSpecInv, PTL DEF BookSpec

(* A market price never goes back in time, and a mark only moves to the price *)
(* that is then stored: apply_tick drops a tick older than the stored price,  *)
(* and apply_execution marks with the stored price when there is one.         *)
THEOREM PricesOnlyMoveForward == BookSpec => PricesMoveForward
<1> DEFINE Forward(s) ==
               /\ marketPrices'[s].observedAt >= marketPrices[s].observedAt
               /\ \A k \in DOMAIN positions :
                      k[2] = s /\ positions'[k].mark # positions[k].mark =>
                          positions'[k].mark = marketPrices'[s].price
<1>1. ASSUME BookInv, BookNext, NEW s \in DOMAIN marketPrices
      PROVE  Forward(s)
  <2>1. marketPrices[s] \in MarketPrice /\ PositionsTypeOK
    BY <1>1 DEF BookInv, PositionsTypeOK
  <2>2. CASE Execute
    <3>1. PICK a \in Accounts, t \in Symbols, side \in {"BUY", "SELL"},
               q \in Quantities, p \in Prices : ApplyExecution(a, t, side, q, p)
      BY <2>2 DEF Execute
    <3> DEFINE mark == IF t \in DOMAIN marketPrices THEN marketPrices[t].price ELSE p
               key == <<a, t>>
               row == IF key \in DOMAIN positions THEN positions[key] ELSE FlatPosition(mark)
               new == ExecutedPosition(row, side, q, p, mark)
    <3>2. positions' = Put(positions, key, new) /\ marketPrices' = marketPrices
      BY <3>1 DEF ApplyExecution
    <3>3. new.mark = mark
      BY DEF ExecutedPosition
    <3> HIDE DEF new, row
    <3>4. ASSUME NEW k \in DOMAIN positions, k[2] = s, positions'[k].mark # positions[k].mark
          PROVE  positions'[k].mark = marketPrices'[s].price
      <4>1. CASE k = key
        <5>1. t = s /\ positions'[k] = new
          BY <3>2, <3>4, <4>1 DEF Put
        <5> QED
          BY <1>1, <3>2, <3>3, <5>1
      <4>2. CASE k # key
        BY <3>2, <3>4, <4>2 DEF Put
      <4> QED
        BY <4>1, <4>2
    <3>5. marketPrices'[s].observedAt >= marketPrices[s].observedAt
      BY <2>1, <3>2 DEF MarketPrice
    <3> QED
      BY <3>4, <3>5
  <2>3. CASE Tick
    <3>1. PICK t \in Symbols, p \in TickPrices, o \in TickTimes : ApplyTick(t, p, o)
      BY <2>3 DEF Tick
    <3>2. /\ t \in DOMAIN marketPrices => o >= marketPrices[t].observedAt
          /\ marketPrices' = Put(marketPrices, t, [price |-> p, observedAt |-> o])
          /\ positions' = [k \in DOMAIN positions |->
                              IF k[2] = t THEN MarkedPosition(positions[k], p)
                                          ELSE positions[k]]
      BY <3>1 DEF ApplyTick, TickAccepted
    <3>3. CASE s = t
      <4>1. marketPrices'[s].price = p /\ marketPrices'[s].observedAt = o
        BY <3>2, <3>3 DEF Put
      <4>2. ASSUME NEW k \in DOMAIN positions, k[2] = s PROVE positions'[k].mark = p
        <5>1. positions'[k] = MarkedPosition(positions[k], p) /\ positions[k] \in Position
          BY <2>1, <3>2, <3>3, <4>2 DEF PositionsTypeOK
        <5> QED
          BY <5>1 DEF MarkedPosition, Position
      <4> QED
        BY <1>1, <3>2, <3>3, <4>1, <4>2
    <3>4. CASE s # t
      <4>1. marketPrices'[s] = marketPrices[s]
        BY <3>2, <3>4 DEF Put
      <4>2. \A k \in DOMAIN positions : k[2] = s => positions'[k] = positions[k]
        BY <3>2, <3>4
      <4> QED
        BY <2>1, <4>1, <4>2 DEF MarketPrice
    <3> QED
      BY <3>3, <3>4
  <2> QED
    BY <1>1, <2>2, <2>3 DEF BookNext
<1>2. ASSUME BookInv, [BookNext]_bookSpecVars
      PROVE  [\A s \in DOMAIN marketPrices : Forward(s)]_bookSpecVars
  BY <1>1, <1>2
<1> QED
  BY <1>2, BookSpecInv, PTL DEF PricesMoveForward, BookSpec

=============================================================================
