--------------------------- MODULE NumeralsProofs ---------------------------
(***************************************************************************)
(* Lemmas about numbers and numerals: induction, tables that are filled    *)
(* one entry after the other, quotients, powers, and what digits stand for.*)
(*                                                                         *)
(* Induction is stated for a set of numbers.  It rests on the library's    *)
(* theorem that a set of numbers has a least element.                      *)
(***************************************************************************)
EXTENDS Numerals, WellFoundedInduction, TLAPS

-----------------------------------------------------------------------------
(* Induction *)

\* A set of numbers has a least one.
LEMMA LeastNumber ==
    ASSUME NEW T, T \subseteq Nat, T # {}
    PROVE  \E n \in T : \A k \in T : ~(k < n)
<1>1. PICK n \in T : \A k \in T : <<k, n>> \notin OpToRel(<, Nat)
  BY WFMin, NatLessThanWellFounded, Zenon
<1>2. QED
  BY <1>1, Zenon DEF OpToRel

\* Induction over the numbers, for a set.
LEMMA Induction ==
    ASSUME NEW T, 0 \in T, \A n \in Nat : n \in T => n + 1 \in T
    PROVE  \A n \in Nat : n \in T
<1> SUFFICES ASSUME NEW m \in Nat, m \notin T
             PROVE  FALSE
  OBVIOUS
<1>1. PICK n \in Nat \ T : \A k \in Nat \ T : ~(k < n)
  BY LeastNumber
<1>2. n # 0
  OBVIOUS
<1>3. n - 1 \in Nat /\ n - 1 < n /\ n = (n - 1) + 1
  BY <1>2
<1>4. n - 1 \in T
  BY <1>1, <1>3
<1>5. QED
  BY <1>3, <1>4

\* A table that is filled entry by entry, each from the one before.
Filled(table, N, first, next) ==
    /\ table[0] = first
    /\ \A k \in 1 .. N : table[k] = next[k][table[k - 1]]

\* A table that satisfies the equation of a recursive function.
LEMMA TableExists ==
    ASSUME NEW Y, NEW N \in Nat, NEW first \in Y, NEW next \in [1 .. N -> [Y -> Y]]
    PROVE  \E table \in [0 .. N -> Y] : Filled(table, N, first, next)
<1> DEFINE T == {n \in Nat : n <= N => \E table \in [0 .. n -> Y] : Filled(table, n, first, next)}
<1>1. 0 \in T
  <2> DEFINE table == [k \in 0 .. 0 |-> first]
  <2>1. table \in [0 .. 0 -> Y] /\ Filled(table, 0, first, next)
    BY DEF Filled
  <2>2. QED
    BY <2>1
<1>2. ASSUME NEW n \in T, n + 1 <= N
      PROVE  \E table \in [0 .. n + 1 -> Y] : Filled(table, n + 1, first, next)
  <2>1. n \in Nat
    OBVIOUS
  <2>2. PICK table \in [0 .. n -> Y] : Filled(table, n, first, next)
    BY <1>2, <2>1
  <2> DEFINE last == next[n + 1][table[n]]
             longer == [k \in 0 .. n + 1 |-> IF k = n + 1 THEN last ELSE table[k]]
  <2>3. table[n] \in Y /\ n + 1 \in 1 .. N
    BY <1>2, <2>1
  <2>4. last \in Y
    BY <2>3
  <2> HIDE DEF last
  <2>5. longer \in [0 .. n + 1 -> Y]
    BY <2>1, <2>4
  <2>6. longer[0] = first
    BY <2>1, <2>2 DEF Filled
  <2>7. ASSUME NEW k \in 1 .. n + 1
        PROVE  longer[k] = next[k][longer[k - 1]]
    <3>1. CASE k = n + 1
      <4>1. longer[k] = last /\ longer[k - 1] = table[n]
        BY <2>1, <3>1
      <4>2. QED
        BY <3>1, <4>1 DEF last
    <3>2. CASE k # n + 1
      <4>1. k \in 1 .. n /\ k - 1 \in 0 .. n
        BY <2>1, <3>2
      <4>2. longer[k] = table[k] /\ longer[k - 1] = table[k - 1]
        BY <2>1, <3>2, <4>1
      <4>3. QED
        BY <2>2, <4>1, <4>2 DEF Filled
    <3>3. QED
      BY <3>1, <3>2
  <2>8. QED
    BY <2>5, <2>6, <2>7 DEF Filled
<1>3. \A n \in Nat : n \in T => n + 1 \in T
  BY <1>2
<1> HIDE DEF T
<1>4. N \in T
  BY <1>1, <1>3, Induction
<1>5. QED
  BY <1>4 DEF T

-----------------------------------------------------------------------------
(* Products and quotients *)

\* A product with a factor that is not zero is at least the other.
LEMMA ProductGrows ==
    ASSUME NEW d \in Nat, NEW c \in Nat, c >= 1
    PROVE  c * d \in Nat /\ c * d >= d
<1>1. c * d = d + (c - 1) * d
  OBVIOUS
<1>2. c - 1 \in Nat /\ (c - 1) * d \in Nat
  OBVIOUS
<1>3. QED
  BY <1>1, <1>2

\* Quotient and remainder, of a number in parts.
LEMMA QuotientIs ==
    ASSUME NEW d \in Nat, d >= 1, NEW z \in Int, NEW r \in 0 .. d - 1
    PROVE  (z * d + r) \div d = z /\ (z * d + r) % d = r
<1> DEFINE x == z * d + r
           w == x \div d
           s == x % d
<1>1. x \in Int
  OBVIOUS
<1> HIDE DEF x
<1>2. w \in Int /\ s \in 0 .. d - 1 /\ x = d * w + s
  BY <1>1
<1>3. d * w + s = z * d + r
  BY <1>2 DEF x
<1> HIDE DEF w, s
<1>4. w = z
  <2>1. CASE w > z
    <3>1. PICK c \in Nat : w = z + c /\ c >= 1
      BY <1>2, <2>1
    <3>2. d * w = z * d + c * d
      BY <3>1
    <3>3. c * d >= d /\ c * d \in Nat
      BY <3>1, ProductGrows
    <3>4. QED
      BY <1>2, <1>3, <3>2, <3>3
  <2>2. CASE w < z
    <3>1. PICK c \in Nat : z = w + c /\ c >= 1
      BY <1>2, <2>2
    <3>2. z * d = d * w + c * d
      BY <1>2, <3>1
    <3>3. c * d >= d /\ c * d \in Nat
      BY <3>1, ProductGrows
    <3>4. d * w \in Int
      BY <1>2
    <3>5. QED
      BY <1>2, <1>3, <3>2, <3>3, <3>4
  <2>3. QED
    BY <1>2, <2>1, <2>2
<1>5. s = r
  BY <1>2, <1>3, <1>4
<1>6. QED
  BY <1>4, <1>5 DEF w, s, x

\* A number in parts, of quotient and remainder.
LEMMA Divided ==
    ASSUME NEW x \in Int, NEW d \in Nat, d >= 1
    PROVE  x \div d \in Int /\ x % d \in 0 .. d - 1 /\ x = (x \div d) * d + (x % d)
<1>1. PICK w \in Int, s \in 0 .. d - 1 : w = x \div d /\ s = x % d /\ x = d * w + s
  OBVIOUS
<1>2. QED
  BY <1>1

\* A quotient of a quotient.
LEMMA DividedTwice ==
    ASSUME NEW x \in Nat, NEW q \in Nat, q >= 1, NEW b \in Nat, b >= 1
    PROVE  x \div (b * q) = (x \div q) \div b
<1>1. PICK y \in Int, r \in 0 .. q - 1 : y = x \div q /\ x = y * q + r
  BY Divided
<1>2. PICK z \in Int, s \in 0 .. b - 1 : z = y \div b /\ y = z * b + s
  BY Divided
<1>3. b * q \in Nat /\ b * q >= 1
  BY ProductGrows
<1>4. s * q + r \in 0 .. b * q - 1
  <2>1. s * q <= (b - 1) * q /\ s * q \in Nat
    OBVIOUS
  <2>2. (b - 1) * q = b * q - q
    OBVIOUS
  <2>3. QED
    BY <1>3, <2>1, <2>2
<1>5. x = z * (b * q) + (s * q + r)
  <2>1. y * q = z * (b * q) + s * q
    BY <1>2
  <2>2. z * (b * q) \in Int /\ s * q \in Int
    OBVIOUS
  <2>3. QED
    BY <1>1, <2>1, <2>2
<1>6. x \div (b * q) = z
  BY <1>3, <1>4, <1>5, QuotientIs
<1>7. QED
  BY <1>1, <1>2, <1>6

-----------------------------------------------------------------------------
(* Powers *)

Times(b, n) == [k \in 1 .. n |-> [y \in Int |-> b * y]]

PowerTable(b, n, table) ==
    table = [k \in 0 .. n |-> IF k = 0 THEN 1 ELSE b * table[k - 1]]

\* The definition of Power, with its table named.
LEMMA PowerIsChosen ==
    ASSUME NEW b, NEW n
    PROVE  Power(b, n) = (CHOOSE table : PowerTable(b, n, table))[n]
  BY Zenon DEF Power, PowerTable

\* There is that table.
LEMMA PowerIsTabled ==
    ASSUME NEW b \in Int, NEW n \in Nat
    PROVE  \E table \in [0 .. n -> Int] :
               Filled(table, n, 1, Times(b, n)) /\ Power(b, n) = table[n]
<1>1. Times(b, n) \in [1 .. n -> [Int -> Int]]
  BY DEF Times
<1>2. PICK t \in [0 .. n -> Int] : Filled(t, n, 1, Times(b, n))
  <2>1. 1 \in Int
    OBVIOUS
  <2>2. QED
    BY <1>1, <2>1, TableExists, Zenon
<1>3. \A k \in 0 .. n : t[k] = IF k = 0 THEN 1 ELSE b * t[k - 1]
  <2> SUFFICES ASSUME NEW k \in 0 .. n, k # 0
               PROVE  t[k] = b * t[k - 1]
    BY <1>2 DEF Filled
  <2>1. k \in 1 .. n /\ t[k - 1] \in Int
    OBVIOUS
  <2>2. QED
    BY <1>2, <2>1 DEF Filled, Times
<1>4. PowerTable(b, n, t)
  BY <1>3 DEF PowerTable
<1> DEFINE u == CHOOSE table : PowerTable(b, n, table)
<1>5. PowerTable(b, n, u)
  BY <1>4
<1> HIDE DEF u
<1>6. u \in [0 .. n -> Int]
  <2>1. \A k \in 0 .. n : u[k] = t[k]
    <3>1. u[0] = 1 /\ \A k \in 1 .. n : u[k] = b * u[k - 1]
      BY <1>5 DEF PowerTable
    <3> DEFINE T == {k \in Nat : k <= n => u[k] = t[k]}
    <3>2. 0 \in T
      BY <1>3, <3>1
    <3>3. \A k \in Nat : k \in T => k + 1 \in T
      <4> SUFFICES ASSUME NEW k \in Nat, k + 1 <= n, u[k] = t[k]
                   PROVE  u[k + 1] = t[k + 1]
        OBVIOUS
      <4>1. k + 1 \in 1 .. n /\ (k + 1) - 1 = k /\ k + 1 # 0
        OBVIOUS
      <4>2. u[k + 1] = b * u[k] /\ t[k + 1] = b * t[k]
        BY <1>3, <3>1, <4>1
      <4>3. QED
        BY <4>2
    <3> HIDE DEF T
    <3>4. \A k \in Nat : k \in T
      BY <3>2, <3>3, Induction
    <3>5. QED
      BY <3>4 DEF T
  <2>2. DOMAIN u = 0 .. n /\ u = [k \in 0 .. n |-> u[k]]
    BY <1>5 DEF PowerTable
  <2>3. QED
    BY <2>1, <2>2
<1>7. Filled(u, n, 1, Times(b, n))
  <2>1. u[0] = 1
    BY <1>5 DEF PowerTable
  <2>2. ASSUME NEW k \in 1 .. n
        PROVE  u[k] = Times(b, n)[k][u[k - 1]]
    <3>1. u[k - 1] \in Int
      BY <1>6
    <3>2. u[k] = b * u[k - 1]
      BY <1>5 DEF PowerTable
    <3>3. QED
      BY <3>1, <3>2 DEF Times
  <2>3. QED
    BY <2>1, <2>2 DEF Filled
<1>8. Power(b, n) = u[n]
  BY PowerIsChosen DEF u
<1>9. QED
  BY <1>6, <1>7, <1>8

\* The equations of Power.
LEMMA PowerSteps ==
    ASSUME NEW b \in Int, NEW n \in Nat
    PROVE  Power(b, n) \in Int /\ Power(b, 0) = 1 /\ Power(b, n + 1) = b * Power(b, n)
<1>1. PICK t \in [0 .. n -> Int] : Filled(t, n, 1, Times(b, n)) /\ Power(b, n) = t[n]
  BY PowerIsTabled
<1>2. PICK u \in [0 .. n + 1 -> Int] :
          Filled(u, n + 1, 1, Times(b, n + 1)) /\ Power(b, n + 1) = u[n + 1]
  <2>1. n + 1 \in Nat
    OBVIOUS
  <2>2. QED
    BY <2>1, PowerIsTabled, Zenon
<1>3. PICK z \in [0 .. 0 -> Int] : Filled(z, 0, 1, Times(b, 0)) /\ Power(b, 0) = z[0]
  <2>1. 0 \in Nat
    OBVIOUS
  <2>2. QED
    BY <2>1, PowerIsTabled, Zenon
<1>4. \A k \in 1 .. n : Times(b, n)[k] = Times(b, n + 1)[k]
  BY DEF Times
<1>5. t[n] = u[n]
  <2> DEFINE T == {k \in Nat : k <= n => t[k] = u[k]}
  <2>1. 0 \in T
    BY <1>1, <1>2 DEF Filled
  <2>2. ASSUME NEW k \in T, k + 1 <= n
        PROVE  t[k + 1] = u[k + 1]
    <3>1. k \in Nat /\ t[k] = u[k]
      BY <2>2
    <3>2. /\ k + 1 \in 1 .. n /\ k + 1 \in 1 .. n + 1 /\ (k + 1) - 1 = k
          /\ k \in 0 .. n /\ t[k] \in Int
      BY <2>2, <3>1
    <3>3. t[k + 1] = Times(b, n)[k + 1][t[k]] /\ u[k + 1] = Times(b, n + 1)[k + 1][u[k]]
      BY <1>1, <1>2, <3>2 DEF Filled
    <3>4. QED
      BY <1>4, <3>1, <3>2, <3>3
  <2>3. \A k \in Nat : k \in T => k + 1 \in T
    BY <2>2
  <2> HIDE DEF T
  <2>4. n \in T
    BY <2>1, <2>3, Induction
  <2>5. QED
    BY <2>4 DEF T
<1>6. u[n + 1] = b * u[n]
  <2>1. n + 1 \in 1 .. n + 1 /\ (n + 1) - 1 = n /\ u[n] \in Int
    OBVIOUS
  <2>2. u[n + 1] = Times(b, n + 1)[n + 1][u[n]]
    BY <1>2, <2>1 DEF Filled
  <2>3. QED
    BY <2>1, <2>2 DEF Times
<1>7. t[n] \in Int
  OBVIOUS
<1>8. QED
  BY <1>1, <1>2, <1>3, <1>5, <1>6, <1>7 DEF Filled

\* A power is at least one.
LEMMA PowerIsPositive ==
    ASSUME NEW b \in Nat, b >= 1
    PROVE  \A n \in Nat : Power(b, n) \in Nat /\ Power(b, n) >= 1
<1> DEFINE T == {n \in Nat : Power(b, n) \in Nat /\ Power(b, n) >= 1}
<1>1. 0 \in T
  BY PowerSteps
<1>2. ASSUME NEW n \in T
      PROVE  n + 1 \in T
  <2>1. PICK p \in Nat : p = Power(b, n) /\ p >= 1
    OBVIOUS
  <2>2. Power(b, n + 1) = b * p
    BY <2>1, PowerSteps
  <2>3. b * p \in Nat /\ b * p >= 1
    BY <2>1
  <2>4. QED
    BY <2>2, <2>3
<1> HIDE DEF T
<1>3. \A n \in Nat : n \in T
  BY <1>1, <1>2, Induction
<1>4. QED
  BY <1>3 DEF T

\* The power of a sum.
LEMMA PowerOfSum ==
    ASSUME NEW b \in Int, NEW m \in Nat
    PROVE  \A n \in Nat : Power(b, m + n) = Power(b, m) * Power(b, n)
<1> DEFINE T == {n \in Nat : Power(b, m + n) = Power(b, m) * Power(b, n)}
<1>1. 0 \in T
  BY PowerSteps
<1>2. ASSUME NEW n \in T
      PROVE  n + 1 \in T
  <2>1. PICK p \in Int, q \in Int : p = Power(b, m) /\ q = Power(b, n)
    BY PowerSteps
  <2>2. m + n \in Nat /\ m + (n + 1) = (m + n) + 1
    OBVIOUS
  <2>3. Power(b, m + n) = p * q
    BY <2>1
  <2>4. Power(b, (m + n) + 1) = b * (p * q)
    BY <2>2, <2>3, PowerSteps
  <2>5. Power(b, n + 1) = b * q
    BY <2>1, PowerSteps
  <2>6. b * (p * q) = p * (b * q)
    OBVIOUS
  <2>7. QED
    BY <2>1, <2>2, <2>4, <2>5, <2>6
<1> HIDE DEF T
<1>3. \A n \in Nat : n \in T
  BY <1>1, <1>2, Induction
<1>4. QED
  BY <1>3 DEF T

\* The power of a product.
LEMMA PowerOfPower ==
    ASSUME NEW b \in Int, NEW m \in Nat
    PROVE  \A n \in Nat : Power(Power(b, m), n) = Power(b, m * n)
<1> DEFINE p == Power(b, m)
           T == {n \in Nat : Power(p, n) = Power(b, m * n)}
<1>0. p \in Int
  BY PowerSteps
<1> HIDE DEF p
<1>1. 0 \in T
  <2>1. Power(p, 0) = 1 /\ Power(b, 0) = 1 /\ m * 0 = 0
    BY <1>0, PowerSteps
  <2>2. QED
    BY <2>1
<1>2. ASSUME NEW n \in T
      PROVE  n + 1 \in T
  <2>1. m * n \in Nat /\ m * (n + 1) = m + m * n
    OBVIOUS
  <2>2. Power(b, m + m * n) = p * Power(b, m * n)
    BY <2>1, PowerOfSum DEF p
  <2>3. Power(p, n + 1) = p * Power(p, n)
    BY <1>0, PowerSteps
  <2>4. QED
    BY <2>1, <2>2, <2>3
<1> HIDE DEF T
<1>3. \A n \in Nat : n \in T
  BY <1>1, <1>2, Induction
<1>4. QED
  BY <1>3 DEF T, p

-----------------------------------------------------------------------------
(* What digits stand for *)

Reads(digits, base) ==
    [k \in 1 .. Len(digits) |-> [y \in Int |-> y * base + digits[k]]]

DenotedTable(digits, base, table) ==
    table = [k \in 0 .. Len(digits) |->
                IF k = 0 THEN 0 ELSE table[k - 1] * base + digits[k]]

\* The definition of Denoted, with its table named.
LEMMA DenotedIsChosen ==
    ASSUME NEW digits, NEW base
    PROVE  Denoted(digits, base)
               = (CHOOSE table : DenotedTable(digits, base, table))[Len(digits)]
  BY Zenon DEF Denoted, DenotedTable

\* The value of the first k digits, for every k: that of all but the last of them,
\* shifted, and the last.
Accumulates(value, digits, base, n) ==
    /\ value[0] = 0
    /\ \A k \in 1 .. n : value[k] = value[k - 1] * base + digits[k]
    /\ Denoted(digits, base) = value[n]

\* There is that table.
LEMMA DenotedIsTabled ==
    ASSUME NEW digits, NEW base \in Int, NEW n \in Nat, Len(digits) = n,
           \A k \in 1 .. n : digits[k] \in Int
    PROVE  \E value \in [0 .. n -> Int] : Accumulates(value, digits, base, n)
<1> DEFINE next == Reads(digits, base)
           d == [k \in 1 .. n |-> digits[k]]
           u == CHOOSE table : DenotedTable(digits, base, table)
<1>1. next \in [1 .. n -> [Int -> Int]]
  BY DEF Reads
<1>2. \A k \in 1 .. n, y \in Int : next[k][y] = y * base + digits[k]
  BY DEF Reads
<1> HIDE DEF next
<1>3. PICK t \in [0 .. n -> Int] : Filled(t, n, 0, next)
  <2>1. 0 \in Int
    OBVIOUS
  <2>2. QED
    BY <1>1, <2>1, TableExists, Zenon
<1>4. \A k \in 1 .. n : t[k] = t[k - 1] * base + digits[k]
  <2> SUFFICES ASSUME NEW k \in 1 .. n
               PROVE  t[k] = t[k - 1] * base + digits[k]
    OBVIOUS
  <2>1. t[k - 1] \in Int
    OBVIOUS
  <2>2. QED
    BY <1>2, <1>3, <2>1 DEF Filled
<1>5. DenotedTable(digits, base, t)
  BY <1>3, <1>4 DEF DenotedTable, Filled
<1>6. DenotedTable(digits, base, u)
  BY <1>5
<1> HIDE DEF u
<1>7. u[0] = 0 /\ \A k \in 1 .. n : u[k] = u[k - 1] * base + digits[k]
  BY <1>6 DEF DenotedTable
<1>8. u \in [0 .. n -> Int]
  <2> DEFINE T == {k \in Nat : k <= n => u[k] \in Int}
  <2>1. 0 \in T
    BY <1>7
  <2>2. ASSUME NEW k \in T, k + 1 <= n
        PROVE  u[k + 1] \in Int
    <3>1. k \in Nat /\ u[k] \in Int /\ k + 1 \in 1 .. n /\ (k + 1) - 1 = k
      BY <2>2
    <3>2. u[k + 1] = u[k] * base + digits[k + 1] /\ digits[k + 1] \in Int
      BY <1>7, <3>1
    <3>3. QED
      BY <3>1, <3>2
  <2>3. \A k \in Nat : k \in T => k + 1 \in T
    BY <2>2
  <2> HIDE DEF T
  <2>4. \A k \in Nat : k \in T
    BY <2>1, <2>3, Induction
  <2>5. u = [k \in 0 .. n |-> u[k]]
    BY <1>6 DEF DenotedTable
  <2>6. QED
    BY <2>4, <2>5 DEF T
<1>9. Denoted(digits, base) = u[n]
  BY DenotedIsChosen DEF u
<1>10. QED
  BY <1>7, <1>8, <1>9 DEF Accumulates

\* Digits that are the number's own denote it.
LEMMA OwnDigitsDenote ==
    ASSUME NEW digits, NEW base \in Nat, base >= 1, NEW n \in Nat, Len(digits) = n,
           NEW x \in Nat, x < Power(base, n),
           \A k \in 1 .. n : digits[k] = (x \div Power(base, n - k)) % base
    PROVE  Denoted(digits, base) = x
<1> DEFINE W(k) == Power(base, n - k)
<1>1. \A k \in 0 .. n : W(k) \in Nat /\ W(k) >= 1
  <2> SUFFICES ASSUME NEW k \in 0 .. n
               PROVE  W(k) \in Nat /\ W(k) >= 1
    OBVIOUS
  <2>1. n - k \in Nat
    OBVIOUS
  <2>2. QED
    BY <2>1, PowerIsPositive
<1>2. \A k \in 0 .. n : k + 1 <= n => W(k) = base * W(k + 1)
  <2> SUFFICES ASSUME NEW k \in 0 .. n, k + 1 <= n
               PROVE  W(k) = base * W(k + 1)
    OBVIOUS
  <2>1. n - (k + 1) \in Nat /\ (n - (k + 1)) + 1 = n - k
    OBVIOUS
  <2>2. Power(base, (n - (k + 1)) + 1) = base * Power(base, n - (k + 1))
    BY <2>1, PowerSteps
  <2>3. QED
    BY <2>1, <2>2
<1>3. W(0) = Power(base, n) /\ W(n) = 1
  <2>1. n - 0 = n /\ n - n = 0 /\ 0 \in Nat
    OBVIOUS
  <2>2. QED
    BY <2>1, PowerSteps
<1>4. \A k \in 1 .. n : digits[k] = (x \div W(k)) % base
  OBVIOUS
<1> HIDE DEF W
<1>5. \A k \in 1 .. n : digits[k] \in Int
  <2> SUFFICES ASSUME NEW k \in 1 .. n
               PROVE  digits[k] \in Int
    OBVIOUS
  <2>1. PICK w \in Nat : w = W(k) /\ w >= 1
    BY <1>1
  <2>2. PICK q \in Int : q = x \div w
    BY <2>1, Divided
  <2>3. digits[k] = q % base
    BY <1>4, <2>1, <2>2
  <2>4. QED
    BY <2>3, Divided
<1>6. PICK value \in [0 .. n -> Int] : Accumulates(value, digits, base, n)
  <2>1. base \in Int
    OBVIOUS
  <2>2. QED
    BY <1>5, <2>1, DenotedIsTabled
<1> DEFINE T == {k \in Nat : k <= n => value[k] = x \div W(k)}
<1>7. 0 \in T
  <2>1. PICK w \in Nat : w = W(0) /\ w >= 1 /\ x < w
    BY <1>1, <1>3
  <2>2. 0 * w + x = x /\ x \in 0 .. w - 1
    BY <2>1
  <2>3. (0 * w + x) \div w = 0
    BY <2>1, <2>2, QuotientIs
  <2>4. QED
    BY <1>6, <2>1, <2>2, <2>3 DEF Accumulates
<1>8. ASSUME NEW k \in T, k + 1 <= n
      PROVE  value[k + 1] = x \div W(k + 1)
  <2>1. k \in Nat /\ value[k] = x \div W(k) /\ k + 1 \in 1 .. n /\ (k + 1) - 1 = k /\ k \in 0 .. n
    BY <1>8
  <2>2. PICK w \in Nat : w = W(k + 1) /\ w >= 1
    BY <1>1, <2>1
  <2>3. W(k) = base * w
    BY <1>2, <1>8, <2>1, <2>2
  <2>4. x \div (base * w) = (x \div w) \div base
    BY <2>2, DividedTwice
  <2>5. PICK q \in Int : q = x \div w
    BY <2>2, Divided
  <2>6. q = (q \div base) * base + (q % base)
    BY Divided
  <2>7. value[k + 1] = value[k] * base + digits[k + 1]
    BY <1>6, <2>1 DEF Accumulates
  <2>8. digits[k + 1] = q % base /\ value[k] = q \div base
    BY <1>4, <2>1, <2>2, <2>3, <2>4, <2>5
  <2>9. QED
    BY <2>2, <2>5, <2>6, <2>7, <2>8
<1>9. \A k \in Nat : k \in T => k + 1 \in T
  BY <1>8
<1> HIDE DEF T
<1>10. value[n] = x \div W(n)
  <2>1. \A k \in Nat : k \in T
    BY <1>7, <1>9, Induction
  <2>2. QED
    BY <2>1 DEF T
<1>11. x \div 1 = x
  <2>1. x * 1 + 0 = x /\ 0 \in 0 .. 1 - 1 /\ 1 \in Nat /\ 1 >= 1
    OBVIOUS
  <2>2. (x * 1 + 0) \div 1 = x
    BY <2>1, QuotientIs
  <2>3. QED
    BY <2>1, <2>2
<1>12. QED
  BY <1>3, <1>6, <1>10, <1>11 DEF Accumulates

\* A sequence of n digits, each in a set.
DigitsIn(digits, n, S) == Len(digits) = n /\ \A k \in 1 .. n : digits[k] \in S

\* There is that table for digits.
LEMMA DigitsAreTabled ==
    ASSUME NEW digits, NEW base \in Nat, NEW n \in Nat, DigitsIn(digits, n, Int)
    PROVE  \E value \in [0 .. n -> Int] : Accumulates(value, digits, base, n)
<1>1. base \in Int
  OBVIOUS
<1>2. Len(digits) = n /\ \A k \in 1 .. n : digits[k] \in Int
  BY Zenon DEF DigitsIn
<1>3. QED
  BY <1>1, <1>2, DenotedIsTabled, Zenon

\* One more digit, one more power.
LEMMA FewerDigits ==
    ASSUME NEW base \in Nat, NEW p \in Nat, NEW v \in 0 .. p - 1, NEW d \in 0 .. base - 1
    PROVE  v * base + d \in 0 .. base * p - 1
<1>1. v * base <= (p - 1) * base /\ v * base \in Nat
  OBVIOUS
<1>2. (p - 1) * base = base * p - base /\ base * p \in Nat
  OBVIOUS
<1>3. QED
  BY <1>1, <1>2

\* Digits denote less than the power of the base their number is.
LEMMA DenotedIsBelow ==
    ASSUME NEW digits, NEW base \in Nat, base >= 1, NEW n \in Nat,
           DigitsIn(digits, n, 0 .. base - 1)
    PROVE  Denoted(digits, base) \in 0 .. Power(base, n) - 1
<1>1. PICK value \in [0 .. n -> Int] : Accumulates(value, digits, base, n)
  <2>1. DigitsIn(digits, n, Int)
    BY DEF DigitsIn
  <2>2. QED
    BY <2>1, DigitsAreTabled
<1> DEFINE T == {k \in Nat : k <= n => value[k] \in 0 .. Power(base, k) - 1}
<1>2. 0 \in T
  <2>1. value[0] = 0
    BY <1>1 DEF Accumulates
  <2>2. Power(base, 0) = 1
    BY PowerSteps
  <2>3. QED
    BY <2>1, <2>2
<1>3. ASSUME NEW k \in T, k + 1 <= n
      PROVE  value[k + 1] \in 0 .. Power(base, k + 1) - 1
  <2>1. k \in Nat /\ k + 1 \in 1 .. n /\ (k + 1) - 1 = k
    BY <1>3
  <2>2. PICK p \in Nat : p = Power(base, k) /\ p >= 1
    BY <2>1, PowerIsPositive
  <2>3. Power(base, k + 1) = base * p
    BY <2>1, <2>2, PowerSteps
  <2>4. PICK v \in 0 .. p - 1 : v = value[k]
    BY <1>3, <2>1, <2>2
  <2>5. PICK d \in 0 .. base - 1 : d = digits[k + 1]
    BY <2>1 DEF DigitsIn
  <2>6. value[k + 1] = v * base + d
    BY <1>1, <2>1, <2>4, <2>5 DEF Accumulates
  <2>7. v * base + d \in 0 .. base * p - 1
    BY FewerDigits
  <2>8. QED
    BY <2>3, <2>6, <2>7, Zenon
<1>4. \A k \in Nat : k \in T => k + 1 \in T
  BY <1>3
<1> HIDE DEF T
<1>5. n \in T
  BY <1>2, <1>4, Induction
<1>6. QED
  BY <1>1, <1>5 DEF T, Accumulates

\* The digits are those in front and those behind.
InParts(digits, front, m, back, n) ==
    /\ DigitsIn(digits, m + n, Int)
    /\ Len(front) = m /\ \A k \in 1 .. m : front[k] = digits[k]
    /\ Len(back) = n /\ \A k \in 1 .. n : back[k] = digits[m + k]

\* What digits denote is put together from what their parts denote.
LEMMA DenotedInParts ==
    ASSUME NEW digits, NEW front, NEW back, NEW base \in Nat,
           NEW m \in Nat, NEW n \in Nat, InParts(digits, front, m, back, n)
    PROVE  /\ Denoted(front, base) \in Int /\ Denoted(back, base) \in Int
           /\ Denoted(digits, base) = Denoted(front, base) * Power(base, n) + Denoted(back, base)
<1>0. base \in Int /\ m + n \in Nat
  OBVIOUS
<1>1. PICK all \in [0 .. m + n -> Int] : Accumulates(all, digits, base, m + n)
  <2>1. DigitsIn(digits, m + n, Int)
    BY Zenon DEF InParts
  <2>2. QED
    BY <1>0, <2>1, DigitsAreTabled, Zenon
<1>2. DigitsIn(front, m, Int) /\ DigitsIn(back, n, Int)
  <2>1. \A k \in 1 .. m : k \in 1 .. m + n
    OBVIOUS
  <2>2. \A k \in 1 .. n : m + k \in 1 .. m + n
    OBVIOUS
  <2>3. QED
    BY <2>1, <2>2, Zenon DEF InParts, DigitsIn
<1>3. PICK first \in [0 .. m -> Int] : Accumulates(first, front, base, m)
  BY <1>2, DigitsAreTabled, Zenon
<1>4. PICK rest \in [0 .. n -> Int] : Accumulates(rest, back, base, n)
  BY <1>2, DigitsAreTabled, Zenon
<1>5. ASSUME NEW k \in Nat, k + 1 <= m
      PROVE  \E d \in Int : all[k + 1] = all[k] * base + d /\ first[k + 1] = first[k] * base + d
  <2>1. k + 1 \in 1 .. m /\ k + 1 \in 1 .. m + n /\ (k + 1) - 1 = k
    BY <1>5
  <2>2. front[k + 1] = digits[k + 1] /\ digits[k + 1] \in Int
    BY <2>1, Zenon DEF InParts, DigitsIn
  <2>3. /\ all[k + 1] = all[k] * base + digits[k + 1]
        /\ first[k + 1] = first[k] * base + front[k + 1]
    <3> DEFINE j == k + 1
    <3>1. all[j] = all[j - 1] * base + digits[j] /\ first[j] = first[j - 1] * base + front[j]
      <4> HIDE DEF j
      <4>1. j \in 1 .. m /\ j \in 1 .. m + n
        BY <2>1 DEF j
      <4>2. QED
        BY <1>1, <1>3, <4>1, Zenon DEF Accumulates
    <3>2. QED
      BY <2>1, <3>1
  <2>4. QED
    BY <2>2, <2>3
<1>6. ASSUME NEW k \in Nat, k + 1 <= n
      PROVE  \E d \in Int : /\ all[m + (k + 1)] = all[m + k] * base + d
                            /\ rest[k + 1] = rest[k] * base + d
  <2>1. k + 1 \in 1 .. n /\ m + (k + 1) \in 1 .. m + n
    BY <1>6
  <2>2. back[k + 1] = digits[m + (k + 1)] /\ digits[m + (k + 1)] \in Int
    BY <2>1, Zenon DEF InParts, DigitsIn
  <2>3. (k + 1) - 1 = k /\ (m + (k + 1)) - 1 = m + k
    OBVIOUS
  <2>4. /\ all[m + (k + 1)] = all[(m + (k + 1)) - 1] * base + digits[m + (k + 1)]
        /\ rest[k + 1] = rest[(k + 1) - 1] * base + back[k + 1]
    BY <1>1, <1>4, <2>1, Zenon DEF Accumulates
  <2>5. /\ all[m + (k + 1)] = all[m + k] * base + digits[m + (k + 1)]
        /\ rest[k + 1] = rest[k] * base + digits[m + (k + 1)]
    BY <2>2, <2>3, <2>4, Zenon
  <2>6. QED
    BY <2>2, <2>5, Zenon
<1>7. all[0] = 0 /\ first[0] = 0 /\ rest[0] = 0
  BY <1>1, <1>3, <1>4, Zenon DEF Accumulates
<1>8. /\ Denoted(digits, base) = all[m + n]
      /\ Denoted(front, base) = first[m] /\ Denoted(back, base) = rest[n]
  BY <1>1, <1>3, <1>4, Zenon DEF Accumulates
<1> DEFINE T == {k \in Nat : k <= m => all[k] = first[k]}
<1>9. 0 \in T
  BY <1>7
<1>10. \A k \in Nat : k \in T => k + 1 \in T
  <2> SUFFICES ASSUME NEW k \in Nat, k + 1 <= m, all[k] = first[k]
               PROVE  all[k + 1] = first[k + 1]
    OBVIOUS
  <2>1. QED
    BY <1>5
<1> HIDE DEF T
<1>11. m \in T
  BY <1>9, <1>10, Induction
<1>12. PICK f \in Int : f = first[m] /\ f = all[m]
  BY <1>11 DEF T
<1> DEFINE U == {k \in Nat : k <= n => all[m + k] = f * Power(base, k) + rest[k]}
<1>13. 0 \in U
  <2>1. Power(base, 0) = 1
    BY PowerSteps
  <2>2. m + 0 = m /\ f * 1 + 0 = f
    OBVIOUS
  <2>3. QED
    BY <1>7, <1>12, <2>1, <2>2
<1>14. ASSUME NEW k \in U, k + 1 <= n
       PROVE  all[m + (k + 1)] = f * Power(base, k + 1) + rest[k + 1]
  <2>1. k \in Nat /\ k <= n /\ all[m + k] = f * Power(base, k) + rest[k]
    BY <1>14
  <2>2. PICK p \in Int : p = Power(base, k)
    BY <1>0, <2>1, PowerSteps
  <2>3. Power(base, k + 1) = base * p
    BY <1>0, <2>1, <2>2, PowerSteps
  <2>4. PICK d \in Int : /\ all[m + (k + 1)] = all[m + k] * base + d
                         /\ rest[k + 1] = rest[k] * base + d
    BY <1>6, <1>14, <2>1
  <2>5. PICK r \in Int : r = rest[k]
    BY <2>1
  <2>6. (f * p + r) * base + d = f * (base * p) + (r * base + d)
    OBVIOUS
  <2>7. QED
    BY <2>1, <2>2, <2>3, <2>4, <2>5, <2>6, Zenon
<1>15. \A k \in Nat : k \in U => k + 1 \in U
  <2> SUFFICES ASSUME NEW k \in Nat, k \in U
               PROVE  k + 1 \in U
    OBVIOUS
  <2>0. k + 1 \in Nat
    OBVIOUS
  <2>1. CASE k + 1 <= n
    BY <1>14, <2>0, <2>1, Zenon
  <2>2. CASE ~(k + 1 <= n)
    BY <2>2
  <2>3. QED
    BY <2>1, <2>2
<1> HIDE DEF U
<1>16. n \in U
  BY <1>13, <1>15, Induction
<1>17. all[m + n] = f * Power(base, n) + rest[n]
  BY <1>16 DEF U
<1>18. first[m] \in Int /\ rest[n] \in Int
  OBVIOUS
<1>19. QED
  BY <1>8, <1>12, <1>17, <1>18, Zenon

\* Zeroes denote nothing.
LEMMA ZeroesDenoteNothing ==
    ASSUME NEW digits, NEW base \in Nat, NEW n \in Nat, DigitsIn(digits, n, {0})
    PROVE  Denoted(digits, base) = 0
<1>1. PICK value \in [0 .. n -> Int] : Accumulates(value, digits, base, n)
  <2>1. DigitsIn(digits, n, Int)
    BY DEF DigitsIn
  <2>2. QED
    BY <2>1, DigitsAreTabled
<1> DEFINE T == {k \in Nat : k <= n => value[k] = 0}
<1>2. 0 \in T
  BY <1>1 DEF Accumulates
<1>3. \A k \in Nat : k \in T => k + 1 \in T
  <2> SUFFICES ASSUME NEW k \in Nat, k + 1 <= n, value[k] = 0
               PROVE  value[k + 1] = 0
    OBVIOUS
  <2>1. k + 1 \in 1 .. n /\ (k + 1) - 1 = k
    OBVIOUS
  <2>2. digits[k + 1] = 0
    BY <2>1, Zenon DEF DigitsIn
  <2>3. value[k + 1] = value[k] * base + digits[k + 1]
    BY <1>1, <2>1 DEF Accumulates
  <2>4. QED
    BY <2>2, <2>3
<1> HIDE DEF T
<1>4. n \in T
  BY <1>2, <1>3, Induction
<1>5. QED
  BY <1>1, <1>4 DEF T, Accumulates
=============================================================================
