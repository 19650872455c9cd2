--------------------------- MODULE Uint256Proofs ---------------------------
(***************************************************************************)
(* Comparison, addition and subtraction of src/uint256.c are those of the  *)
(* numbers they stand for, modulo 2^256, for every size of a word; so is   *)
(* multiplication, but for a carry; a number that is read from the wire is *)
(* the one its bytes denote; the long division, whose shifts, or and bit   *)
(* count are proved on the way, is division.                               *)
(***************************************************************************)
EXTENDS Uint256, NumeralsProofs

\* The words of a half make a number smaller than the square of the word.
Square == Word * Word

-----------------------------------------------------------------------------
(* Numbers *)

\* The size of a word.
LEMMA WordIsNat == Word \in Nat /\ Word >= 2 /\ Square \in Nat /\ Square >= 2
<1>1. Half \in Nat /\ Half >= 2
  BY HalfAssumption
<1>2. Half * Half \in Nat /\ Half * Half >= 2
  BY <1>1
<1>3. Word \in Nat /\ Word >= 2
  BY <1>2 DEF Word
<1>4. Word * Word \in Nat /\ Word * Word >= 2
  BY <1>3
<1>5. QED
  BY <1>3, <1>4 DEF Square

\* The larger digit in front makes the larger number.
LEMMA DigitsOrder ==
    ASSUME NEW m \in Nat, NEW u \in Nat, NEW v \in Nat, NEW x \in 0 .. m - 1, NEW y \in 0 .. m - 1
    PROVE  u * m + x > v * m + y <=> (u > v \/ (u = v /\ x > y))
  OBVIOUS

\* The sum of two words and a carry, as it is kept in a word.
LEMMA WordSum ==
    ASSUME NEW x \in 0 .. Word - 1, NEW y \in 0 .. Word - 1, NEW k \in {0, 1}
    PROVE  /\ x + y + k < Word => (x + y + k) % Word = x + y + k
           /\ x + y + k >= Word => (x + y + k) % Word = x + y + k - Word
<1>1. Word \in Nat /\ Word >= 2
  BY WordIsNat
<1>2. PICK t \in Int : t = x + y + k
  BY <1>1
<1>3. 0 <= t /\ t < 2 * Word
  BY <1>1, <1>2
<1>4. t < Word => t % Word = t
  BY <1>1, <1>3
<1>5. t >= Word => t % Word = t - Word
  BY <1>1, <1>3
<1>6. QED
  BY <1>1, <1>2, <1>4, <1>5

\* The difference of two words and a borrow, as it is kept in a word.
LEMMA WordDifference ==
    ASSUME NEW x \in 0 .. Word - 1, NEW y \in 0 .. Word - 1, NEW k \in {0, 1}
    PROVE  /\ x - y - k >= 0 => (x - y - k) % Word = x - y - k
           /\ x - y - k < 0 => (x - y - k) % Word = x - y - k + Word
<1>1. Word \in Nat /\ Word >= 2
  BY WordIsNat
<1>2. PICK t \in Int : t = x - y - k
  BY <1>1
<1>3. 0 - Word <= t /\ t < Word
  BY <1>1, <1>2
<1>4. t >= 0 => t % Word = t
  BY <1>1, <1>3
<1>5. t < 0 => t % Word = t + Word
  BY <1>1, <1>3
<1>6. QED
  BY <1>1, <1>2, <1>4, <1>5

-----------------------------------------------------------------------------
(* 128 bits *)

\* A 128 bit number is less than the square of the word.
LEMMA Value128IsSmall ==
    ASSUME NEW a \in UInt128
    PROVE  Value128(a) \in Nat /\ Value128(a) < Square
<1> DEFINE u == a.upper
           l == a.lower
<1>1. Word \in Nat /\ Word >= 2
  BY WordIsNat
<1>2. u \in 0 .. Word - 1 /\ l \in 0 .. Word - 1
  BY DEF UInt128, Word64
<1>3. Value128(a) = u * Word + l
  BY DEF Value128
<1> HIDE DEF u, l
<1>4. u * Word <= (Word - 1) * Word
  BY <1>1, <1>2
<1>5. (Word - 1) * Word = Square - Word
  BY <1>1 DEF Square
<1>6. u * Word \in Nat
  BY <1>1, <1>2
<1>7. QED
  BY <1>1, <1>2, <1>3, <1>4, <1>5, <1>6, WordIsNat

\* gt128 compares the numbers.
LEMMA Greater128 ==
    ASSUME NEW a \in UInt128, NEW b \in UInt128
    PROVE  gt128(a, b) <=> Value128(a) > Value128(b)
<1>1. /\ a.upper \in Nat /\ b.upper \in Nat
      /\ a.lower \in 0 .. Word - 1 /\ b.lower \in 0 .. Word - 1
  BY WordIsNat DEF UInt128, Word64
<1>2. Word \in Nat
  BY WordIsNat
<1>3. Value128(a) > Value128(b)
        <=> (a.upper > b.upper \/ (a.upper = b.upper /\ a.lower > b.lower))
  BY <1>1, <1>2, DigitsOrder DEF Value128
<1>4. gt128(a, b) <=> (a.upper > b.upper \/ (a.upper = b.upper /\ a.lower > b.lower))
  BY <1>1 DEF gt128
<1>5. QED
  BY <1>3, <1>4

\* Numbers with the same value are the same.
LEMMA Same128 ==
    ASSUME NEW a \in UInt128, NEW b \in UInt128, Value128(a) = Value128(b)
    PROVE  a = b
<1>1. /\ a.upper \in Nat /\ b.upper \in Nat
      /\ a.lower \in 0 .. Word - 1 /\ b.lower \in 0 .. Word - 1
  BY WordIsNat DEF UInt128, Word64
<1>2. Word \in Nat
  BY WordIsNat
<1>3. /\ ~(a.upper > b.upper \/ (a.upper = b.upper /\ a.lower > b.lower))
      /\ ~(b.upper > a.upper \/ (b.upper = a.upper /\ b.lower > a.lower))
  BY <1>1, <1>2, DigitsOrder DEF Value128
<1>4. a.upper = b.upper /\ a.lower = b.lower
  BY <1>1, <1>3
<1>5. a = [upper |-> a.upper, lower |-> a.lower] /\ b = [upper |-> b.upper, lower |-> b.lower]
  BY DEF UInt128
<1>6. QED
  BY <1>4, <1>5, Zenon

\* add128 is addition, but for a carry of 2^128.
LEMMA Sum128IsModular ==
    ASSUME NEW a \in UInt128, NEW b \in UInt128
    PROVE  /\ add128(a, b) \in UInt128
           /\ \E c \in {0, 1} :
                  Value128(add128(a, b)) + c * Square = Value128(a) + Value128(b)
<1> DEFINE au == a.upper
           al == a.lower
           bu == b.upper
           bl == b.lower
           low == IF al + bl < Word THEN al + bl ELSE al + bl - Word
           k == IF al + bl < Word THEN 0 ELSE 1
           high == IF au + bu + k < Word THEN au + bu + k ELSE au + bu + k - Word
           c == IF au + bu + k < Word THEN 0 ELSE 1
<1>1. Word \in Nat /\ Word >= 2
  BY WordIsNat
<1>2. au \in 0 .. Word - 1 /\ bu \in 0 .. Word - 1 /\ al \in 0 .. Word - 1 /\ bl \in 0 .. Word - 1
  BY DEF UInt128, Word64
<1>3. (al + bl) % Word = low
  <2> HIDE DEF al, bl
  <2>1. al + bl + 0 = al + bl
    BY <1>1, <1>2
  <2>2. /\ al + bl + 0 < Word => (al + bl + 0) % Word = al + bl + 0
        /\ al + bl + 0 >= Word => (al + bl + 0) % Word = al + bl + 0 - Word
    BY <1>2, WordSum
  <2>3. QED
    BY <1>1, <1>2, <2>1, <2>2
<1>4. (IF low < al THEN 1 ELSE 0) = k
  BY <1>1, <1>2
<1>5. (au + bu + k) % Word = high
  <2>1. k \in {0, 1}
    OBVIOUS
  <2> HIDE DEF k, au, bu
  <2>2. /\ au + bu + k < Word => (au + bu + k) % Word = au + bu + k
        /\ au + bu + k >= Word => (au + bu + k) % Word = au + bu + k - Word
    BY <1>2, <2>1, WordSum
  <2>3. QED
    BY <1>1, <1>2, <2>1, <2>2
<1>6. add128(a, b) = [upper |-> high, lower |-> low]
  BY <1>3, <1>4, <1>5 DEF add128, Pair
<1>7. high \in 0 .. Word - 1 /\ low \in 0 .. Word - 1
  BY <1>1, <1>2
<1>8. add128(a, b) \in UInt128
  BY <1>6, <1>7 DEF UInt128, Word64
<1>9. low + k * Word = al + bl /\ high + c * Word = au + bu + k
  BY <1>1, <1>2
<1>10. k \in {0, 1} /\ c \in {0, 1}
  OBVIOUS
<1>11. Value128(add128(a, b)) = high * Word + low
  BY <1>6 DEF Value128
<1>12. Value128(a) = au * Word + al /\ Value128(b) = bu * Word + bl
  BY DEF Value128
<1> HIDE DEF au, al, bu, bl, low, high, k, c
<1>13. high * Word + c * Square = au * Word + bu * Word + k * Word
  <2>1. (high + c * Word) * Word = (au + bu + k) * Word
    BY <1>9
  <2>2. (high + c * Word) * Word = high * Word + c * Square
    BY <1>1, <1>7, <1>10 DEF Square
  <2>3. (au + bu + k) * Word = au * Word + bu * Word + k * Word
    BY <1>1, <1>2, <1>10
  <2>4. QED
    BY <2>1, <2>2, <2>3
<1>14. Value128(add128(a, b)) + c * Square = Value128(a) + Value128(b)
  <2>1. /\ high * Word \in Int /\ au * Word \in Int /\ bu * Word \in Int /\ k * Word \in Int
        /\ c * Square \in Int /\ low \in Int /\ al \in Int /\ bl \in Int
    BY <1>1, <1>2, <1>7, <1>10, WordIsNat
  <2>2. QED
    BY <1>9, <1>11, <1>12, <1>13, <2>1
<1>15. QED
  BY <1>8, <1>10, <1>14

\* minus128 is subtraction, but for a borrow of 2^128.
LEMMA Minus128IsModular ==
    ASSUME NEW a \in UInt128, NEW b \in UInt128
    PROVE  /\ minus128(a, b) \in UInt128
           /\ \E c \in {0, 1} :
                  Value128(minus128(a, b)) + Value128(b) = Value128(a) + c * Square
<1> DEFINE au == a.upper
           al == a.lower
           bu == b.upper
           bl == b.lower
           low == IF al - bl >= 0 THEN al - bl ELSE al - bl + Word
           k == IF al - bl >= 0 THEN 0 ELSE 1
           high == IF au - bu - k >= 0 THEN au - bu - k ELSE au - bu - k + Word
           c == IF au - bu - k >= 0 THEN 0 ELSE 1
<1>1. Word \in Nat /\ Word >= 2
  BY WordIsNat
<1>2. au \in 0 .. Word - 1 /\ bu \in 0 .. Word - 1 /\ al \in 0 .. Word - 1 /\ bl \in 0 .. Word - 1
  BY DEF UInt128, Word64
<1>3. (al - bl) % Word = low
  <2> HIDE DEF al, bl
  <2>1. al - bl - 0 = al - bl
    BY <1>1, <1>2
  <2>2. /\ al - bl - 0 >= 0 => (al - bl - 0) % Word = al - bl - 0
        /\ al - bl - 0 < 0 => (al - bl - 0) % Word = al - bl - 0 + Word
    BY <1>2, WordDifference
  <2>3. QED
    BY <1>1, <1>2, <2>1, <2>2
<1>4. (IF low > al THEN 1 ELSE 0) = k
  BY <1>1, <1>2
<1>5. (au - bu - k) % Word = high
  <2>1. k \in {0, 1}
    OBVIOUS
  <2> HIDE DEF k, au, bu
  <2>2. /\ au - bu - k >= 0 => (au - bu - k) % Word = au - bu - k
        /\ au - bu - k < 0 => (au - bu - k) % Word = au - bu - k + Word
    BY <1>2, <2>1, WordDifference
  <2>3. QED
    BY <1>1, <1>2, <2>1, <2>2
<1>6. minus128(a, b) = [upper |-> high, lower |-> low]
  BY <1>3, <1>4, <1>5 DEF minus128, Pair
<1>7. high \in 0 .. Word - 1 /\ low \in 0 .. Word - 1
  BY <1>1, <1>2
<1>8. minus128(a, b) \in UInt128
  BY <1>6, <1>7 DEF UInt128, Word64
<1>9. low + bl = al + k * Word /\ high + bu + k = au + c * Word
  BY <1>1, <1>2
<1>10. k \in {0, 1} /\ c \in {0, 1}
  OBVIOUS
<1>11. Value128(minus128(a, b)) = high * Word + low
  BY <1>6 DEF Value128
<1>12. Value128(a) = au * Word + al /\ Value128(b) = bu * Word + bl
  BY DEF Value128
<1> HIDE DEF au, al, bu, bl, low, high, k, c
<1>13. high * Word + bu * Word + k * Word = au * Word + c * Square
  <2>1. (high + bu + k) * Word = (au + c * Word) * Word
    BY <1>9
  <2>2. (au + c * Word) * Word = au * Word + c * Square
    BY <1>1, <1>2, <1>10 DEF Square
  <2>3. (high + bu + k) * Word = high * Word + bu * Word + k * Word
    BY <1>1, <1>2, <1>7, <1>10
  <2>4. QED
    BY <2>1, <2>2, <2>3
<1>14. Value128(minus128(a, b)) + Value128(b) = Value128(a) + c * Square
  <2>1. /\ high * Word \in Int /\ au * Word \in Int /\ bu * Word \in Int /\ k * Word \in Int
        /\ c * Square \in Int /\ low \in Int /\ al \in Int /\ bl \in Int
    BY <1>1, <1>2, <1>7, <1>10, WordIsNat
  <2>2. QED
    BY <1>9, <1>11, <1>12, <1>13, <2>1
<1>15. QED
  BY <1>8, <1>10, <1>14

-----------------------------------------------------------------------------
(* 256 bits *)

\* The same place, one digit further to the left: a number of upper and lower halves
\* that are too large, and how often it wraps.
LEMMA Carried ==
    ASSUME NEW S \in Nat, NEW h \in Int, NEW l \in Int, NEW u \in Int, NEW v \in Int,
           NEW k \in Int, NEW c \in Int,
           l + k * S = v, h + c * S = u + k
    PROVE  h * S + l + c * (S * S) = u * S + v
<1>1. (h + c * S) * S = (u + k) * S
  OBVIOUS
<1>2. (h + c * S) * S = h * S + c * (S * S) /\ (u + k) * S = u * S + k * S
  OBVIOUS
<1>3. h * S \in Int /\ c * (S * S) \in Int /\ u * S \in Int /\ k * S \in Int
  OBVIOUS
<1>4. QED
  BY <1>1, <1>2, <1>3

\* A number that wraps up to twice, in either direction, is what remains modulo m.
LEMMA Remainder ==
    ASSUME NEW m \in Nat, NEW x \in Int, NEW s \in Int, NEW c \in {-2, -1, 0, 1, 2},
           0 <= x, x < m, x + c * m = s
    PROVE  s % m = x
  OBVIOUS

\* A 256 bit number is less than the fourth power of the word.
LEMMA Value256IsSmall ==
    ASSUME NEW a \in UInt256
    PROVE  Value256(a) \in Nat /\ Value256(a) < Square * Square
<1> DEFINE u == Value128(a.upper)
           l == Value128(a.lower)
<1>1. a.upper \in UInt128 /\ a.lower \in UInt128
  BY DEF UInt256
<1>2. u \in 0 .. Square - 1 /\ l \in 0 .. Square - 1
  BY <1>1, Value128IsSmall, WordIsNat
<1>3. Value256(a) = u * Square + l
  BY DEF Value256, Square
<1>4. Square \in Nat
  BY WordIsNat
<1> HIDE DEF u, l
<1>5. u * Square <= (Square - 1) * Square
  BY <1>2, <1>4
<1>6. (Square - 1) * Square = Square * Square - Square
  BY <1>4
<1>7. u * Square \in Nat /\ Square * Square \in Nat
  BY <1>2, <1>4
<1>8. QED
  BY <1>2, <1>3, <1>4, <1>5, <1>6, <1>7

\* uint256.c, gt256: one 256 bit number is greater than another if what it stands for is.
THEOREM GreaterIsGreater ==
    ASSUME NEW a \in UInt256, NEW b \in UInt256
    PROVE  gt256(a, b) <=> Value256(a) > Value256(b)
<1> DEFINE au == Value128(a.upper)
           al == Value128(a.lower)
           bu == Value128(b.upper)
           bl == Value128(b.lower)
<1>1. /\ a.upper \in UInt128 /\ a.lower \in UInt128
      /\ b.upper \in UInt128 /\ b.lower \in UInt128
  BY DEF UInt256
<1>2. /\ au \in 0 .. Square - 1 /\ al \in 0 .. Square - 1
      /\ bu \in 0 .. Square - 1 /\ bl \in 0 .. Square - 1
  BY <1>1, Value128IsSmall, WordIsNat
<1>3. Square \in Nat
  BY WordIsNat
<1>4. Value256(a) = au * Square + al /\ Value256(b) = bu * Square + bl
  BY DEF Value256, Square
<1>5. gt128(a.upper, b.upper) <=> au > bu
  BY <1>1, Greater128
<1>6. gt128(a.lower, b.lower) <=> al > bl
  BY <1>1, Greater128
<1>7. a.upper = b.upper <=> au = bu
  <2>1. au = bu => a.upper = b.upper
    BY <1>1, Same128
  <2>2. a.upper = b.upper => au = bu
    OBVIOUS
  <2>3. QED
    BY <2>1, <2>2
<1>8. gt256(a, b) <=> (au > bu \/ (au = bu /\ al > bl))
  <2>1. CASE a.upper = b.upper
    <3>1. gt256(a, b) <=> al > bl
      BY <1>6, <2>1 DEF gt256
    <3> HIDE DEF au, al, bu, bl
    <3>2. QED
      BY <1>2, <1>3, <1>7, <2>1, <3>1
  <2>2. CASE a.upper # b.upper
    <3>1. gt256(a, b) <=> au > bu
      BY <1>5, <2>2 DEF gt256
    <3> HIDE DEF au, al, bu, bl
    <3>2. QED
      BY <1>2, <1>3, <1>7, <2>2, <3>1
  <2>3. QED
    BY <2>1, <2>2
<1> HIDE DEF au, al, bu, bl
<1>9. au * Square + al > bu * Square + bl <=> (au > bu \/ (au = bu /\ al > bl))
  <2>1. au \in Nat /\ bu \in Nat
    BY <1>2, <1>3
  <2>2. QED
    BY <1>2, <1>3, <2>1, DigitsOrder
<1>10. QED
  BY <1>4, <1>8, <1>9

\* The carry.
LEMMA OneIsOne == One128 \in UInt128 /\ Value128(One128) = 1
<1>1. Word \in Nat /\ Word >= 2
  BY WordIsNat
<1>2. One128 = [upper |-> 0, lower |-> 1]
  BY DEF One128, Pair
<1>3. One128 \in UInt128
  BY <1>1, <1>2 DEF UInt128, Word64
<1>4. Value128(One128) = 0 * Word + 1
  BY <1>2 DEF Value128
<1>5. QED
  BY <1>1, <1>3, <1>4

\* uint256.c, add256: the sum of two 256 bit numbers, modulo 2^256.
THEOREM SumIsModular ==
    ASSUME NEW a \in UInt256, NEW b \in UInt256
    PROVE  /\ add256(a, b) \in UInt256
           /\ Value256(add256(a, b)) = (Value256(a) + Value256(b)) % (Square * Square)
<1> DEFINE low  == add128(a.lower, b.lower)
           mid  == add128(a.upper, b.upper)
           carried == gt128(a.lower, low)
           high == IF carried THEN add128(mid, One128) ELSE mid
           k == IF carried THEN 1 ELSE 0
           al == Value128(a.lower)
           bl == Value128(b.lower)
           au == Value128(a.upper)
           bu == Value128(b.upper)
           l  == Value128(low)
           h  == Value128(high)
<1>1. /\ a.upper \in UInt128 /\ a.lower \in UInt128
      /\ b.upper \in UInt128 /\ b.lower \in UInt128
  BY DEF UInt256
<1>2. Square \in Nat /\ Square >= 2
  BY WordIsNat
<1>3. low \in UInt128 /\ \E c \in {0, 1} : l + c * Square = al + bl
  BY <1>1, Sum128IsModular
<1>4. mid \in UInt128 /\ \E c \in {0, 1} : Value128(mid) + c * Square = au + bu
  BY <1>1, Sum128IsModular
<1>5. /\ al \in 0 .. Square - 1 /\ bl \in 0 .. Square - 1
      /\ au \in 0 .. Square - 1 /\ bu \in 0 .. Square - 1
      /\ l \in 0 .. Square - 1 /\ Value128(mid) \in 0 .. Square - 1
  BY <1>1, <1>2, <1>3, <1>4, Value128IsSmall
<1>6. carried <=> al > l
  BY <1>1, <1>3, Greater128
<1>7. l + k * Square = al + bl
  <2>1. PICK c \in {0, 1} : l + c * Square = al + bl
    BY <1>3
  <2>2. k = IF al > l THEN 1 ELSE 0
    BY <1>6
  <2> HIDE DEF k, l, al, bl, low
  <2>3. CASE c = 0
    BY <1>2, <1>5, <2>1, <2>2, <2>3
  <2>4. CASE c = 1
    BY <1>2, <1>5, <2>1, <2>2, <2>4
  <2>5. QED
    BY <2>3, <2>4
<1>8. /\ high \in UInt128
      /\ \E c \in {0, 1} : h + c * Square = Value128(mid) + k
  <2>1. CASE carried
    <3>1. high = add128(mid, One128) /\ k = 1
      BY <2>1
    <3>2. /\ add128(mid, One128) \in UInt128
          /\ \E c \in {0, 1} : Value128(add128(mid, One128)) + c * Square
                                   = Value128(mid) + Value128(One128)
      BY <1>4, OneIsOne, Sum128IsModular
    <3>3. QED
      BY <3>1, <3>2, OneIsOne
  <2>2. CASE ~carried
    <3>1. high = mid /\ k = 0
      BY <2>2
    <3>2. h + 0 * Square = Value128(mid) + k
      BY <1>2, <1>5, <3>1
    <3>3. QED
      BY <1>4, <3>1, <3>2
  <2>3. QED
    BY <2>1, <2>2
<1>9. k \in {0, 1} /\ h \in 0 .. Square - 1
  BY <1>2, <1>8, Value128IsSmall
<1>10. add256(a, b) = [upper |-> high, lower |-> low]
  BY DEF add256, Pair
<1>11. add256(a, b) \in UInt256
  BY <1>3, <1>8, <1>10 DEF UInt256
<1>12. /\ Value256(add256(a, b)) = h * Square + l
       /\ Value256(a) = au * Square + al
       /\ Value256(b) = bu * Square + bl
  BY <1>10 DEF Value256, Square
<1>13. PICK c \in {0, 1, 2} : h + c * Square = (au + bu) + k
  <2>1. PICK c1 \in {0, 1} : Value128(mid) + c1 * Square = au + bu
    BY <1>4
  <2>2. PICK c2 \in {0, 1} : h + c2 * Square = Value128(mid) + k
    BY <1>8
  <2>3. c1 + c2 \in {0, 1, 2}
    OBVIOUS
  <2>4. (c1 + c2) * Square = c1 * Square + c2 * Square /\ c1 * Square \in Int /\ c2 * Square \in Int
    BY <1>2
  <2>5. h + (c1 + c2) * Square = (au + bu) + k
    <3> DEFINE m == Value128(mid)
    <3>1. m \in Int /\ m + c1 * Square = au + bu /\ h + c2 * Square = m + k
      BY <1>5, <2>1, <2>2
    <3> HIDE DEF h, au, bu, k, mid, high, m
    <3>2. QED
      BY <1>5, <1>9, <2>4, <3>1
  <2>6. QED
    BY <2>3, <2>5
<1> HIDE DEF low, mid, carried, high, k, al, bl, au, bu, l, h
<1>14. (h * Square + l) + c * (Square * Square) = (au + bu) * Square + (al + bl)
  <2>1. au + bu \in Int /\ al + bl \in Int /\ c \in Int /\ k \in Int /\ h \in Int /\ l \in Int
    BY <1>2, <1>5, <1>9
  <2>2. QED
    BY <1>2, <1>7, <1>13, <2>1, Carried
<1>15. (au + bu) * Square + (al + bl) = Value256(a) + Value256(b)
  <2>1. (au + bu) * Square = au * Square + bu * Square
    BY <1>2, <1>5
  <2>2. au * Square \in Int /\ bu * Square \in Int /\ al \in Int /\ bl \in Int
    BY <1>2, <1>5
  <2>3. QED
    BY <1>12, <2>1, <2>2
<1>16. Value256(add256(a, b)) \in Nat /\ Value256(add256(a, b)) < Square * Square
  BY <1>11, Value256IsSmall
<1>17. Square * Square \in Nat /\ Value256(a) + Value256(b) \in Int
  BY <1>2, Value256IsSmall
<1>18. Value256(add256(a, b)) + c * (Square * Square) = Value256(a) + Value256(b)
  BY <1>12, <1>14, <1>15
<1>19. (Value256(a) + Value256(b)) % (Square * Square) = Value256(add256(a, b))
  <2> DEFINE x == Value256(add256(a, b))
             s == Value256(a) + Value256(b)
             m == Square * Square
  <2>1. m \in Nat /\ x \in Int /\ s \in Int /\ 0 <= x /\ x < m /\ x + c * m = s
    BY <1>16, <1>17, <1>18
  <2> HIDE DEF x, s, m
  <2>2. s % m = x
    BY <2>1, Remainder
  <2>3. QED
    BY <2>2 DEF x, s, m
<1>20. QED
  BY <1>11, <1>19

\* uint256.c, minus256: the difference of two 256 bit numbers, modulo 2^256.
THEOREM DifferenceIsModular ==
    ASSUME NEW a \in UInt256, NEW b \in UInt256
    PROVE  /\ minus256(a, b) \in UInt256
           /\ Value256(minus256(a, b)) = (Value256(a) - Value256(b)) % (Square * Square)
<1> DEFINE low  == minus128(a.lower, b.lower)
           mid  == minus128(a.upper, b.upper)
           borrowed == gt128(low, a.lower)
           high == IF borrowed THEN minus128(mid, One128) ELSE mid
           k == IF borrowed THEN 1 ELSE 0
           al == Value128(a.lower)
           bl == Value128(b.lower)
           au == Value128(a.upper)
           bu == Value128(b.upper)
           l  == Value128(low)
           h  == Value128(high)
<1>1. /\ a.upper \in UInt128 /\ a.lower \in UInt128
      /\ b.upper \in UInt128 /\ b.lower \in UInt128
  BY DEF UInt256
<1>2. Square \in Nat /\ Square >= 2
  BY WordIsNat
<1>3. low \in UInt128 /\ \E c \in {0, 1} : l + bl = al + c * Square
  BY <1>1, Minus128IsModular
<1>4. mid \in UInt128 /\ \E c \in {0, 1} : Value128(mid) + bu = au + c * Square
  BY <1>1, Minus128IsModular
<1>5. /\ al \in 0 .. Square - 1 /\ bl \in 0 .. Square - 1
      /\ au \in 0 .. Square - 1 /\ bu \in 0 .. Square - 1
      /\ l \in 0 .. Square - 1 /\ Value128(mid) \in 0 .. Square - 1
  BY <1>1, <1>2, <1>3, <1>4, Value128IsSmall
<1>6. borrowed <=> l > al
  BY <1>1, <1>3, Greater128
<1>7. l + bl = al + k * Square
  <2>1. PICK c \in {0, 1} : l + bl = al + c * Square
    BY <1>3
  <2>2. k = IF l > al THEN 1 ELSE 0
    BY <1>6
  <2> HIDE DEF k, l, al, bl, low
  <2>3. CASE c = 0
    BY <1>2, <1>5, <2>1, <2>2, <2>3
  <2>4. CASE c = 1
    BY <1>2, <1>5, <2>1, <2>2, <2>4
  <2>5. QED
    BY <2>3, <2>4
<1>8. /\ high \in UInt128
      /\ \E c \in {0, 1} : h + k = Value128(mid) + c * Square
  <2>1. CASE borrowed
    <3>1. high = minus128(mid, One128) /\ k = 1
      BY <2>1
    <3>2. /\ minus128(mid, One128) \in UInt128
          /\ \E c \in {0, 1} : Value128(minus128(mid, One128)) + Value128(One128)
                                   = Value128(mid) + c * Square
      BY <1>4, OneIsOne, Minus128IsModular
    <3>3. QED
      BY <3>1, <3>2, OneIsOne
  <2>2. CASE ~borrowed
    <3>1. high = mid /\ k = 0
      BY <2>2
    <3>2. h + k = Value128(mid) + 0 * Square
      BY <1>2, <1>5, <3>1
    <3>3. QED
      BY <1>4, <3>1, <3>2
  <2>3. QED
    BY <2>1, <2>2
<1>9. k \in {0, 1} /\ h \in 0 .. Square - 1
  BY <1>2, <1>8, Value128IsSmall
<1>10. minus256(a, b) = [upper |-> high, lower |-> low]
  BY DEF minus256, Pair
<1>11. minus256(a, b) \in UInt256
  BY <1>3, <1>8, <1>10 DEF UInt256
<1>12. /\ Value256(minus256(a, b)) = h * Square + l
       /\ Value256(a) = au * Square + al
       /\ Value256(b) = bu * Square + bl
  BY <1>10 DEF Value256, Square
<1>13. PICK c \in {0, 1, 2} : (h + bu) + k = au + c * Square
  <2>1. PICK c1 \in {0, 1} : Value128(mid) + bu = au + c1 * Square
    BY <1>4
  <2>2. PICK c2 \in {0, 1} : h + k = Value128(mid) + c2 * Square
    BY <1>8
  <2>3. c1 + c2 \in {0, 1, 2}
    OBVIOUS
  <2>4. (c1 + c2) * Square = c1 * Square + c2 * Square /\ c1 * Square \in Int /\ c2 * Square \in Int
    BY <1>2
  <2>5. (h + bu) + k = au + (c1 + c2) * Square
    <3> DEFINE m == Value128(mid)
    <3>1. m \in Int /\ m + bu = au + c1 * Square /\ h + k = m + c2 * Square
      BY <1>5, <2>1, <2>2
    <3> HIDE DEF h, au, bu, k, mid, high, m
    <3>2. QED
      BY <1>5, <1>9, <2>4, <3>1
  <2>6. QED
    BY <2>3, <2>5
<1> HIDE DEF low, mid, borrowed, high, k, al, bl, au, bu, l, h
<1>14. (h * Square + l) + (bu * Square + bl) = (au * Square + al) + c * (Square * Square)
  <2>1. au \in Int /\ al \in Int /\ c \in Int /\ k \in Int /\ h + bu \in Int /\ l + bl \in Int
    BY <1>2, <1>5, <1>9
  <2>2. PICK q \in Int, r \in Int : q = -k /\ r = -c
    BY <2>1
  <2>3. (l + bl) + q * Square = al
    BY <1>2, <1>5, <1>7, <1>9, <2>2
  <2>4. (h + bu) + r * Square = au + q
    BY <1>2, <1>5, <1>9, <1>13, <2>2
  <2>5. (h + bu) * Square + (l + bl) + (-c) * (Square * Square) = au * Square + al
    <3> DEFINE left == h + bu
               right == l + bl
    <3>1. left \in Int /\ right \in Int /\ left + r * Square = au + q /\ right + q * Square = al
      BY <2>1, <2>3, <2>4
    <3> HIDE DEF left, right
    <3>2. left * Square + right + r * (Square * Square) = au * Square + al
      BY <1>2, <2>1, <2>2, <3>1, Carried
    <3>3. QED
      BY <2>2, <3>2 DEF left, right
  <2>6. /\ (h + bu) * Square = h * Square + bu * Square
        /\ (-c) * (Square * Square) = -(c * (Square * Square))
        /\ c * (Square * Square) \in Int
    BY <1>2, <1>5, <1>9
  <2>7. /\ h * Square \in Int /\ bu * Square \in Int /\ au * Square \in Int
        /\ l \in Int /\ bl \in Int
    BY <1>2, <1>5, <1>9
  <2>8. QED
    BY <2>1, <2>5, <2>6, <2>7
<1>15. Value256(minus256(a, b)) \in Nat /\ Value256(minus256(a, b)) < Square * Square
  BY <1>11, Value256IsSmall
<1>16. Square * Square \in Nat /\ Value256(a) \in Nat /\ Value256(b) \in Nat
  BY <1>2, Value256IsSmall
<1>17. Value256(minus256(a, b)) + Value256(b) = Value256(a) + c * (Square * Square)
  BY <1>12, <1>14
<1>18. (Value256(a) - Value256(b)) % (Square * Square) = Value256(minus256(a, b))
  <2> DEFINE x == Value256(minus256(a, b))
             s == Value256(a) - Value256(b)
             m == Square * Square
             e == -c
  <2>1. c * m \in Int /\ e * m = -(c * m)
    BY <1>16
  <2>2. x + e * m = s
    BY <1>15, <1>16, <1>17, <2>1
  <2>3. /\ m \in Nat /\ x \in Int /\ s \in Int /\ 0 <= x /\ x < m
        /\ e \in {-2, -1, 0, 1, 2}
    BY <1>15, <1>16
  <2> HIDE DEF x, s, m, e
  <2>4. s % m = x
    BY <2>2, <2>3, Remainder
  <2>5. QED
    BY <2>4 DEF x, s, m
<1>19. QED
  BY <1>11, <1>18

-----------------------------------------------------------------------------
(* Products of words *)

\* The four products of the halves of two words.
FourProducts(H, x0, x1, y0, y1, a0, a1, b0, b1, c0, c1, d0, d1) ==
    /\ H \in Nat /\ x0 \in Nat /\ x1 \in Nat /\ y0 \in Nat /\ y1 \in Nat
    /\ a0 \in Nat /\ a1 \in Nat /\ b0 \in Nat /\ b1 \in Nat
    /\ c0 \in Nat /\ c1 \in Nat /\ d0 \in Nat /\ d1 \in Nat
    /\ x0 * y0 = a1 * H + a0 /\ x0 * y1 = b1 * H + b0
    /\ x1 * y0 = c1 * H + c0 /\ x1 * y1 = d1 * H + d0

\* The product of the words, as the columns add them.
LEMMA HalvesMultiplied ==
    ASSUME NEW H, NEW x0, NEW x1, NEW y0, NEW y1,
           NEW a0, NEW a1, NEW b0, NEW b1, NEW c0, NEW c1, NEW d0, NEW d1,
           FourProducts(H, x0, x1, y0, y1, a0, a1, b0, b1, c0, c1, d0, d1)
    PROVE  (x1 * H + x0) * (y1 * H + y0)
               = a0 + (b0 + a1 + c0) * H + (b1 + d0 + c1) * (H * H) + d1 * H * (H * H)
<1>0. /\ H \in Nat /\ x0 \in Nat /\ x1 \in Nat /\ y0 \in Nat /\ y1 \in Nat
      /\ a0 \in Nat /\ a1 \in Nat /\ b0 \in Nat /\ b1 \in Nat
      /\ c0 \in Nat /\ c1 \in Nat /\ d0 \in Nat /\ d1 \in Nat
  BY Zenon DEF FourProducts
<1>1. (x1 * H + x0) * (y1 * H + y0)
          = (x1 * y1) * (H * H) + (x0 * y1) * H + (x1 * y0) * H + x0 * y0
  BY <1>0
<1>2. (d1 * H + d0) * (H * H) = d1 * H * (H * H) + d0 * (H * H)
  BY <1>0
<1>3. (b1 * H + b0) * H = b1 * (H * H) + b0 * H
  BY <1>0
<1>4. (c1 * H + c0) * H = c1 * (H * H) + c0 * H
  BY <1>0
<1>5. (b0 + a1 + c0) * H = b0 * H + a1 * H + c0 * H
  BY <1>0
<1>6. (b1 + d0 + c1) * (H * H) = b1 * (H * H) + d0 * (H * H) + c1 * (H * H)
  BY <1>0
<1>7. /\ d1 * H * (H * H) \in Nat /\ d0 * (H * H) \in Nat /\ b1 * (H * H) \in Nat
      /\ c1 * (H * H) \in Nat /\ b0 * H \in Nat /\ c0 * H \in Nat /\ a1 * H \in Nat
  BY <1>0
<1>8. (x1 * H + x0) * (y1 * H + y0)
          = (d1 * H + d0) * (H * H) + (b1 * H + b0) * H + (c1 * H + c0) * H + (a1 * H + a0)
  BY <1>1, Zenon DEF FourProducts
<1>9. QED
  BY <1>0, <1>2, <1>3, <1>4, <1>5, <1>6, <1>7, <1>8

\* The size of half a word.
LEMMA HalfIsNat == Half \in Nat /\ Half >= 2 /\ Word = Half * Half /\ Word > Half
<1>1. Half \in Nat /\ Half >= 2
  BY HalfAssumption
<1>2. Half * Half > Half
  BY <1>1
<1>3. QED
  BY <1>1, <1>2 DEF Word

\* The quotient of a number less than a product.
LEMMA DividedBelow ==
    ASSUME NEW H \in Nat, H >= 1, NEW N \in Nat, NEW x \in Nat, x < N * H
    PROVE  /\ x \div H \in 0 .. N - 1
           /\ x % H \in 0 .. H - 1
           /\ x = (x \div H) * H + (x % H)
<1>1. /\ x \div H \in Int /\ x % H \in 0 .. H - 1
      /\ x = (x \div H) * H + (x % H)
  BY Divided
<1>2. PICK q : q = x \div H
  OBVIOUS
<1>3. PICK r : r = x % H
  OBVIOUS
<1>4. q \in Int /\ r \in 0 .. H - 1 /\ x = q * H + r
  BY <1>1, <1>2, <1>3
<1>5. q >= 0
  <2> SUFFICES ASSUME q <= 0 - 1
               PROVE  FALSE
    BY <1>4
  <2>1. q * H <= (0 - 1) * H
    BY <1>4
  <2>2. QED
    BY <1>4, <2>1
<1>6. q < N
  <2> SUFFICES ASSUME q >= N
               PROVE  FALSE
    BY <1>4
  <2>1. q * H >= N * H
    BY <1>4
  <2>2. QED
    BY <1>4, <2>1
<1>7. q \in 0 .. N - 1
  BY <1>4, <1>5, <1>6
<1>8. QED
  BY <1>1, <1>2, <1>7

\* A word is two halves, and a product of two halves is two halves.
LEMMA WordHasHalves ==
    ASSUME NEW x \in Word64
    PROVE  /\ x \div Half \in 0 .. Half - 1
           /\ x % Half \in 0 .. Half - 1
           /\ x = (x \div Half) * Half + (x % Half)
<1>1. x \in Nat /\ x < Half * Half /\ Half \in Nat /\ Half >= 1
  BY HalfIsNat, WordIsNat DEF Word64
<1>2. QED
  BY <1>1, DividedBelow, Zenon

\* A product of two halves has two halves.
LEMMA ProductHasHalves ==
    ASSUME NEW x \in 0 .. Half - 1, NEW y \in 0 .. Half - 1
    PROVE  /\ (x * y) \div Half \in 0 .. Half - 1
           /\ (x * y) % Half \in 0 .. Half - 1
           /\ x * y = ((x * y) \div Half) * Half + ((x * y) % Half)
<1>1. x \in Nat /\ y \in Nat /\ x <= Half - 1 /\ y <= Half - 1
  BY HalfIsNat
<1>2. x * y \in Nat /\ x * y <= (Half - 1) * (Half - 1)
  <2>1. x * y <= x * (Half - 1)
    BY <1>1, HalfIsNat
  <2>2. x * (Half - 1) <= (Half - 1) * (Half - 1)
    BY <1>1, HalfIsNat
  <2>3. x * y \in Nat
    BY <1>1
  <2>4. x * (Half - 1) \in Int /\ (Half - 1) * (Half - 1) \in Int
    BY <1>1, HalfIsNat
  <2>5. QED
    BY <2>1, <2>2, <2>3, <2>4
<1>3. (Half - 1) * (Half - 1) = Half * Half - 2 * Half + 1
  BY HalfIsNat
<1>4. x * y \in Word64
  BY <1>2, <1>3, HalfIsNat DEF Word64
<1>5. QED
  BY <1>4, WordHasHalves

\* A sum that does not overflow.
LEMMA ExactSum128 ==
    ASSUME NEW a \in UInt128, NEW b \in UInt128, Value128(a) + Value128(b) < Square
    PROVE  /\ add128(a, b) \in UInt128
           /\ Value128(add128(a, b)) = Value128(a) + Value128(b)
<1>1. add128(a, b) \in UInt128
  BY Sum128IsModular
<1>2. PICK c \in {0, 1} : Value128(add128(a, b)) + c * Square = Value128(a) + Value128(b)
  BY Sum128IsModular
<1>3. /\ Value128(add128(a, b)) \in Nat /\ Value128(a) \in Nat /\ Value128(b) \in Nat
      /\ Square \in Nat
  BY <1>1, Value128IsSmall, WordIsNat
<1>4. c = 0
  BY <1>2, <1>3
<1>5. QED
  BY <1>1, <1>2, <1>3, <1>4

\* Two words, as a 128 bit number.
LEMMA PairOfWords ==
    ASSUME NEW u \in Word64, NEW l \in Word64
    PROVE  Pair(u, l) \in UInt128 /\ Value128(Pair(u, l)) = u * Word + l
  BY DEF Pair, UInt128, Value128

\* What the columns of a product of two words add, digit by digit.
LEMMA ProductOfWords ==
    ASSUME NEW x \in Word64, NEW y \in Word64
    PROVE  /\ mul128(Pair(0, x), Pair(0, y)) \in UInt128
           /\ Value128(mul128(Pair(0, x), Pair(0, y))) = x * y
<1> DEFINE top    == HalvesOf(Pair(0, x))
           bottom == HalvesOf(Pair(0, y))
           lo == [i \in Digits |-> [j \in Digits |-> (top[4 - i] * bottom[j + 1]) % Half]]
           hi == [i \in Digits |-> [j \in Digits |-> (top[4 - i] * bottom[j + 1]) \div Half]]
           third  == SecondColumn(lo, hi)
           second == ThirdColumn(lo, hi) % Word
           first  == FourthColumn(lo, hi) % Word
           high   == Pair((first * Half) % Word, 0)
           low    == Pair(third \div Half, (third * Half) % Word)
           twoHigh == add128(high, low)
           middle == Pair(second, 0)
           digit  == Pair(0, lo[0][3])
<1>1. mul128(Pair(0, x), Pair(0, y)) = add128(digit, add128(middle, twoHigh))
  BY Zenon DEF mul128
<1>2. PICK x0 \in 0 .. Half - 1, x1 \in 0 .. Half - 1 :
          x0 = x % Half /\ x1 = x \div Half /\ x = x1 * Half + x0
  BY WordHasHalves
<1>3. PICK y0 \in 0 .. Half - 1, y1 \in 0 .. Half - 1 :
          y0 = y % Half /\ y1 = y \div Half /\ y = y1 * Half + y0
  BY WordHasHalves
<1>4. 0 \div Half = 0 /\ 0 % Half = 0
  BY HalfIsNat
<1>5. top = <<0, 0, x1, x0>> /\ bottom = <<0, 0, y1, y0>>
  BY <1>2, <1>3, <1>4 DEF HalvesOf, Pair
<1>6. /\ top[1] = 0 /\ top[2] = 0 /\ top[3] = x1 /\ top[4] = x0
      /\ bottom[1] = 0 /\ bottom[2] = 0 /\ bottom[3] = y1 /\ bottom[4] = y0
  BY <1>5
<1> HIDE DEF top, bottom
<1>7. \A i \in Digits, j \in Digits :
          /\ lo[i][j] = (top[4 - i] * bottom[j + 1]) % Half
          /\ hi[i][j] = (top[4 - i] * bottom[j + 1]) \div Half
  BY DEF Digits
<1>8. /\ lo[0][3] = (x0 * y0) % Half /\ hi[0][3] = (x0 * y0) \div Half
      /\ lo[0][2] = (x0 * y1) % Half /\ hi[0][2] = (x0 * y1) \div Half
      /\ lo[1][3] = (x1 * y0) % Half /\ hi[1][3] = (x1 * y0) \div Half
      /\ lo[1][2] = (x1 * y1) % Half /\ hi[1][2] = (x1 * y1) \div Half
  <2>1. /\ 0 \in Digits /\ 1 \in Digits /\ 2 \in Digits /\ 3 \in Digits
        /\ 4 - 0 = 4 /\ 4 - 1 = 3 /\ 3 + 1 = 4 /\ 2 + 1 = 3
    BY DEF Digits
  <2>2. QED
    BY <1>6, <1>7, <2>1
<1>9. /\ lo[0][0] = 0 /\ lo[0][1] = 0 /\ lo[1][1] = 0 /\ lo[2][2] = 0 /\ lo[2][3] = 0
      /\ lo[3][3] = 0 /\ hi[0][1] = 0 /\ hi[2][3] = 0
  <2>1. /\ 0 \in Digits /\ 1 \in Digits /\ 2 \in Digits /\ 3 \in Digits
        /\ 4 - 0 = 4 /\ 4 - 1 = 3 /\ 4 - 2 = 2 /\ 4 - 3 = 1
        /\ 0 + 1 = 1 /\ 1 + 1 = 2 /\ 3 + 1 = 4 /\ 2 + 1 = 3
    BY DEF Digits
  <2>2. x0 * 0 = 0 /\ x1 * 0 = 0 /\ 0 * y0 = 0 /\ 0 * y1 = 0
    BY HalfIsNat
  <2>3. QED
    BY <1>4, <1>6, <1>7, <2>1, <2>2
<1>10. FourthColumn(lo, hi) = lo[0][0] + hi[0][1] + lo[1][1] + hi[1][2] + lo[2][2] + hi[2][3] + lo[3][3]
  BY DEF FourthColumn
<1>11. ThirdColumn(lo, hi) = lo[0][1] + hi[0][2] + lo[1][2] + hi[1][3] + lo[2][3]
  BY DEF ThirdColumn
<1>12. SecondColumn(lo, hi) = lo[0][2] + hi[0][3] + lo[1][3]
  BY DEF SecondColumn
<1> HIDE DEF lo, hi
<1>13. PICK a0 \in 0 .. Half - 1, a1 \in 0 .. Half - 1 :
           lo[0][3] = a0 /\ hi[0][3] = a1 /\ x0 * y0 = a1 * Half + a0
  <2>1. /\ (x0 * y0) \div Half \in 0 .. Half - 1
        /\ (x0 * y0) % Half \in 0 .. Half - 1
        /\ x0 * y0 = ((x0 * y0) \div Half) * Half + ((x0 * y0) % Half)
    BY ProductHasHalves, Zenon
  <2>2. QED
    BY <1>8, <2>1, Zenon
<1>14. PICK b0 \in 0 .. Half - 1, b1 \in 0 .. Half - 1 :
           lo[0][2] = b0 /\ hi[0][2] = b1 /\ x0 * y1 = b1 * Half + b0
  <2>1. /\ (x0 * y1) \div Half \in 0 .. Half - 1
        /\ (x0 * y1) % Half \in 0 .. Half - 1
        /\ x0 * y1 = ((x0 * y1) \div Half) * Half + ((x0 * y1) % Half)
    BY ProductHasHalves, Zenon
  <2>2. QED
    BY <1>8, <2>1, Zenon
<1>15. PICK c0 \in 0 .. Half - 1, c1 \in 0 .. Half - 1 :
           lo[1][3] = c0 /\ hi[1][3] = c1 /\ x1 * y0 = c1 * Half + c0
  <2>1. /\ (x1 * y0) \div Half \in 0 .. Half - 1
        /\ (x1 * y0) % Half \in 0 .. Half - 1
        /\ x1 * y0 = ((x1 * y0) \div Half) * Half + ((x1 * y0) % Half)
    BY ProductHasHalves, Zenon
  <2>2. QED
    BY <1>8, <2>1, Zenon
<1>16. PICK d0 \in 0 .. Half - 1, d1 \in 0 .. Half - 1 :
           lo[1][2] = d0 /\ hi[1][2] = d1 /\ x1 * y1 = d1 * Half + d0
  <2>1. /\ (x1 * y1) \div Half \in 0 .. Half - 1
        /\ (x1 * y1) % Half \in 0 .. Half - 1
        /\ x1 * y1 = ((x1 * y1) \div Half) * Half + ((x1 * y1) % Half)
    BY ProductHasHalves, Zenon
  <2>2. QED
    BY <1>8, <2>1, Zenon
<1>17. /\ FourthColumn(lo, hi) = d1
       /\ ThirdColumn(lo, hi) = b1 + d0 + c1
       /\ SecondColumn(lo, hi) = b0 + a1 + c0
  BY <1>9, <1>10, <1>11, <1>12, <1>13, <1>14, <1>15, <1>16, HalfIsNat
<1>18. x * y = a0 + (b0 + a1 + c0) * Half + (b1 + d0 + c1) * (Half * Half) + d1 * Half * (Half * Half)
  <2>1. /\ Half \in Nat /\ x0 \in Nat /\ x1 \in Nat /\ y0 \in Nat /\ y1 \in Nat
        /\ a0 \in Nat /\ a1 \in Nat /\ b0 \in Nat /\ b1 \in Nat
        /\ c0 \in Nat /\ c1 \in Nat /\ d0 \in Nat /\ d1 \in Nat
    BY HalfIsNat
  <2>2. (x1 * Half + x0) * (y1 * Half + y0)
            = a0 + (b0 + a1 + c0) * Half + (b1 + d0 + c1) * (Half * Half) + d1 * Half * (Half * Half)
    <3>1. FourProducts(Half, x0, x1, y0, y1, a0, a1, b0, b1, c0, c1, d0, d1)
      BY <1>13, <1>14, <1>15, <1>16, <2>1, Zenon DEF FourProducts
    <3>2. QED
      BY <3>1, HalvesMultiplied
  <2>3. QED
    BY <1>2, <1>3, <2>2
<1> HIDE DEF third, second, first, high, low, twoHigh, middle, digit
<1>19. third = b0 + a1 + c0 /\ second = b1 + d0 + c1 /\ first = d1
  <2>1. /\ b1 + d0 + c1 \in Nat /\ b1 + d0 + c1 <= 3 * (Half - 1)
        /\ d1 \in Nat /\ d1 < Half
    BY HalfIsNat
  <2>2. 3 * (Half - 1) < Word /\ Half < Word
    <3>1. CASE Half = 2
      BY <3>1, HalfIsNat
    <3>2. CASE Half >= 3
      <4>1. Half * Half >= 3 * Half
        BY <3>2, HalfIsNat
      <4>2. QED
        BY <3>2, <4>1, HalfIsNat
    <3>3. QED
      BY <3>1, <3>2, HalfIsNat
  <2>3. b1 + d0 + c1 < Word /\ d1 < Word
    BY <2>1, <2>2, HalfIsNat
  <2>4. PICK t \in Nat : t = b1 + d0 + c1
    BY <2>1
  <2>5. t % Word = t /\ d1 % Word = d1
    BY <2>1, <2>3, <2>4, HalfIsNat
  <2>6. QED
    BY <1>17, <2>4, <2>5 DEF third, second, first
<1>20. third \in Nat /\ third < Word /\ second \in Word64 /\ a0 \in Word64
  <2>1. b0 + a1 + c0 \in Nat /\ b0 + a1 + c0 <= 3 * (Half - 1)
    BY HalfIsNat
  <2>2. b1 + d0 + c1 \in Nat /\ b1 + d0 + c1 <= 3 * (Half - 1)
    BY HalfIsNat
  <2>3. 3 * (Half - 1) < Word
    <3>1. CASE Half = 2
      BY <3>1, HalfIsNat
    <3>2. CASE Half >= 3
      <4>1. Half * Half >= 3 * Half
        BY <3>2, HalfIsNat
      <4>2. QED
        BY <3>2, <4>1, HalfIsNat
    <3>3. QED
      BY <3>1, <3>2, HalfIsNat
  <2>4. a0 \in Nat /\ a0 < Word
    BY HalfIsNat
  <2>5. QED
    BY <1>19, <2>1, <2>2, <2>3, <2>4, HalfIsNat DEF Word64
<1>21. high \in UInt128 /\ Value128(high) = d1 * Half * Word
  <2>1. d1 * Half \in Word64
    <3>1. d1 * Half \in Nat /\ d1 * Half <= (Half - 1) * Half
      BY HalfIsNat
    <3>2. (Half - 1) * Half = Half * Half - Half
      BY HalfIsNat
    <3>3. QED
      BY <3>1, <3>2, HalfIsNat DEF Word64
  <2>2. PICK t \in Word64 : t = d1 * Half
    BY <2>1
  <2>3. t % Word = t /\ 0 \in Word64
    BY WordIsNat DEF Word64
  <2>4. high = Pair(t, 0)
    BY <1>19, <2>2, <2>3 DEF high
  <2>5. Pair(t, 0) \in UInt128 /\ Value128(Pair(t, 0)) = t * Word + 0
    BY <2>3, PairOfWords, Zenon
  <2>6. t * Word + 0 = t * Word
    BY WordIsNat DEF Word64
  <2>7. QED
    BY <2>2, <2>4, <2>5, <2>6
<1>22. low \in UInt128 /\ Value128(low) = third * Half
  <2>1. third < Half * Half /\ Half \in Nat /\ Half >= 1
    BY <1>20, HalfIsNat
  <2>2. PICK q \in 0 .. Half - 1, r \in 0 .. Half - 1 : q = third \div Half /\ third = q * Half + r
    <3>1. /\ third \div Half \in 0 .. Half - 1 /\ third % Half \in 0 .. Half - 1
          /\ third = (third \div Half) * Half + (third % Half)
      BY <1>20, <2>1, DividedBelow, Zenon
    <3>2. QED
      BY <3>1, Zenon
  <2>3. r * Half \in 0 .. Word - 1
    <3>1. r * Half \in Nat /\ r * Half <= (Half - 1) * Half
      BY HalfIsNat
    <3>2. (Half - 1) * Half = Half * Half - Half
      BY HalfIsNat
    <3>3. QED
      BY <3>1, <3>2, HalfIsNat
  <2>4. PICK t \in 0 .. Word - 1 : t = r * Half
    BY <2>3
  <2>5. third * Half = q * Word + t
    <3>1. (q * Half + r) * Half = q * (Half * Half) + r * Half
      BY HalfIsNat
    <3>2. QED
      BY <2>2, <2>4, <3>1, HalfIsNat
  <2>6. (q * Word + t) % Word = t
    <3>1. q \in Int /\ Word \in Nat /\ Word >= 1
      BY WordIsNat, HalfIsNat
    <3>2. QED
      BY <3>1, QuotientIs
  <2>7. low = Pair(q, t) /\ q \in Word64 /\ t \in Word64
    BY <2>2, <2>5, <2>6, HalfIsNat, WordIsNat DEF low, Word64
  <2>8. Pair(q, t) \in UInt128 /\ Value128(Pair(q, t)) = q * Word + t
    BY <2>7, PairOfWords, Zenon
  <2>9. QED
    BY <2>5, <2>7, <2>8
<1>23. middle \in UInt128 /\ Value128(middle) = second * Word
  <2>1. Pair(second, 0) \in UInt128 /\ Value128(Pair(second, 0)) = second * Word + 0
    <3>1. 0 \in Word64
      BY WordIsNat DEF Word64
    <3>2. QED
      BY <1>20, <3>1, PairOfWords, Zenon
  <2>2. second * Word + 0 = second * Word
    BY <1>20, WordIsNat DEF Word64
  <2>3. QED
    BY <2>1, <2>2 DEF middle
<1>24. digit \in UInt128 /\ Value128(digit) = a0
  <2>1. Pair(0, a0) \in UInt128 /\ Value128(Pair(0, a0)) = 0 * Word + a0
    <3>1. 0 \in Word64
      BY WordIsNat DEF Word64
    <3>2. QED
      BY <1>20, <3>1, PairOfWords, Zenon
  <2>2. 0 * Word + a0 = a0
    BY WordIsNat, HalfIsNat
  <2>3. QED
    BY <1>13, <2>1, <2>2 DEF digit
<1>25. x * y \in Nat /\ x * y < Square
  <2>1. x \in Nat /\ y \in Nat /\ x <= Word - 1 /\ y <= Word - 1 /\ Word \in Nat /\ Word >= 2
    BY WordIsNat DEF Word64
  <2>2. x * y <= x * (Word - 1)
    BY <2>1
  <2>3. x * (Word - 1) <= (Word - 1) * (Word - 1)
    BY <2>1
  <2>4. (Word - 1) * (Word - 1) = Word * Word - 2 * Word + 1
    BY <2>1
  <2>5. x * y \in Nat /\ x * (Word - 1) \in Nat /\ Word * Word \in Nat
    BY <2>1
  <2>6. QED
    BY <2>1, <2>2, <2>3, <2>4, <2>5 DEF Square
<1>26. PICK A \in Nat, B \in Nat, C \in Nat :
           /\ A = third * Half /\ B = second * Word /\ C = d1 * Half * Word
           /\ x * y = a0 + A + B + C
  <2>1. third * Half \in Nat /\ second * Word \in Nat /\ d1 * Half * Word \in Nat
    BY <1>20, HalfIsNat, WordIsNat DEF Word64
  <2>2. x * y = a0 + third * Half + second * Word + d1 * Half * Word
    BY <1>18, <1>19, HalfIsNat
  <2>3. QED
    BY <2>1, <2>2, Zenon
<1>27. a0 \in Nat /\ Square \in Nat
  BY HalfIsNat, WordIsNat
<1>28. twoHigh \in UInt128 /\ Value128(twoHigh) = C + A
  <2>1. Value128(high) + Value128(low) < Square
    BY <1>21, <1>22, <1>25, <1>26, <1>27
  <2>2. QED
    BY <1>21, <1>22, <1>26, <2>1, ExactSum128, Zenon DEF twoHigh
<1>29. PICK most : /\ most = add128(middle, twoHigh) /\ most \in UInt128
                   /\ Value128(most) = B + (C + A)
  <2>1. Value128(middle) + Value128(twoHigh) < Square
    BY <1>23, <1>25, <1>26, <1>27, <1>28
  <2>2. /\ add128(middle, twoHigh) \in UInt128
        /\ Value128(add128(middle, twoHigh)) = Value128(middle) + Value128(twoHigh)
    BY <1>23, <1>28, <2>1, ExactSum128, Zenon
  <2>3. QED
    BY <1>23, <1>26, <1>28, <2>2, Zenon
<1>30. /\ add128(digit, most) \in UInt128
       /\ Value128(add128(digit, most)) = Value128(digit) + Value128(most)
  <2>1. Value128(digit) + Value128(most) < Square
    BY <1>24, <1>25, <1>26, <1>27, <1>29
  <2>2. QED
    BY <1>24, <1>29, <2>1, ExactSum128, Zenon
<1>31. Value128(digit) + Value128(most) = x * y
  BY <1>24, <1>26, <1>27, <1>29
<1>32. QED
  BY <1>1, <1>29, <1>30, <1>31, Zenon

-----------------------------------------------------------------------------
(* Products *)

-----------------------------------------------------------------------------
(* Products of 256 bits *)

\* The product of two numbers of two digits, by columns.
LEMMA TwoDigitsMultiplied ==
    ASSUME NEW m \in Nat, NEW x0 \in Nat, NEW x1 \in Nat, NEW y0 \in Nat, NEW y1 \in Nat
    PROVE  (x1 * m + x0) * (y1 * m + y0)
               = x0 * y0 + (x1 * y0 + x0 * y1) * m + (x1 * y1) * (m * m)
OBVIOUS

\* lo and hi hold the products of the digits of two numbers, A and B.
ProductTable(A, B, lo, hi, W) ==
    /\ \A i \in Digits : A[i] \in Nat /\ B[i] \in Nat
    /\ \A i \in Digits, j \in Digits :
           /\ lo[i][j] \in Nat /\ hi[i][j] \in Nat
           /\ A[i] * B[3 - j] = hi[i][j] * W + lo[i][j]

\* A number is, but for a multiple of 2^256, the sum of the columns of mul256.
IsColumns(product, lo, hi, W, S) ==
    \E c \in Nat :
        product = lo[0][3] + SecondColumn(lo, hi) * W + ThirdColumn(lo, hi) * S
                           + FourthColumn(lo, hi) * (W * S) + c * (S * S)

\* The products of the words of two numbers, as the columns add them.
LEMMA ColumnsAdded ==
    ASSUME NEW W \in Nat, NEW S \in Nat, S = W * W, NEW A, NEW B, NEW lo, NEW hi,
           ProductTable(A, B, lo, hi, W)
    PROVE  IsColumns(((A[3] * W + A[2]) * S + (A[1] * W + A[0]))
                         * ((B[3] * W + B[2]) * S + (B[1] * W + B[0])), lo, hi, W, S)
<1>1. /\ 0 \in Digits /\ 1 \in Digits /\ 2 \in Digits /\ 3 \in Digits
      /\ 3 - 0 = 3 /\ 3 - 1 = 2 /\ 3 - 2 = 1 /\ 3 - 3 = 0
  BY DEF Digits
<1>2. PICK a0 \in Nat, a1 \in Nat, a2 \in Nat, a3 \in Nat :
          a0 = A[0] /\ a1 = A[1] /\ a2 = A[2] /\ a3 = A[3]
  BY <1>1 DEF ProductTable
<1>3. PICK b0 \in Nat, b1 \in Nat, b2 \in Nat, b3 \in Nat :
          b0 = B[0] /\ b1 = B[1] /\ b2 = B[2] /\ b3 = B[3]
  BY <1>1 DEF ProductTable
<1>4. PICK l00 \in Nat, h00 \in Nat :
          l00 = lo[0][3] /\ h00 = hi[0][3] /\ a0 * b0 = h00 * W + l00
  BY <1>1, <1>2, <1>3 DEF ProductTable
<1>5. PICK l01 \in Nat, h01 \in Nat :
          l01 = lo[0][2] /\ h01 = hi[0][2] /\ a0 * b1 = h01 * W + l01
  BY <1>1, <1>2, <1>3 DEF ProductTable
<1>6. PICK l10 \in Nat, h10 \in Nat :
          l10 = lo[1][3] /\ h10 = hi[1][3] /\ a1 * b0 = h10 * W + l10
  BY <1>1, <1>2, <1>3 DEF ProductTable
<1>7. PICK l02 \in Nat, h02 \in Nat :
          l02 = lo[0][1] /\ h02 = hi[0][1] /\ a0 * b2 = h02 * W + l02
  BY <1>1, <1>2, <1>3 DEF ProductTable
<1>8. PICK l11 \in Nat, h11 \in Nat :
          l11 = lo[1][2] /\ h11 = hi[1][2] /\ a1 * b1 = h11 * W + l11
  BY <1>1, <1>2, <1>3 DEF ProductTable
<1>9. PICK l20 \in Nat, h20 \in Nat :
          l20 = lo[2][3] /\ h20 = hi[2][3] /\ a2 * b0 = h20 * W + l20
  BY <1>1, <1>2, <1>3 DEF ProductTable
<1>10. PICK l03 \in Nat, h03 \in Nat :
          l03 = lo[0][0] /\ h03 = hi[0][0] /\ a0 * b3 = h03 * W + l03
  BY <1>1, <1>2, <1>3 DEF ProductTable
<1>11. PICK l12 \in Nat, h12 \in Nat :
          l12 = lo[1][1] /\ h12 = hi[1][1] /\ a1 * b2 = h12 * W + l12
  BY <1>1, <1>2, <1>3 DEF ProductTable
<1>12. PICK l21 \in Nat, h21 \in Nat :
          l21 = lo[2][2] /\ h21 = hi[2][2] /\ a2 * b1 = h21 * W + l21
  BY <1>1, <1>2, <1>3 DEF ProductTable
<1>13. PICK l30 \in Nat, h30 \in Nat :
          l30 = lo[3][3] /\ h30 = hi[3][3] /\ a3 * b0 = h30 * W + l30
  BY <1>1, <1>2, <1>3 DEF ProductTable
<1>14. /\ SecondColumn(lo, hi) = l01 + h00 + l10
      /\ ThirdColumn(lo, hi) = l02 + h01 + l11 + h10 + l20
      /\ FourthColumn(lo, hi) = l03 + h02 + l12 + h11 + l21 + h20 + l30
  BY <1>4, <1>5, <1>6, <1>7, <1>8, <1>9, <1>10, <1>11, <1>12, <1>13 DEF SecondColumn, ThirdColumn, FourthColumn
<1>15. /\ a0 * b0 = h00 * W + l00
       /\ a0 * b1 = h01 * W + l01
       /\ a1 * b0 = h10 * W + l10
       /\ a0 * b2 = h02 * W + l02
       /\ a1 * b1 = h11 * W + l11
       /\ a2 * b0 = h20 * W + l20
       /\ a0 * b3 = h03 * W + l03
       /\ a1 * b2 = h12 * W + l12
       /\ a2 * b1 = h21 * W + l21
       /\ a3 * b0 = h30 * W + l30
  BY <1>4, <1>5, <1>6, <1>7, <1>8, <1>9, <1>10, <1>11, <1>12, <1>13
<1>16. PICK la \in Nat, ua \in Nat, lb \in Nat, ub \in Nat :
          /\ la = a1 * W + a0 /\ ua = a3 * W + a2
          /\ lb = b1 * W + b0 /\ ub = b3 * W + b2
  <2>1. /\ a1 * W + a0 \in Nat /\ a3 * W + a2 \in Nat
        /\ b1 * W + b0 \in Nat /\ b3 * W + b2 \in Nat
    OBVIOUS
  <2>2. QED
    BY <2>1, Zenon
<1>17. PICK p11 \in Nat, p13 \in Nat, p31 \in Nat, uu \in Nat :
          p11 = a1 * b1 /\ p13 = a1 * b3 /\ p31 = a3 * b1 /\ uu = ua * ub
  <2>1. a1 * b1 \in Nat /\ a1 * b3 \in Nat /\ a3 * b1 \in Nat /\ ua * ub \in Nat
    OBVIOUS
  <2>2. QED
    BY <2>1, Zenon
<1>18. (ua * S + la) * (ub * S + lb) = la * lb + (ua * lb + la * ub) * S + uu * (S * S)
  BY <1>17, TwoDigitsMultiplied
<1>19. la * lb = l00 + (h00 + l01 + l10) * W + (h01 + h10 + l11) * S + h11 * (W * S)
  <2>1. la * lb = a0 * b0 + (a1 * b0 + a0 * b1) * W + (a1 * b1) * S
    BY <1>16, TwoDigitsMultiplied
  <2>2. (h10 * W + l10 + (h01 * W + l01)) * W = (h10 + h01) * S + (l10 + l01) * W
    OBVIOUS
  <2>3. (h11 * W + l11) * S = h11 * (W * S) + l11 * S
    OBVIOUS
  <2>4. /\ (h00 + l01 + l10) * W = h00 * W + (l10 + l01) * W
        /\ (h01 + h10 + l11) * S = (h10 + h01) * S + l11 * S
    OBVIOUS
  <2>5. QED
    BY <1>15, <2>1, <2>2, <2>3, <2>4
<1>20. ua * lb = l20 + (h20 + l30 + l21) * W + (h30 + h21 + p31) * S
  <2>1. ua * lb = a2 * b0 + (a3 * b0 + a2 * b1) * W + (a3 * b1) * S
    BY <1>16, TwoDigitsMultiplied
  <2>2. (h30 * W + l30 + (h21 * W + l21)) * W = (h30 + h21) * S + (l30 + l21) * W
    OBVIOUS
  <2>3. /\ (h20 + l30 + l21) * W = h20 * W + (l30 + l21) * W
        /\ (h30 + h21 + p31) * S = (h30 + h21) * S + p31 * S
    OBVIOUS
  <2>4. QED
    BY <1>17, <1>15, <2>1, <2>2, <2>3
<1>21. la * ub = l02 + (h02 + l12 + l03) * W + (h12 + h03 + p13) * S
  <2>1. la * ub = a0 * b2 + (a1 * b2 + a0 * b3) * W + (a1 * b3) * S
    BY <1>16, TwoDigitsMultiplied
  <2>2. (h12 * W + l12 + (h03 * W + l03)) * W = (h12 + h03) * S + (l12 + l03) * W
    OBVIOUS
  <2>3. /\ (h02 + l12 + l03) * W = h02 * W + (l12 + l03) * W
        /\ (h12 + h03 + p13) * S = (h12 + h03) * S + p13 * S
    OBVIOUS
  <2>4. QED
    BY <1>17, <1>15, <2>1, <2>2, <2>3
<1>22. PICK c \in Nat : c = h30 + h21 + p31 + (h12 + h03 + p13) + uu
  OBVIOUS
<1>23. (ua * lb + la * ub) * S
          = (l20 + l02) * S + (h20 + l30 + l21 + (h02 + l12 + l03)) * (W * S)
            + (h30 + h21 + p31 + (h12 + h03 + p13)) * (S * S)
  <2>1. ua * lb + la * ub = (l20 + l02) + (h20 + l30 + l21 + (h02 + l12 + l03)) * W
                            + (h30 + h21 + p31 + (h12 + h03 + p13)) * S
    <3>1. /\ (h20 + l30 + l21 + (h02 + l12 + l03)) * W
                 = (h20 + l30 + l21) * W + (h02 + l12 + l03) * W
          /\ (h30 + h21 + p31 + (h12 + h03 + p13)) * S
                 = (h30 + h21 + p31) * S + (h12 + h03 + p13) * S
      OBVIOUS
    <3>2. QED
      BY <1>20, <1>21, <3>1
  <2>2. PICK u \in Nat, v \in Nat, w \in Nat :
            /\ u = l20 + l02 /\ v = h20 + l30 + l21 + (h02 + l12 + l03)
            /\ w = h30 + h21 + p31 + (h12 + h03 + p13)
    OBVIOUS
  <2>3. (u + v * W + w * S) * S = u * S + v * (W * S) + w * (S * S)
    OBVIOUS
  <2>4. QED
    BY <2>1, <2>2, <2>3
<1>24. la * lb + (ua * lb + la * ub) * S + uu * (S * S)
          = l00 + (l01 + h00 + l10) * W + (l02 + h01 + l11 + h10 + l20) * S
            + (l03 + h02 + l12 + h11 + l21 + h20 + l30) * (W * S) + c * (S * S)
  <2>1. (l02 + h01 + l11 + h10 + l20) * S = (h01 + h10 + l11) * S + (l20 + l02) * S
    OBVIOUS
  <2>2. PICK V \in Nat : V = W * S
    OBVIOUS
  <2>3. (l03 + h02 + l12 + h11 + l21 + h20 + l30) * V
            = h11 * V + (h20 + l30 + l21 + (h02 + l12 + l03)) * V
    OBVIOUS
  <2>4. PICK Q \in Nat : Q = S * S
    OBVIOUS
  <2>5. c * Q = (h30 + h21 + p31 + (h12 + h03 + p13)) * Q + uu * Q
    BY <1>22
  <2>6. (l01 + h00 + l10) * W = (h00 + l01 + l10) * W
    OBVIOUS
  <2>7. QED
    BY <1>19, <1>23, <2>1, <2>2, <2>3, <2>4, <2>5, <2>6
<1>25. (ua * S + la) * (ub * S + lb)
           = l00 + (l01 + h00 + l10) * W + (l02 + h01 + l11 + h10 + l20) * S
             + (l03 + h02 + l12 + h11 + l21 + h20 + l30) * (W * S) + c * (S * S)
  BY <1>18, <1>24, Zenon
<1>26. (ua * S + la) * (ub * S + lb)
           = lo[0][3] + SecondColumn(lo, hi) * W + ThirdColumn(lo, hi) * S
                      + FourthColumn(lo, hi) * (W * S) + c * (S * S)
  BY <1>4, <1>14, <1>25, Zenon
<1>27. IsColumns((ua * S + la) * (ub * S + lb), lo, hi, W, S)
  BY <1>26, Zenon DEF IsColumns
<1>28. QED
  BY <1>2, <1>3, <1>16, <1>27, Zenon

\* The remainder of a division, as a number that is off by a multiple.
LEMMA OffByMultiple ==
    ASSUME NEW x \in Int, NEW m \in Nat, m >= 1
    PROVE  \E c \in Int : (x % m) + c * m = x
<1>1. x \div m \in Int /\ x % m \in Int /\ x = (x \div m) * m + (x % m)
  BY Divided
<1>2. PICK q : q = x \div m
  OBVIOUS
<1>3. PICK r : r = x % m
  OBVIOUS
<1>4. q \in Int /\ r + q * m = x
  BY <1>1, <1>2, <1>3
<1>5. QED
  BY <1>3, <1>4

\* What is off by a multiple of the modulus is the remainder.
LEMMA MultipleIsOff ==
    ASSUME NEW x \in Nat, NEW s \in Int, NEW m \in Nat, x < m, NEW c \in Int, x + c * m = s
    PROVE  s % m = x
<1>1. c * m + x = s /\ x \in 0 .. m - 1 /\ m >= 1
  OBVIOUS
<1>2. (c * m + x) % m = x
  BY <1>1, QuotientIs
<1>3. QED
  BY <1>1, <1>2

\* The four words of a 256 bit number.
LEMMA WordsAre ==
    ASSUME NEW a \in UInt256
    PROVE  /\ \A i \in 1 .. 4 : WordsOf(a)[i] \in Word64
           /\ Value256(a) = (WordsOf(a)[1] * Word + WordsOf(a)[2]) * Square
                            + (WordsOf(a)[3] * Word + WordsOf(a)[4])
<1>1. /\ a.upper \in UInt128 /\ a.lower \in UInt128
  BY DEF UInt256
<1>2. /\ a.upper.upper \in Word64 /\ a.upper.lower \in Word64
      /\ a.lower.upper \in Word64 /\ a.lower.lower \in Word64
  BY <1>1 DEF UInt128
<1>3. /\ WordsOf(a)[1] = a.upper.upper /\ WordsOf(a)[2] = a.upper.lower
      /\ WordsOf(a)[3] = a.lower.upper /\ WordsOf(a)[4] = a.lower.lower
  BY DEF WordsOf
<1>4. Value256(a) = (a.upper.upper * Word + a.upper.lower) * Square
                    + (a.lower.upper * Word + a.lower.lower)
  BY Zenon DEF Value256, Value128, Square
<1>5. \A i \in 1 .. 4 : WordsOf(a)[i] \in Word64
  <2> SUFFICES ASSUME NEW i \in 1 .. 4
               PROVE  WordsOf(a)[i] \in Word64
    OBVIOUS
  <2>1. i = 1 \/ i = 2 \/ i = 3 \/ i = 4
    OBVIOUS
  <2>2. QED
    BY <1>2, <1>3, <2>1
<1>6. QED
  BY <1>3, <1>4, <1>5

\* A product of two words, in the table of mul256.
LEMMA ProductInTable ==
    ASSUME NEW a \in UInt256, NEW b \in UInt256, NEW i \in Digits, NEW j \in Digits
    PROVE  /\ LowOf(ProductsOfWords(a, b))[i][j] \in Word64
           /\ HighOf(ProductsOfWords(a, b))[i][j] \in Word64
           /\ WordsOf(a)[4 - i] * WordsOf(b)[j + 1]
                  = HighOf(ProductsOfWords(a, b))[i][j] * Word
                    + LowOf(ProductsOfWords(a, b))[i][j]
<1> DEFINE x == WordsOf(a)[4 - i]
           y == WordsOf(b)[j + 1]
           p == mul128(Pair(0, x), Pair(0, y))
<1>1. 4 - i \in 1 .. 4 /\ j + 1 \in 1 .. 4
  BY DEF Digits
<1>2. x \in Word64 /\ y \in Word64
  BY <1>1, WordsAre
<1>3. ProductsOfWords(a, b)[i][j] = p
  BY DEF ProductsOfWords
<1>4. /\ LowOf(ProductsOfWords(a, b))[i][j] = p.lower
      /\ HighOf(ProductsOfWords(a, b))[i][j] = p.upper
  BY <1>3 DEF LowOf, HighOf
<1> HIDE DEF x, y
<1>5. p \in UInt128 /\ Value128(p) = x * y
  BY <1>2, ProductOfWords
<1> HIDE DEF p
<1>6. p.upper \in Word64 /\ p.lower \in Word64
  BY <1>5 DEF UInt128
<1>7. Value128(p) = p.upper * Word + p.lower
  BY DEF Value128
<1>8. QED
  BY <1>4, <1>5, <1>6, <1>7 DEF x, y

\* A sum of words as a 128 bit number.
LEMMA Sum128Is ==
    ASSUME NEW t \in Nat
    PROVE  /\ Sum128(t) \in UInt128
           /\ Sum128(t).lower = t % Word
           /\ t < Word * Word => Sum128(t).upper * Word + Sum128(t).lower = t
           /\ \E c \in Int : Sum128(t).lower + c * Word = t
           /\ \E c \in Int : Value128(Sum128(t)) + c * Square = t
<1>1. Word \in Nat /\ Word >= 1
  BY WordIsNat
<1>2. PICK q : q = t \div Word
  OBVIOUS
<1>3. PICK r : r = t % Word
  OBVIOUS
<1>4. q \in Int /\ r \in 0 .. Word - 1 /\ t = q * Word + r
  BY <1>1, <1>2, <1>3, Divided
<1>5. PICK u : u = q % Word
  OBVIOUS
<1>6. u \in 0 .. Word - 1 /\ \E c \in Int : u + c * Word = q
  <2>1. q % Word \in 0 .. Word - 1
    BY <1>1, <1>4, Divided
  <2>2. \E c \in Int : (q % Word) + c * Word = q
    BY <1>1, <1>4, OffByMultiple
  <2>3. QED
    BY <1>5, <2>1, <2>2
<1>7. Sum128(t) = [upper |-> u, lower |-> r]
  BY <1>2, <1>3, <1>5 DEF Sum128, Pair
<1>8. Sum128(t) \in UInt128
  BY <1>4, <1>6, <1>7 DEF UInt128, Word64
<1>9. t < Word * Word => u = q
  <2> SUFFICES ASSUME t < Word * Word
               PROVE  u = q
    OBVIOUS
  <2>1. t \div Word \in 0 .. Word - 1
    BY <1>1, DividedBelow
  <2>2. q \in 0 .. Word - 1
    BY <1>2, <2>1
  <2>3. q % Word = q
    BY <1>1, <2>2
  <2>4. QED
    BY <1>5, <2>3
<1>10. \E c \in Int : Value128(Sum128(t)) + c * Square = t
  <2>1. PICK c \in Int : u + c * Word = q
    BY <1>6
  <2>2. Value128(Sum128(t)) = u * Word + r
    BY <1>7 DEF Value128
  <2>3. (u + c * Word) * Word = u * Word + c * (Word * Word)
    BY <1>1, <1>6
  <2>4. u * Word + r + c * Square = t
    BY <1>1, <1>4, <1>6, <2>1, <2>3 DEF Square
  <2>5. QED
    BY <2>2, <2>4
<1>11. \E c \in Int : r + c * Word = t
  BY <1>1, <1>4
<1>12. Sum128(t).upper = u /\ Sum128(t).lower = r
  BY <1>7
<1>13. QED
  BY <1>3, <1>4, <1>8, <1>9, <1>10, <1>11, <1>12

\* mul256 moves a column by a word.
LEMMA WholeWordShift ==
    ASSUME NEW n \in UInt128
    PROVE  shiftLeft128(n, Bits64) = Pair(n.lower, 0)
<1>1. Bits64 \in Nat /\ Bits64 >= 1 /\ Bits128 = 2 * Bits64
  BY BitsAssumption DEF Bits64, Bits128
<1>2. ~(Bits64 >= Bits128) /\ Bits64 # 0 /\ ~(Bits64 < Bits64)
  BY <1>1
<1>3. QED
  BY <1>2 DEF shiftLeft128

\* Four words, as a 256 bit number.
LEMMA FourWords ==
    ASSUME NEW t \in Word64, NEW u \in Word64, NEW v \in Word64, NEW w \in Word64
    PROVE  /\ Pair(Pair(t, u), Pair(v, w)) \in UInt256
           /\ Value256(Pair(Pair(t, u), Pair(v, w)))
                  = t * (Word * Square) + u * Square + v * Word + w
<1>1. /\ Pair(t, u) \in UInt128 /\ Value128(Pair(t, u)) = t * Word + u
      /\ Pair(v, w) \in UInt128 /\ Value128(Pair(v, w)) = v * Word + w
  BY PairOfWords
<1> DEFINE x == Pair(t, u)
           y == Pair(v, w)
<1>2. Pair(x, y) = [upper |-> x, lower |-> y]
  BY DEF Pair
<1> HIDE DEF x, y
<1>3. Pair(x, y) \in UInt256
  BY <1>1, <1>2 DEF UInt256, x, y
<1>4. Value256(Pair(x, y)) = Value128(x) * Square + Value128(y)
  BY <1>2 DEF Value256, Square
<1>5. t \in Nat /\ u \in Nat /\ v \in Nat /\ w \in Nat /\ Word \in Nat /\ Square \in Nat
  BY WordIsNat DEF Word64
<1>6. (t * Word + u) * Square = t * (Word * Square) + u * Square
  BY <1>5
<1>7. /\ t * (Word * Square) \in Nat /\ u * Square \in Nat /\ v * Word \in Nat
  BY <1>5
<1>8. Value256(Pair(x, y)) = t * (Word * Square) + u * Square + v * Word + w
  BY <1>1, <1>4, <1>5, <1>6, <1>7 DEF x, y
<1>9. QED
  BY <1>3, <1>8 DEF x, y

\* add256 is off by a multiple of the modulus.
LEMMA SumIsOff ==
    ASSUME NEW a \in UInt256, NEW b \in UInt256
    PROVE  /\ add256(a, b) \in UInt256
           /\ \E c \in Int : Value256(add256(a, b)) + c * (Square * Square)
                                 = Value256(a) + Value256(b)
<1>1. /\ add256(a, b) \in UInt256
      /\ Value256(add256(a, b)) = (Value256(a) + Value256(b)) % (Square * Square)
  BY SumIsModular
<1>2. PICK s : s = Value256(a) + Value256(b)
  OBVIOUS
<1>3. s \in Int
  BY <1>2, Value256IsSmall
<1>4. PICK m : m = Square * Square
  OBVIOUS
<1>5. m \in Nat /\ m >= 1
  <2>1. Square * Square >= 1 /\ Square * Square \in Nat
    BY WordIsNat
  <2>2. QED
    BY <1>4, <2>1
<1>6. \E c \in Int : (s % m) + c * m = s
  BY <1>3, <1>5, OffByMultiple
<1>7. QED
  BY <1>1, <1>2, <1>4, <1>6

\* The sum of four numbers, modulo 2^256.
LEMMA FourSummed ==
    ASSUME NEW a \in UInt256, NEW b \in UInt256, NEW c \in UInt256, NEW d \in UInt256
    PROVE  /\ add256(a, add256(b, add256(c, d))) \in UInt256
           /\ \E k \in Int :
                  Value256(add256(a, add256(b, add256(c, d)))) + k * (Square * Square)
                      = Value256(a) + Value256(b) + Value256(c) + Value256(d)
<1>1. PICK s : s = add256(c, d)
  OBVIOUS
<1>2. PICK t : t = add256(b, s)
  OBVIOUS
<1>3. PICK r : r = add256(a, t)
  OBVIOUS
<1>4. PICK m : m = Square * Square
  OBVIOUS
<1>5. s \in UInt256 /\ \E k \in Int : Value256(s) + k * m = Value256(c) + Value256(d)
  BY <1>1, <1>4, SumIsOff
<1>6. t \in UInt256 /\ \E k \in Int : Value256(t) + k * m = Value256(b) + Value256(s)
  BY <1>2, <1>4, <1>5, SumIsOff
<1>7. r \in UInt256 /\ \E k \in Int : Value256(r) + k * m = Value256(a) + Value256(t)
  BY <1>3, <1>4, <1>6, SumIsOff
<1>8. PICK i \in Int : Value256(s) + i * m = Value256(c) + Value256(d)
  BY <1>5
<1>9. PICK j \in Int : Value256(t) + j * m = Value256(b) + Value256(s)
  BY <1>6
<1>10. PICK k \in Int : Value256(r) + k * m = Value256(a) + Value256(t)
  BY <1>7
<1>11. /\ Value256(a) \in Int /\ Value256(b) \in Int /\ Value256(c) \in Int /\ Value256(d) \in Int
       /\ Value256(s) \in Int /\ Value256(t) \in Int /\ Value256(r) \in Int
  BY <1>5, <1>6, <1>7, Value256IsSmall
<1>12. m \in Int
  <2>1. Square * Square \in Int
    BY WordIsNat
  <2>2. QED
    BY <1>4, <2>1
<1>13. (i + j + k) * m = i * m + j * m + k * m
  BY <1>12
<1>14. i * m \in Int /\ j * m \in Int /\ k * m \in Int
  BY <1>12
<1>15. Value256(r) + (i + j + k) * m = Value256(a) + Value256(b) + Value256(c) + Value256(d)
  BY <1>8, <1>9, <1>10, <1>11, <1>13, <1>14
<1>16. i + j + k \in Int
  OBVIOUS
<1>17. QED
  BY <1>1, <1>2, <1>3, <1>4, <1>7, <1>15, <1>16

\* What the columns of mul256 are, for two numbers.
Lows(a, b)  == LowOf(ProductsOfWords(a, b))
Highs(a, b) == HighOf(ProductsOfWords(a, b))

\* The product, but for a multiple of 2^256, is the sum of the columns.
LEMMA ProductIsColumns ==
    ASSUME NEW a \in UInt256, NEW b \in UInt256
    PROVE  /\ Lows(a, b)[0][3] \in Word64
           /\ SecondColumn(Lows(a, b), Highs(a, b)) \in 0 .. 3 * (Word - 1)
           /\ ThirdColumn(Lows(a, b), Highs(a, b)) \in Nat
           /\ FourthColumn(Lows(a, b), Highs(a, b)) \in Nat
           /\ \E c \in Nat :
                  Value256(a) * Value256(b)
                      = Lows(a, b)[0][3]
                        + SecondColumn(Lows(a, b), Highs(a, b)) * Word
                        + ThirdColumn(Lows(a, b), Highs(a, b)) * Square
                        + FourthColumn(Lows(a, b), Highs(a, b)) * (Word * Square)
                        + c * (Square * Square)
<1> DEFINE lo == Lows(a, b)
           hi == Highs(a, b)
           A  == [i \in Digits |-> WordsOf(a)[4 - i]]
           B  == [i \in Digits |-> WordsOf(b)[4 - i]]
<1>1. /\ 0 \in Digits /\ 1 \in Digits /\ 2 \in Digits /\ 3 \in Digits
      /\ 4 - 3 = 1 /\ 4 - 2 = 2 /\ 4 - 1 = 3 /\ 4 - 0 = 4
  BY DEF Digits
<1>2. \A i \in Digits, j \in Digits :
          /\ lo[i][j] \in Word64 /\ hi[i][j] \in Word64
          /\ A[i] * B[3 - j] = hi[i][j] * Word + lo[i][j]
  <2> SUFFICES ASSUME NEW i \in Digits, NEW j \in Digits
               PROVE  /\ lo[i][j] \in Word64 /\ hi[i][j] \in Word64
                      /\ A[i] * B[3 - j] = hi[i][j] * Word + lo[i][j]
    OBVIOUS
  <2>1. 3 - j \in Digits /\ 4 - (3 - j) = j + 1
    BY DEF Digits
  <2>2. A[i] = WordsOf(a)[4 - i] /\ B[3 - j] = WordsOf(b)[j + 1]
    BY <2>1
  <2> HIDE DEF A, B
  <2>3. QED
    BY <2>2, ProductInTable DEF Lows, Highs
<1> HIDE DEF lo, hi
<1>3. \A i \in Digits, j \in Digits :
          /\ lo[i][j] \in Nat /\ lo[i][j] < Word
          /\ hi[i][j] \in Nat /\ hi[i][j] < Word
  <2> SUFFICES ASSUME NEW i \in Digits, NEW j \in Digits
               PROVE  /\ lo[i][j] \in Nat /\ lo[i][j] < Word
                      /\ hi[i][j] \in Nat /\ hi[i][j] < Word
    OBVIOUS
  <2>1. lo[i][j] \in Word64 /\ hi[i][j] \in Word64
    BY <1>2
  <2>2. QED
    BY <2>1, WordIsNat DEF Word64
<1>4. /\ Value256(a) = (A[3] * Word + A[2]) * Square + (A[1] * Word + A[0])
      /\ Value256(b) = (B[3] * Word + B[2]) * Square + (B[1] * Word + B[0])
  BY <1>1, WordsAre
<1>5. \A i \in Digits : A[i] \in Nat /\ B[i] \in Nat
  <2> SUFFICES ASSUME NEW i \in Digits
               PROVE  A[i] \in Nat /\ B[i] \in Nat
    OBVIOUS
  <2>1. 4 - i \in 1 .. 4
    BY DEF Digits
  <2>2. WordsOf(a)[4 - i] \in Word64 /\ WordsOf(b)[4 - i] \in Word64
    BY <2>1, WordsAre
  <2>3. QED
    BY <2>2, WordIsNat DEF Word64
<1> HIDE DEF A, B
<1>6. Word \in Nat /\ Square \in Nat /\ Square = Word * Word
  BY WordIsNat DEF Square
<1>7. ProductTable(A, B, lo, hi, Word)
  BY <1>2, <1>3, <1>5 DEF ProductTable
<1>8. IsColumns(((A[3] * Word + A[2]) * Square + (A[1] * Word + A[0]))
                    * ((B[3] * Word + B[2]) * Square + (B[1] * Word + B[0])),
                lo, hi, Word, Square)
  BY <1>6, <1>7, ColumnsAdded
<1>9. /\ SecondColumn(lo, hi) = lo[0][2] + hi[0][3] + lo[1][3]
      /\ ThirdColumn(lo, hi) = lo[0][1] + hi[0][2] + lo[1][2] + hi[1][3] + lo[2][3]
      /\ FourthColumn(lo, hi)
             = lo[0][0] + hi[0][1] + lo[1][1] + hi[1][2] + lo[2][2] + hi[2][3] + lo[3][3]
  BY DEF SecondColumn, ThirdColumn, FourthColumn
<1>10. ThirdColumn(lo, hi) \in Nat /\ FourthColumn(lo, hi) \in Nat
  BY <1>1, <1>3, <1>9
<1>11. SecondColumn(lo, hi) \in 0 .. 3 * (Word - 1)
  BY <1>1, <1>3, <1>9, WordIsNat
<1>12. lo[0][3] \in Word64
  BY <1>1, <1>2
<1>13. IsColumns(Value256(a) * Value256(b), lo, hi, Word, Square)
  BY <1>4, <1>8, Zenon
<1>14. QED
  BY <1>10, <1>11, <1>12, <1>13, Zenon DEF IsColumns, lo, hi

\* The four numbers mul256 adds, and what each stands for.
LEMMA ColumnsPlaced ==
    ASSUME NEW a \in UInt256, NEW b \in UInt256
    PROVE  /\ mul256(a, b) \in UInt256
           /\ \E k \in Int, s \in UInt128, f \in Word64, u \in Word64, v \in Word64 :
                  /\ s = Sum128(ThirdColumn(Lows(a, b), Highs(a, b)))
                  /\ f = Sum128(FourthColumn(Lows(a, b), Highs(a, b))).lower
                  /\ u = Third64(a, b).upper
                  /\ v = Third64(a, b).lower
                  /\ Value256(mul256(a, b)) + k * (Square * Square)
                         = Lows(a, b)[0][3] + Value128(s) * Square
                           + f * (Word * Square) + (u * (Word * Square) + v * Word)
<1> DEFINE lo == Lows(a, b)
           hi == Highs(a, b)
           third64  == Third64(a, b)
           second64 == Sum128(ThirdColumn(lo, hi))
           first64  == Sum128(FourthColumn(lo, hi))
           p1 == Pair(Zero128, Pair(0, lo[0][3]))
           p2 == Pair(second64, Zero128)
           p3 == Pair(shiftLeft128(first64, Bits64), Zero128)
           p4 == Pair(Pair(third64.upper, 0), shiftLeft128(third64, Bits64))
<1>1. mul256(a, b) = add256(p1, add256(p2, add256(p3, p4)))
  BY Zenon DEF mul256, Lows, Highs
<1>2. third64 = Sum128(SecondColumn(lo, hi))
  BY Zenon DEF Third64, Lows, Highs
<1>3. /\ lo[0][3] \in Word64 /\ SecondColumn(lo, hi) \in Nat
      /\ ThirdColumn(lo, hi) \in Nat /\ FourthColumn(lo, hi) \in Nat
  <2>1. SecondColumn(lo, hi) \in 0 .. 3 * (Word - 1)
    BY ProductIsColumns
  <2>2. SecondColumn(lo, hi) \in Nat
    BY <2>1
  <2>3. QED
    BY <2>2, ProductIsColumns
<1>4. third64 \in UInt128 /\ second64 \in UInt128 /\ first64 \in UInt128
  BY <1>2, <1>3, Sum128Is
<1> HIDE DEF lo, hi, third64, second64, first64
<1>5. /\ third64.upper \in Word64 /\ third64.lower \in Word64
      /\ second64.upper \in Word64 /\ second64.lower \in Word64
      /\ first64.lower \in Word64 /\ 0 \in Word64
      /\ second64 = Pair(second64.upper, second64.lower)
  BY <1>4, WordIsNat DEF UInt128, Pair, Word64
<1>6. p1 \in UInt256 /\ Value256(p1) = 0 * (Word * Square) + 0 * Square + 0 * Word + lo[0][3]
  <2>1. /\ Pair(Pair(0, 0), Pair(0, lo[0][3])) \in UInt256
        /\ Value256(Pair(Pair(0, 0), Pair(0, lo[0][3])))
               = 0 * (Word * Square) + 0 * Square + 0 * Word + lo[0][3]
    <3> HIDE DEF p1, p2, p3, p4
    <3>1. QED
      BY <1>3, <1>5, FourWords
  <2>2. p1 = Pair(Pair(0, 0), Pair(0, lo[0][3]))
    BY DEF Zero128
  <2>3. QED
    BY <2>1, <2>2, Zenon
<1>7. /\ p2 \in UInt256
      /\ Value256(p2) = second64.upper * (Word * Square) + second64.lower * Square + 0 * Word + 0
  <2>1. /\ Pair(Pair(second64.upper, second64.lower), Pair(0, 0)) \in UInt256
        /\ Value256(Pair(Pair(second64.upper, second64.lower), Pair(0, 0)))
               = second64.upper * (Word * Square) + second64.lower * Square + 0 * Word + 0
    <3> HIDE DEF p1, p2, p3, p4
    <3>1. QED
      BY <1>5, FourWords
  <2>2. p2 = Pair(Pair(second64.upper, second64.lower), Pair(0, 0))
    <3>1. p2 = Pair(second64, Pair(0, 0))
      BY DEF Zero128
    <3> HIDE DEF p2
    <3>2. QED
      BY <1>5, <3>1, Zenon
  <2>3. QED
    BY <2>1, <2>2, Zenon
<1>8. /\ p3 \in UInt256
      /\ Value256(p3) = first64.lower * (Word * Square) + 0 * Square + 0 * Word + 0
  <2>1. /\ Pair(Pair(first64.lower, 0), Pair(0, 0)) \in UInt256
        /\ Value256(Pair(Pair(first64.lower, 0), Pair(0, 0)))
               = first64.lower * (Word * Square) + 0 * Square + 0 * Word + 0
    <3> HIDE DEF p1, p2, p3, p4
    <3>1. QED
      BY <1>5, FourWords
  <2>2. p3 = Pair(Pair(first64.lower, 0), Pair(0, 0))
    <3>1. shiftLeft128(first64, Bits64) = Pair(first64.lower, 0)
      BY <1>4, WholeWordShift
    <3>2. QED
      BY <3>1 DEF Zero128
  <2>3. QED
    BY <2>1, <2>2, Zenon
<1>9. /\ p4 \in UInt256
      /\ Value256(p4) = third64.upper * (Word * Square) + 0 * Square + third64.lower * Word + 0
  <2>1. /\ Pair(Pair(third64.upper, 0), Pair(third64.lower, 0)) \in UInt256
        /\ Value256(Pair(Pair(third64.upper, 0), Pair(third64.lower, 0)))
               = third64.upper * (Word * Square) + 0 * Square + third64.lower * Word + 0
    <3> HIDE DEF p1, p2, p3, p4
    <3>1. QED
      BY <1>5, FourWords
  <2>2. p4 = Pair(Pair(third64.upper, 0), Pair(third64.lower, 0))
    <3>1. shiftLeft128(third64, Bits64) = Pair(third64.lower, 0)
      BY <1>4, WholeWordShift
    <3>2. QED
      BY <3>1
  <2>3. QED
    BY <2>1, <2>2, Zenon
<1> HIDE DEF p1, p2, p3, p4
<1>10. /\ mul256(a, b) \in UInt256
       /\ \E k \in Int : Value256(mul256(a, b)) + k * (Square * Square)
                             = Value256(p1) + Value256(p2) + Value256(p3) + Value256(p4)
  BY <1>1, <1>6, <1>7, <1>8, <1>9, FourSummed
<1>11. /\ Word \in Nat /\ Square \in Nat /\ Word * Square \in Nat /\ Square = Word * Word
       /\ lo[0][3] \in Nat /\ third64.upper \in Nat /\ third64.lower \in Nat
       /\ second64.upper \in Nat /\ second64.lower \in Nat /\ first64.lower \in Nat
  BY <1>3, <1>5, WordIsNat DEF Word64, Square
<1>12. Value256(p1) = lo[0][3]
  BY <1>6, <1>11
<1>13. Value256(p2) = Value128(second64) * Square
  <2>1. Value128(second64) = second64.upper * Word + second64.lower
    BY DEF Value128
  <2>2. (second64.upper * Word + second64.lower) * Square
            = second64.upper * (Word * Square) + second64.lower * Square
    BY <1>11
  <2>3. second64.upper * (Word * Square) \in Nat /\ second64.lower * Square \in Nat
    BY <1>11
  <2>4. QED
    BY <1>7, <1>11, <2>1, <2>2, <2>3
<1>14. Value256(p3) = first64.lower * (Word * Square)
  <2>1. first64.lower * (Word * Square) \in Nat
    BY <1>11
  <2>2. QED
    BY <1>8, <1>11, <2>1
<1>15. Value256(p4) = third64.upper * (Word * Square) + third64.lower * Word
  <2>1. third64.upper * (Word * Square) \in Nat /\ third64.lower * Word \in Nat
    BY <1>11
  <2>2. QED
    BY <1>9, <1>11, <2>1
<1>16. \E k \in Int : Value256(mul256(a, b)) + k * (Square * Square)
           = lo[0][3] + Value128(second64) * Square
             + first64.lower * (Word * Square)
             + (third64.upper * (Word * Square) + third64.lower * Word)
  BY <1>10, <1>12, <1>13, <1>14, <1>15
<1>17. QED
  BY <1>4, <1>5, <1>10, <1>16 DEF lo, hi, third64, second64, first64

\* The modulus, and the weight of its highest word.
LEMMA ModulusIs ==
    /\ Square * Square \in Nat /\ Square * Square >= 1
    /\ Word * Square \in Nat /\ Word * (Word * Square) = Square * Square
<1>1. Word \in Nat /\ Square = Word * Word /\ Square \in Nat /\ Square >= 2
  BY WordIsNat DEF Square
<1>2. QED
  BY <1>1

\* uint256.c, mul256: the product of two 256 bit numbers modulo 2^256, but for the
\* carry of the column of weight 2^64, which is added at 2^192 instead of 2^128.
THEOREM ProductIsModularButForCarry ==
    ASSUME NEW a \in UInt256, NEW b \in UInt256
    PROVE  /\ mul256(a, b) \in UInt256
           /\ Value256(mul256(a, b))
                  = (Value256(a) * Value256(b)
                     + Third64(a, b).upper * (Word * Square - Square)) % (Square * Square)
<1> DEFINE lo == Lows(a, b)
           hi == Highs(a, b)
           SS == Square * Square
           WS == Word * Square
<1>1. PICK l \in Nat, D2 \in Nat, D3 \in Nat, D4 \in Nat, c \in Nat, V \in Nat :
          /\ l = lo[0][3] /\ D2 = SecondColumn(lo, hi) /\ D3 = ThirdColumn(lo, hi)
          /\ D4 = FourthColumn(lo, hi) /\ V = Value256(a) * Value256(b)
          /\ D2 <= 3 * (Word - 1)
          /\ V = l + D2 * Word + D3 * Square + D4 * WS + c * SS
  <2>1. /\ lo[0][3] \in Word64 /\ SecondColumn(lo, hi) \in 0 .. 3 * (Word - 1)
        /\ ThirdColumn(lo, hi) \in Nat /\ FourthColumn(lo, hi) \in Nat
        /\ \E c \in Nat : Value256(a) * Value256(b)
                              = lo[0][3] + SecondColumn(lo, hi) * Word
                                + ThirdColumn(lo, hi) * Square
                                + FourthColumn(lo, hi) * WS + c * SS
    BY ProductIsColumns
  <2>2. lo[0][3] \in Nat /\ SecondColumn(lo, hi) \in Nat /\ SecondColumn(lo, hi) <= 3 * (Word - 1)
    BY <2>1, WordIsNat DEF Word64
  <2>3. Value256(a) * Value256(b) \in Nat
    BY Value256IsSmall
  <2> HIDE DEF lo, hi, SS, WS
  <2>4. QED
    BY <2>1, <2>2, <2>3
<1>2. PICK k \in Int, s \in UInt128, f \in Word64, u \in Word64, v \in Word64 :
          /\ s = Sum128(D3) /\ f = Sum128(D4).lower
          /\ u = Third64(a, b).upper /\ v = Third64(a, b).lower
          /\ Value256(mul256(a, b)) + k * SS
                 = l + Value128(s) * Square + f * WS + (u * WS + v * Word)
  BY <1>1, ColumnsPlaced
<1>3. PICK r \in Nat : r = Value256(mul256(a, b)) /\ r < SS /\ mul256(a, b) \in UInt256
  BY ColumnsPlaced, Value256IsSmall
<1>4. /\ Word \in Nat /\ Word >= 4 /\ Square \in Nat /\ Square = Word * Word
      /\ WS \in Nat /\ SS \in Nat /\ Word * WS = SS /\ WS = Word * Square /\ SS = Square * Square
  <2>1. Half * Half >= 4
    BY HalfAssumption
  <2>2. QED
    BY <2>1, WordIsNat, ModulusIs DEF Square, Word
<1>5. u * Word + v = D2
  <2>1. Third64(a, b) = Sum128(D2)
    BY <1>1, Zenon DEF Third64, Lows, Highs
  <2>2. D2 < Word * Word
    <3>1. 3 * (Word - 1) < 4 * Word /\ 4 * Word <= Word * Word
      BY <1>4
    <3>2. QED
      BY <1>1, <1>4, <3>1
  <2>3. QED
    BY <1>2, <2>1, <2>2, Sum128Is
<1>6. PICK k3 \in Int : Value128(s) + k3 * Square = D3
  BY <1>2, Sum128Is
<1>7. PICK k4 \in Int : f + k4 * Word = D4
  BY <1>2, Sum128Is
<1> HIDE DEF lo, hi, SS, WS
<1>8. PICK S3 \in Nat : S3 = Value128(s)
  BY Value128IsSmall
<1>9. u \in Nat /\ v \in Nat /\ f \in Nat
  BY <1>4 DEF Word64
<1>10. S3 * Square + k3 * SS = D3 * Square
  <2>1. (S3 + k3 * Square) * Square = S3 * Square + k3 * (Square * Square)
    BY <1>4
  <2>2. QED
    BY <1>4, <1>6, <1>8, <2>1
<1>11. f * WS + k4 * SS = D4 * WS
  <2>1. (f + k4 * Word) * WS = f * WS + k4 * (Word * WS)
    BY <1>4, <1>9
  <2>2. QED
    BY <1>4, <1>7, <2>1
<1>12. u * Square + v * Word = D2 * Word
  <2>1. (u * Word + v) * Word = u * (Word * Word) + v * Word
    BY <1>4, <1>9
  <2>2. QED
    BY <1>4, <1>5, <2>1
<1>13. u * (WS - Square) = u * WS - u * Square
  BY <1>4, <1>9
<1>14. PICK x1 \in Int, x2 \in Int, x3 \in Int, x4 \in Int, x5 \in Int, x6 \in Int, x7 \in Int :
           /\ x1 = u * Square /\ x2 = v * Word /\ x3 = f * WS /\ x4 = S3 * Square
           /\ x5 = u * WS /\ x6 = D3 * Square /\ x7 = D4 * WS
  <2>1. /\ u * Square \in Int /\ v * Word \in Int /\ f * WS \in Int /\ S3 * Square \in Int
        /\ u * WS \in Int /\ D3 * Square \in Int /\ D4 * WS \in Int
    BY <1>4, <1>9
  <2>2. QED
    BY <2>1, Zenon
<1>15. PICK y1 \in Int, y2 \in Int, y3 \in Int, y4 \in Int :
           y1 = k * SS /\ y2 = k3 * SS /\ y3 = k4 * SS /\ y4 = c * SS
  <2>1. k * SS \in Int /\ k3 * SS \in Int /\ k4 * SS \in Int /\ c * SS \in Int
    BY <1>4
  <2>2. QED
    BY <2>1, Zenon
<1>16. (k + k3 + k4 + c) * SS = y1 + y2 + y3 + y4
  BY <1>4, <1>15
<1>17. r + y1 = l + x4 + x3 + (x5 + x2)
  BY <1>2, <1>3, <1>8, <1>14, <1>15
<1>18. V = l + D2 * Word + x6 + x7 + y4
  BY <1>1, <1>14, <1>15
<1>19. x4 + y2 = x6 /\ x3 + y3 = x7 /\ x1 + x2 = D2 * Word
  BY <1>10, <1>11, <1>12, <1>14, <1>15
<1>20. D2 * Word \in Int
  BY <1>4
<1>21. r + (k + k3 + k4 + c) * SS = V + u * (WS - Square)
  BY <1>13, <1>14, <1>16, <1>17, <1>18, <1>19, <1>20
<1>22. V + u * (WS - Square) \in Int /\ k + k3 + k4 + c \in Int
  BY <1>4, <1>9
<1>23. PICK t : t = V + u * (WS - Square)
  OBVIOUS
<1>24. t % SS = r
  <2>1. PICK kk \in Int : kk = k + k3 + k4 + c
    BY <1>22
  <2>2. r + kk * SS = t /\ t \in Int
    BY <1>21, <1>22, <1>23, <2>1
  <2>3. QED
    BY <1>3, <1>4, <2>2, MultipleIsOff, Zenon
<1>25. QED
  BY <1>1, <1>2, <1>3, <1>4, <1>23, <1>24

-----------------------------------------------------------------------------
(* Numbers on the wire *)

ByteBase == Power(2, ByteBits)

\* The bytes of a word, and of a buffer.
LEMMA BytesOfWord ==
    /\ ByteBase \in Nat /\ ByteBase >= 1
    /\ BytesPerWord \in Nat /\ BYTES256 = 4 * BytesPerWord
    /\ Power(ByteBase, BytesPerWord) = Word
    /\ Power(ByteBase, BytesPerWord + BytesPerWord) = Square
<1>1. ByteBits \in Nat /\ ByteBits >= 1 /\ HalfBits \in Nat /\ Half = Power(2, HalfBits)
      /\ (2 * HalfBits) % ByteBits = 0
  BY BitsAssumption
<1>2. ByteBase \in Nat /\ ByteBase >= 1
  <2>1. 2 \in Nat /\ 2 >= 1
    OBVIOUS
  <2>2. \A n \in Nat : Power(2, n) \in Nat /\ Power(2, n) >= 1
    BY <2>1, PowerIsPositive, Zenon
  <2>3. QED
    BY <1>1, <2>2, Zenon DEF ByteBase
<1>3. PICK w : w = BytesPerWord
  OBVIOUS
<1>4. PICK t \in Nat : t = 2 * HalfBits
  BY <1>1
<1>5. w = t \div ByteBits /\ t % ByteBits = 0
  BY <1>1, <1>3, <1>4 DEF BytesPerWord, Bits64
<1>6. w \in Int /\ t = w * ByteBits
  BY <1>1, <1>5, Divided
<1>7. w >= 0
  <2> SUFFICES ASSUME w <= 0 - 1
               PROVE  FALSE
    BY <1>6
  <2>1. w * ByteBits <= (0 - 1) * ByteBits
    BY <1>1, <1>6
  <2>2. QED
    BY <1>1, <1>6, <2>1
<1>8. w \in Nat
  BY <1>6, <1>7
<1>9. Power(ByteBase, w) = Power(2, t)
  <2>1. Power(Power(2, ByteBits), w) = Power(2, ByteBits * w)
    BY <1>1, <1>8, PowerOfPower
  <2>2. ByteBits * w = t
    BY <1>1, <1>6
  <2>3. QED
    BY <2>1, <2>2 DEF ByteBase
<1>10. Power(2, t) = Word
  <2>1. Power(2, HalfBits + HalfBits) = Power(2, HalfBits) * Power(2, HalfBits)
    BY <1>1, PowerOfSum
  <2>2. HalfBits + HalfBits = t
    BY <1>1, <1>4
  <2>3. QED
    BY <1>1, <2>1, <2>2 DEF Word
<1>11. Power(ByteBase, w + w) = Square
  <2>1. ByteBase \in Int
    BY <1>2
  <2>2. Power(ByteBase, w + w) = Power(ByteBase, w) * Power(ByteBase, w)
    BY <1>8, <2>1, PowerOfSum
  <2>3. QED
    BY <1>9, <1>10, <2>2 DEF Square
<1>12. QED
  BY <1>2, <1>3, <1>8, <1>9, <1>10, <1>11 DEF BYTES256

\* n of the bytes, from a position on.
Window(buffer, at, n) == [k \in 1 .. n |-> buffer[at + k - 1]]

\* readUint64BE reads what the bytes of a word denote.
LEMMA WordRead ==
    ASSUME NEW buffer, NEW at \in Nat, at >= 1, at + BytesPerWord <= BYTES256 + 1,
           DigitsIn(buffer, BYTES256, 0 .. ByteBase - 1)
    PROVE  /\ readUint64BE(buffer, at) = Denoted(Window(buffer, at, BytesPerWord), ByteBase)
           /\ readUint64BE(buffer, at) \in Word64
           /\ DigitsIn(Window(buffer, at, BytesPerWord), BytesPerWord, 0 .. ByteBase - 1)
<1> DEFINE w == BytesPerWord
           window == Window(buffer, at, w)
<1>1. readUint64BE(buffer, at) = Denoted(window, ByteBase)
  BY Zenon DEF readUint64BE, Window, ByteBase
<1>2. w \in Nat /\ BYTES256 \in Nat /\ at + w <= BYTES256 + 1
  BY BytesOfWord
<1>3. Len(window) = w
  BY <1>2 DEF Window
<1>4. \A k \in 1 .. w : window[k] \in 0 .. ByteBase - 1
  <2> SUFFICES ASSUME NEW k \in 1 .. w
               PROVE  window[k] \in 0 .. ByteBase - 1
    OBVIOUS
  <2>1. at + k - 1 \in 1 .. BYTES256
    BY <1>2
  <2>2. window[k] = buffer[at + k - 1]
    BY DEF Window
  <2> HIDE DEF window
  <2>3. QED
    BY <2>1, <2>2, Zenon DEF DigitsIn
<1>5. DigitsIn(window, w, 0 .. ByteBase - 1)
  BY <1>3, <1>4, Zenon DEF DigitsIn
<1>6. Denoted(window, ByteBase) \in 0 .. Power(ByteBase, w) - 1
  <2> HIDE DEF window
  <2>1. QED
    BY <1>2, <1>5, BytesOfWord, DenotedIsBelow, Zenon
<1>7. QED
  BY <1>1, <1>5, <1>6, BytesOfWord DEF Word64

\* Two windows, one behind the other, and the one that is both of them.
Adjoin(buffer, size, at, m, next, n, total) ==
    /\ size \in Nat /\ DigitsIn(buffer, size, Int)
    /\ at \in Nat /\ at >= 1 /\ m \in Nat /\ n \in Nat /\ at + m + n <= size + 1
    /\ next = at + m /\ total = m + n

\* Two windows side by side denote what one over both does.
LEMMA WindowsJoin ==
    ASSUME NEW buffer, NEW size, NEW at, NEW m, NEW next, NEW n, NEW total,
           Adjoin(buffer, size, at, m, next, n, total), NEW base \in Nat
    PROVE  /\ Denoted(Window(buffer, at, m), base) \in Int
           /\ Denoted(Window(buffer, next, n), base) \in Int
           /\ Denoted(Window(buffer, at, total), base)
                  = Denoted(Window(buffer, at, m), base) * Power(base, n)
                    + Denoted(Window(buffer, next, n), base)
<1> DEFINE digits == Window(buffer, at, total)
           front  == Window(buffer, at, m)
           back   == Window(buffer, next, n)
<1>0. /\ size \in Nat /\ DigitsIn(buffer, size, Int)
      /\ at \in Nat /\ at >= 1 /\ m \in Nat /\ n \in Nat /\ at + m + n <= size + 1
      /\ next = at + m /\ total = m + n
  BY Zenon DEF Adjoin
<1>1. Len(digits) = m + n /\ Len(front) = m /\ Len(back) = n
  BY <1>0 DEF Window
<1>2. \A k \in 1 .. m + n : digits[k] = buffer[at + k - 1]
  BY <1>0, Zenon DEF Window
<1>3. \A k \in 1 .. m : front[k] = buffer[at + k - 1]
  BY DEF Window
<1>4. \A k \in 1 .. n : back[k] = buffer[at + m + k - 1]
  BY <1>0, Zenon DEF Window
<1> HIDE DEF digits, front, back
<1>5. DigitsIn(digits, m + n, Int)
  <2> SUFFICES ASSUME NEW k \in 1 .. m + n
               PROVE  digits[k] \in Int
    BY <1>1 DEF DigitsIn
  <2>1. at + k - 1 \in 1 .. size
    BY <1>0
  <2>2. QED
    BY <1>0, <1>2, <2>1, Zenon DEF DigitsIn
<1>6. \A k \in 1 .. m : front[k] = digits[k]
  <2> SUFFICES ASSUME NEW k \in 1 .. m
               PROVE  front[k] = digits[k]
    OBVIOUS
  <2>1. k \in 1 .. m + n
    BY <1>0
  <2>2. QED
    BY <1>2, <1>3, <2>1, Zenon
<1>7. \A k \in 1 .. n : back[k] = digits[m + k]
  <2> SUFFICES ASSUME NEW k \in 1 .. n
               PROVE  back[k] = digits[m + k]
    OBVIOUS
  <2>1. m + k \in 1 .. m + n /\ at + m + k - 1 = at + (m + k) - 1
    BY <1>0
  <2>2. QED
    BY <1>2, <1>4, <2>1, Zenon
<1>8. InParts(digits, front, m, back, n) /\ m \in Nat /\ n \in Nat
  BY <1>0, <1>1, <1>5, <1>6, <1>7, Zenon DEF InParts
<1>9. /\ Denoted(front, base) \in Int /\ Denoted(back, base) \in Int
      /\ Denoted(digits, base) = Denoted(front, base) * Power(base, n) + Denoted(back, base)
  BY <1>8, DenotedInParts
<1>10. QED
  BY <1>9, Zenon DEF digits, front, back

\* An element of a sequence.
LEMMA ElementIs ==
    ASSUME NEW S, NEW s \in Seq(S)
    PROVE  \A k \in 1 .. Len(s) : s[k] \in S
  OBVIOUS

\* Zeroes on the left of a field make no difference to its number.
LEMMA PaddedIs ==
    ASSUME NEW field \in Seq(0 .. ByteBase - 1), Len(field) <= BYTES256
    PROVE  /\ DigitsIn(Padded(field), BYTES256, 0 .. ByteBase - 1)
           /\ Denoted(Padded(field), ByteBase) = Denoted(field, ByteBase)
<1>1. PICK n \in Nat, pad \in Nat :
          n = Len(field) /\ pad = BYTES256 - Len(field) /\ BYTES256 = pad + n
  <2>1. BYTES256 \in Nat /\ Len(field) \in Nat
    BY BytesOfWord
  <2>2. BYTES256 - Len(field) \in Nat
    BY <2>1
  <2>3. QED
    BY <2>1, <2>2
<1>2. ByteBase \in Nat /\ ByteBase >= 1
  BY BytesOfWord
<1> DEFINE P == Padded(field)
           zeroes == [k \in 1 .. pad |-> 0]
<1>3. P = [i \in 1 .. pad + n |-> IF i <= pad THEN 0 ELSE field[i - pad]]
  BY <1>1 DEF Padded
<1>4. Len(P) = pad + n
  BY <1>3
<1>5. \A k \in 1 .. pad : P[k] = 0
  BY <1>3
<1>6. \A k \in 1 .. n : P[pad + k] = field[k]
  <2> SUFFICES ASSUME NEW k \in 1 .. n
               PROVE  P[pad + k] = field[k]
    OBVIOUS
  <2>1. pad + k \in 1 .. pad + n /\ ~(pad + k <= pad) /\ (pad + k) - pad = k
    OBVIOUS
  <2>2. QED
    BY <1>3, <2>1
<1>7. \A k \in 1 .. n : field[k] \in 0 .. ByteBase - 1
  BY <1>1, ElementIs
<1> HIDE DEF P
<1>8. \A k \in 1 .. pad + n : P[k] \in 0 .. ByteBase - 1
  <2> SUFFICES ASSUME NEW k \in 1 .. pad + n
               PROVE  P[k] \in 0 .. ByteBase - 1
    OBVIOUS
  <2>1. CASE k <= pad
    <3>1. k \in 1 .. pad
      BY <2>1
    <3>2. QED
      BY <1>2, <1>5, <3>1
  <2>2. CASE k > pad
    <3>1. PICK j \in 1 .. n : k = pad + j
      <4>1. k - pad \in 1 .. n /\ k = pad + (k - pad)
        BY <2>2
      <4>2. QED
        BY <4>1
    <3>2. QED
      BY <1>6, <1>7, <3>1
  <2>3. QED
    BY <2>1, <2>2
<1>9. DigitsIn(P, BYTES256, 0 .. ByteBase - 1)
  BY <1>1, <1>4, <1>8, Zenon DEF DigitsIn
<1>10. InParts(P, zeroes, pad, field, n)
  <2>1. DigitsIn(P, pad + n, Int)
    BY <1>4, <1>8 DEF DigitsIn
  <2>2. Len(zeroes) = pad /\ \A k \in 1 .. pad : zeroes[k] = P[k]
    BY <1>5
  <2>3. Len(field) = n /\ \A k \in 1 .. n : field[k] = P[pad + k]
    BY <1>1, <1>6
  <2> HIDE DEF zeroes
  <2>4. QED
    BY <2>1, <2>2, <2>3, Zenon DEF InParts
<1>11. Denoted(zeroes, ByteBase) = 0
  <2>1. DigitsIn(zeroes, pad, {0})
    BY DEF DigitsIn
  <2> HIDE DEF zeroes
  <2>2. QED
    BY <1>2, <2>1, ZeroesDenoteNothing
<1> HIDE DEF zeroes
<1>12. /\ Denoted(field, ByteBase) \in Int
       /\ Denoted(P, ByteBase) = Denoted(zeroes, ByteBase) * Power(ByteBase, n) + Denoted(field, ByteBase)
  BY <1>2, <1>10, DenotedInParts
<1>13. Power(ByteBase, n) \in Int
  BY <1>2, PowerSteps
<1>14. Denoted(P, ByteBase) = Denoted(field, ByteBase)
  BY <1>11, <1>12, <1>13
<1>15. QED
  BY <1>9, <1>14 DEF P

\* uint256ConvertBE: the number is that of the bytes, the most significant first.
THEOREM ConvertedIsOnWire ==
    ASSUME NEW field \in Seq(0 .. ByteBase - 1), Len(field) <= BYTES256
    PROVE  /\ uint256ConvertBE(field) \in UInt256
           /\ Value256(uint256ConvertBE(field)) = Denoted(field, ByteBase)
<1> DEFINE P == Padded(field)
<1>1. DigitsIn(P, BYTES256, 0 .. ByteBase - 1) /\ Denoted(P, ByteBase) = Denoted(field, ByteBase)
  BY PaddedIs
<1>2. PICK w \in Nat, B \in Nat : w = BytesPerWord /\ B = ByteBase /\ BYTES256 = 4 * w
  BY BytesOfWord
<1> HIDE DEF P
<1>3. PICK x1 \in Word64, x2 \in Word64, x3 \in Word64, x4 \in Word64 :
          /\ x1 = readUint64BE(P, 1) /\ x1 = Denoted(Window(P, 1, w), B)
          /\ x2 = readUint64BE(P, 1 + w) /\ x2 = Denoted(Window(P, 1 + w, w), B)
          /\ x3 = readUint64BE(P, 1 + 2 * w) /\ x3 = Denoted(Window(P, 1 + 2 * w, w), B)
          /\ x4 = readUint64BE(P, 1 + 2 * w + w) /\ x4 = Denoted(Window(P, 1 + 2 * w + w, w), B)
  <2>1. \A at \in {1, 1 + w, 1 + 2 * w, 1 + 2 * w + w} :
            at \in Nat /\ at >= 1 /\ at + BytesPerWord <= BYTES256 + 1
    BY <1>2
  <2>2. \A at \in {1, 1 + w, 1 + 2 * w, 1 + 2 * w + w} :
            /\ readUint64BE(P, at) = Denoted(Window(P, at, w), B)
            /\ readUint64BE(P, at) \in Word64
    BY <1>1, <1>2, <2>1, WordRead, Zenon
  <2>3. QED
    BY <2>2, Zenon
<1>4. uint256ConvertBE(field) = Pair(Pair(x1, x2), Pair(x3, x4))
  BY <1>2, <1>3, Zenon DEF uint256ConvertBE, readUint128BE, P
<1>5. /\ uint256ConvertBE(field) \in UInt256
      /\ Value256(uint256ConvertBE(field)) = x1 * (Word * Square) + x2 * Square + x3 * Word + x4
  BY <1>4, FourWords
<1>6. DigitsIn(P, 4 * w, Int)
  BY <1>1, <1>2, BytesOfWord DEF DigitsIn
<1>7. PICK f \in Int, b \in Int, d \in Int :
          /\ f = Denoted(Window(P, 1, w + w), B)
          /\ b = Denoted(Window(P, 1 + (w + w), w + w), B)
          /\ d = Denoted(Window(P, 1, (w + w) + (w + w)), B)
          /\ d = f * Power(B, w + w) + b
          /\ f = x1 * Power(B, w) + x2
          /\ b = x3 * Power(B, w) + x4
  <2>1. PICK size \in Nat, h \in Nat, third \in Nat :
            size = 4 * w /\ h = w + w /\ third = 1 + h
    OBVIOUS
  <2>2. PICK second \in Nat, fourth \in Nat : second = 1 + w /\ fourth = third + w
    BY <2>1
  <2>3. PICK total \in Nat : total = h + h
    OBVIOUS
  <2>4. 1 + 2 * w = third /\ 1 + 2 * w + w = fourth
    BY <2>1, <2>2
  <2>5. /\ Denoted(Window(P, 1, h), B) \in Int
        /\ Denoted(Window(P, third, h), B) \in Int
        /\ Denoted(Window(P, 1, total), B)
               = Denoted(Window(P, 1, h), B) * Power(B, h) + Denoted(Window(P, third, h), B)
    <3>1. Adjoin(P, size, 1, h, third, h, total)
      BY <1>6, <2>1, <2>3 DEF Adjoin
    <3>2. Denoted(Window(P, 1, h), B) \in Int
      BY <3>1, WindowsJoin
    <3>3. Denoted(Window(P, third, h), B) \in Int
      BY <3>1, WindowsJoin
    <3>4. Denoted(Window(P, 1, total), B)
              = Denoted(Window(P, 1, h), B) * Power(B, h) + Denoted(Window(P, third, h), B)
      BY <3>1, WindowsJoin
    <3>5. QED
      BY <3>2, <3>3, <3>4, Zenon
  <2>6. /\ Denoted(Window(P, 1, h), B)
               = Denoted(Window(P, 1, w), B) * Power(B, w) + Denoted(Window(P, second, w), B)
        /\ Denoted(Window(P, third, h), B)
               = Denoted(Window(P, third, w), B) * Power(B, w) + Denoted(Window(P, fourth, w), B)
    <3>1. Adjoin(P, size, 1, w, second, w, h)
      BY <1>6, <2>1, <2>2 DEF Adjoin
    <3>2. Adjoin(P, size, third, w, fourth, w, h)
      BY <1>6, <2>1, <2>2 DEF Adjoin
    <3>3. Denoted(Window(P, 1, h), B)
              = Denoted(Window(P, 1, w), B) * Power(B, w) + Denoted(Window(P, second, w), B)
      BY <3>1, WindowsJoin
    <3>4. Denoted(Window(P, third, h), B)
              = Denoted(Window(P, third, w), B) * Power(B, w) + Denoted(Window(P, fourth, w), B)
      BY <3>2, WindowsJoin
    <3>5. QED
      BY <3>3, <3>4
  <2>7. Power(B, h) \in Int
    BY PowerSteps
  <2>8. PICK f : f = Denoted(Window(P, 1, h), B)
    OBVIOUS
  <2>9. PICK b : b = Denoted(Window(P, third, h), B)
    OBVIOUS
  <2>10. PICK d : d = Denoted(Window(P, 1, total), B)
    OBVIOUS
  <2>11. d = f * Power(B, h) + b /\ f \in Int /\ b \in Int
    BY <2>5, <2>8, <2>9, <2>10, Zenon
  <2>12. d \in Int
    BY <2>7, <2>11
  <2>13. f = x1 * Power(B, w) + x2 /\ b = x3 * Power(B, w) + x4
    BY <1>3, <2>2, <2>4, <2>6, <2>8, <2>9, Zenon
  <2>14. QED
    BY <2>1, <2>3, <2>8, <2>9, <2>10, <2>11, <2>12, <2>13, Zenon
<1>8. Window(P, 1, (w + w) + (w + w)) = P
  <2>1. P = [k \in 1 .. BYTES256 |-> P[k]]
    BY DEF P, Padded
  <2>2. \A k \in 1 .. BYTES256 : 1 + k - 1 = k
    BY <1>2
  <2>3. (w + w) + (w + w) = BYTES256
    BY <1>2
  <2>4. QED
    BY <2>1, <2>2, <2>3 DEF Window
<1>9. Power(B, w) = Word /\ Power(B, w + w) = Square
  BY <1>2, BytesOfWord
<1>10. /\ x1 \in Nat /\ x2 \in Nat /\ x3 \in Nat /\ x4 \in Nat
       /\ Word \in Nat /\ Square \in Nat
  BY WordIsNat DEF Word64
<1>11. (x1 * Word + x2) * Square = x1 * (Word * Square) + x2 * Square
  BY <1>10
<1>12. x1 * (Word * Square) \in Nat /\ x2 * Square \in Nat /\ x3 * Word \in Nat
  BY <1>10
<1>13. d = Value256(uint256ConvertBE(field))
  <2>1. d = (x1 * Word + x2) * Square + (x3 * Word + x4)
    BY <1>7, <1>9, Zenon
  <2>2. QED
    BY <1>5, <1>10, <1>11, <1>12, <2>1
<1>14. d = Denoted(field, ByteBase)
  BY <1>1, <1>2, <1>7, <1>8
<1>15. QED
  BY <1>5, <1>13, <1>14

-----------------------------------------------------------------------------
(* Shifts: a number below P * Q, moved by P to the left or by Q to the right. *)

Cut(P, Q, Z) == P \in Nat /\ P >= 1 /\ Q \in Nat /\ Q >= 1 /\ Z = P * Q

\* Both parts of a cut are at most the whole.
LEMMA CutIs ==
    ASSUME NEW P, NEW Q, NEW Z, Cut(P, Q, Z)
    PROVE  Z \in Nat /\ Z >= 1 /\ Z >= P /\ Z >= Q
<1>1. P * Q \in Nat /\ P * Q >= Q
  BY ProductGrows DEF Cut
<1>2. Q * P >= P
  BY ProductGrows DEF Cut
<1>3. QED
  BY <1>1, <1>2 DEF Cut

\* A number below the whole, in its high and its low part.
LEMMA CutParts ==
    ASSUME NEW P, NEW Q, NEW Z, Cut(P, Q, Z), NEW x \in 0 .. Z - 1
    PROVE  /\ x \div Q \in 0 .. P - 1
           /\ x % Q \in 0 .. Q - 1
           /\ x = (x \div Q) * Q + (x % Q)
<1>1. P \in Nat /\ Q \in Nat /\ Q >= 1 /\ x \in Nat /\ x < P * Q
  BY CutIs DEF Cut
<1>2. QED
  BY <1>1, DividedBelow

\* A number in parts, multiplied.
LEMMA Scaled ==
    ASSUME NEW h \in Int, NEW q \in Int, NEW r \in Int, NEW p \in Int
    PROVE  (h * q + r) * p = h * (p * q) + r * p
OBVIOUS

\* The low part moved up leaves room for a high part of another word.
LEMMA CutScales ==
    ASSUME NEW P, NEW Q, NEW Z, Cut(P, Q, Z), NEW h \in 0 .. P - 1, NEW r \in 0 .. Q - 1
    PROVE  /\ r * P \in 0 .. Z - P
           /\ r * P + h \in 0 .. Z - 1
<1>1. r * P \in Nat /\ (Q - 1 - r) * P \in Nat
  BY DEF Cut
<1>2. r * P + (Q - 1 - r) * P = P * Q - P
  BY DEF Cut
<1>3. Z = P * Q
  BY DEF Cut
<1>4. QED
  BY <1>1, <1>2, <1>3, CutIs DEF Cut

\* A word moved by P: what is beyond it is lost.
LEMMA ShiftedWord ==
    ASSUME NEW P, NEW Q, NEW Z, Cut(P, Q, Z), NEW x \in 0 .. Z - 1
    PROVE  (x * P) % Z = (x % Q) * P
<1>1. PICK h \in 0 .. P - 1, r \in 0 .. Q - 1 :
          h = x \div Q /\ r = x % Q /\ x = h * Q + r
  BY CutParts
<1>2. x * P = h * Z + r * P
  <2>1. P \in Int /\ Q \in Int
    BY DEF Cut
  <2>2. (h * Q + r) * P = h * (P * Q) + r * P
    BY <2>1, Scaled
  <2>3. Z = P * Q
    BY DEF Cut
  <2>4. QED
    BY <1>1, <2>2, <2>3
<1>3. r * P \in 0 .. Z - 1 /\ Z \in Nat /\ Z >= 1
  BY CutScales, CutIs DEF Cut
<1>4. (h * Z + r * P) % Z = r * P
  BY <1>3, QuotientIs
<1>5. QED
  BY <1>1, <1>2, <1>4

\* A pair of words moved to the left, and to the right.
MovedLeft(P, Q, Z, u, l) ==
    /\ ((u * P) % Z) + (l \div Q) \in 0 .. Z - 1
    /\ (l * P) % Z \in 0 .. Z - 1
    /\ ((u * Z + l) * P) % (Z * Z) = (((u * P) % Z) + (l \div Q)) * Z + ((l * P) % Z)

MovedRight(P, Q, Z, u, l) ==
    /\ ((u * P) % Z) + (l \div Q) \in 0 .. Z - 1
    /\ u \div Q \in 0 .. Z - 1
    /\ (u * Z + l) \div Q = (u \div Q) * Z + (((u * P) % Z) + (l \div Q))

\* Both words of a pair, moved by less than a word.
LEMMA ShiftedPair ==
    ASSUME NEW P, NEW Q, NEW Z, Cut(P, Q, Z), NEW u \in 0 .. Z - 1, NEW l \in 0 .. Z - 1
    PROVE  MovedLeft(P, Q, Z, u, l) /\ MovedRight(P, Q, Z, u, l)
<1>1. PICK uh \in 0 .. P - 1, ur \in 0 .. Q - 1 :
          uh = u \div Q /\ ur = u % Q /\ u = uh * Q + ur
  BY CutParts
<1>2. PICK lh \in 0 .. P - 1, lr \in 0 .. Q - 1 :
          lh = l \div Q /\ lr = l % Q /\ l = lh * Q + lr
  BY CutParts
<1>3. (u * P) % Z = ur * P /\ (l * P) % Z = lr * P
  BY <1>1, <1>2, ShiftedWord
<1>4. Z \in Nat /\ Z >= 1 /\ Z >= P /\ P \in Nat /\ Q \in Nat /\ Q >= 1
  BY CutIs DEF Cut
<1>5. ur * P + lh \in 0 .. Z - 1 /\ lr * P \in 0 .. Z - 1
  BY <1>4, CutScales DEF Cut
<1>6. PICK a \in 0 .. Z - 1, b \in 0 .. Z - 1 : a = ur * P + lh /\ b = lr * P
  BY <1>5
<1>7. u * P = uh * Z + ur * P /\ l * P = lh * Z + b
  <2>1. (uh * Q + ur) * P = uh * (P * Q) + ur * P
    BY <1>4, Scaled
  <2>2. (lh * Q + lr) * P = lh * (P * Q) + lr * P
    BY <1>4, Scaled
  <2>3. Z = P * Q
    BY DEF Cut
  <2>4. QED
    BY <1>1, <1>2, <1>6, <2>1, <2>2, <2>3
<1>8. (u * Z + l) * P = uh * (Z * Z) + (a * Z + b)
  <2>1. PICK x \in Int, y \in Int : x = u * P /\ y = ur * P
    BY <1>4
  <2>2. (u * Z + l) * P = x * Z + l * P
    BY <2>1, <1>4
  <2>3. x * Z = uh * (Z * Z) + y * Z
    BY <2>1, <1>7, <1>4
  <2>4. a * Z = y * Z + lh * Z
    BY <2>1, <1>6, <1>4
  <2>5. x * Z \in Int /\ y * Z \in Int /\ uh * (Z * Z) \in Int /\ lh * Z \in Int /\ a * Z \in Int
    BY <2>1, <1>4
  <2>6. QED
    BY <2>2, <2>3, <2>4, <2>5, <1>7
<1>9. a * Z + b \in 0 .. Z * Z - 1 /\ Z * Z \in Nat /\ Z * Z >= 1
  <2>1. Z * Z \in Nat /\ Z * Z >= 1
    BY <1>4, ProductGrows
  <2>2. a * Z \in Nat /\ (Z - 1 - a) * Z \in Nat /\ a * Z + (Z - 1 - a) * Z = Z * Z - Z
    BY <1>4
  <2>3. QED
    BY <2>1, <2>2, <1>4
<1>10. ((u * Z + l) * P) % (Z * Z) = a * Z + b
  BY <1>8, <1>9, QuotientIs
<1>11. (u * Z + l) \div Q = uh * Z + a
  <2>1. PICK p \in Int : p = u * P /\ p = uh * Z + ur * P
    BY <1>4, <1>7
  <2>2. u * Z = p * Q
    BY <2>1, <1>4 DEF Cut
  <2>3. PICK k \in Int : k = p + lh
    BY <2>1, <1>4
  <2>4. k * Q = p * Q + lh * Q
    BY <2>3, <2>1, <1>4
  <2>5. p * Q \in Int /\ lh * Q \in Int
    BY <2>1, <1>4
  <2>6. u * Z + l = k * Q + lr
    BY <2>2, <2>4, <2>5, <1>2
  <2>7. (k * Q + lr) \div Q = k
    BY <1>4, QuotientIs
  <2>8. PICK g \in Int, m \in Int : g = uh * Z /\ m = ur * P
    BY <1>4
  <2>9. k = g + a
    BY <2>1, <2>3, <2>8, <1>6
  <2>10. QED
    BY <2>6, <2>7, <2>8, <2>9
<1>12. u \div Q \in 0 .. Z - 1
  BY <1>1, <1>4
<1>13. ((u * P) % Z) + (l \div Q) = a /\ (l * P) % Z = b
  BY <1>2, <1>3, <1>6
<1>14. QED
  BY <1>1, <1>10, <1>11, <1>12, <1>13 DEF MovedLeft, MovedRight

\* A pair moved by a whole word and more.
MovedBeyond(S, Z, u, l) ==
    /\ (l * S) % Z \in 0 .. Z - 1
    /\ ((u * Z + l) * (Z * S)) % (Z * Z) = ((l * S) % Z) * Z
    /\ u \div S \in 0 .. Z - 1
    /\ (u * Z + l) \div (Z * S) = u \div S

\* Moved by a word or more: one word stays, in the place of the other.
LEMMA PairBeyond ==
    ASSUME NEW Z \in Nat, Z >= 1, NEW S \in Nat, S >= 1,
           NEW u \in 0 .. Z - 1, NEW l \in 0 .. Z - 1
    PROVE  MovedBeyond(S, Z, u, l)
<1>1. l * S \in Int
  OBVIOUS
<1>2. PICK c \in Int, r \in 0 .. Z - 1 : r = (l * S) % Z /\ l * S = c * Z + r
  <2>1. PICK x \in Int : x = l * S
    BY <1>1
  <2>2. x \div Z \in Int /\ x % Z \in 0 .. Z - 1 /\ x = (x \div Z) * Z + (x % Z)
    BY Divided
  <2>3. QED
    BY <2>1, <2>2
<1>3. (u * Z + l) * (Z * S) = (u * S + c) * (Z * Z) + r * Z
  <2>1. PICK y \in Int : y = u * Z + l
    OBVIOUS
  <2>2. PICK a \in Int, b \in Int : a = u * S /\ b = l * S
    OBVIOUS
  <2>3. y * S = a * Z + b
    BY <2>1, <2>2
  <2>4. y * (Z * S) = (y * S) * Z
    BY <2>1
  <2>5. (a * Z + b) * Z = a * (Z * Z) + b * Z
    OBVIOUS
  <2>6. b * Z = c * (Z * Z) + r * Z
    BY <1>2, <2>2
  <2>7. (a + c) * (Z * Z) = a * (Z * Z) + c * (Z * Z)
    OBVIOUS
  <2>8. PICK v0 \in Int, v1 \in Int, v2 \in Int :
            v0 = a * (Z * Z) /\ v1 = c * (Z * Z) /\ v2 = r * Z
    OBVIOUS
  <2>9. y * (Z * S) = v0 + (v1 + v2)
    BY <2>3, <2>4, <2>5, <2>6, <2>8
  <2>10. (a + c) * (Z * Z) + r * Z = v0 + (v1 + v2)
    BY <2>7, <2>8
  <2>11. QED
    BY <2>1, <2>2, <2>9, <2>10
<1>4. r * Z \in 0 .. Z * Z - 1 /\ Z * Z \in Nat /\ Z * Z >= 1
  <2>1. Z * Z \in Nat /\ Z * Z >= 1
    BY ProductGrows
  <2>2. r * Z \in Nat /\ (Z - 1 - r) * Z \in Nat /\ r * Z + (Z - 1 - r) * Z = Z * Z - Z
    OBVIOUS
  <2>3. QED
    BY <2>1, <2>2
<1>5. ((u * S + c) * (Z * Z) + r * Z) % (Z * Z) = r * Z
  <2>1. PICK g \in Int : g = u * S + c
    OBVIOUS
  <2>2. (g * (Z * Z) + r * Z) % (Z * Z) = r * Z
    BY <1>4, QuotientIs
  <2>3. QED
    BY <2>1, <2>2
<1>6. u \div S \in 0 .. Z - 1
  <2>1. u \div S \in Int /\ u % S \in 0 .. S - 1 /\ u = (u \div S) * S + (u % S)
    BY Divided
  <2>2. PICK w \in Int, s \in 0 .. S - 1 : w = u \div S /\ u = w * S + s
    BY <2>1
  <2>3. w >= 0
    <3>1. SUFFICES ASSUME w <= -1
                   PROVE  FALSE
      BY <2>2
    <3>2. (-1 - w) * S \in Nat /\ (-1 - w) * S = -S - w * S
      BY <3>1
    <3>3. QED
      BY <2>2, <3>2
  <2>4. w * S >= w
    BY <2>3, ProductGrows, S * w \in Nat /\ S * w >= w
  <2>5. QED
    BY <2>2, <2>3, <2>4
<1>7. (u * Z + l) \div (Z * S) = u \div S
  <2>1. PICK y \in Nat : y = u * Z + l
    OBVIOUS
  <2>2. y \div (S * Z) = (y \div Z) \div S
    BY DividedTwice
  <2>3. (u * Z + l) \div Z = u
    BY QuotientIs
  <2>4. S * Z = Z * S
    OBVIOUS
  <2>5. QED
    BY <2>1, <2>2, <2>3, <2>4
<1>8. QED
  BY <1>2, <1>3, <1>5, <1>6, <1>7 DEF MovedBeyond

\* A number moved by all its bits and more.
LEMMA AllBeyond ==
    ASSUME NEW Z \in Nat, Z >= 1, NEW S \in Nat, S >= 1, NEW x \in 0 .. Z - 1
    PROVE  (x * (Z * S)) % Z = 0 /\ x \div (Z * S) = 0
<1>1. Z * S \in Nat /\ Z * S >= Z
  <2>1. S * Z \in Nat /\ S * Z >= Z
    BY ProductGrows
  <2>2. QED
    BY <2>1
<1>2. x * (Z * S) = (x * S) * Z + 0
  OBVIOUS
<1>3. ((x * S) * Z + 0) % Z = 0
  <2>1. PICK g \in Int : g = x * S
    OBVIOUS
  <2>2. (g * Z + 0) % Z = 0
    BY QuotientIs
  <2>3. QED
    BY <2>1, <2>2
<1>4. PICK d \in Nat : d = Z * S /\ d >= Z
  BY <1>1
<1>5. (0 * d + x) \div d = 0
  BY <1>4, QuotientIs
<1>6. QED
  BY <1>2, <1>3, <1>4, <1>5

-----------------------------------------------------------------------------
(* The same in bits *)

Up(x, k, Z) == (x * Power(2, k)) % Z
Down(x, k)  == x \div Power(2, k)

\* The powers of two the shifts are made of.
LEMMA PowersOfTwo ==
    ASSUME NEW k \in Nat
    PROVE  /\ Power(2, k) \in Nat /\ Power(2, k) >= 1
           /\ Power(2, k + 1) = 2 * Power(2, k)
           /\ \A j \in Nat : Power(2, k + j) = Power(2, k) * Power(2, j)
<1>1. Power(2, k) \in Nat /\ Power(2, k) >= 1
  BY PowerIsPositive
<1>2. Power(2, k + 1) = 2 * Power(2, k)
  BY PowerSteps
<1>3. \A j \in Nat : Power(2, k + j) = Power(2, k) * Power(2, j)
  BY PowerOfSum
<1>4. QED
  BY <1>1, <1>2, <1>3

\* The cases the code distinguishes, for a pair of words of B bits.
UpByCases(u, l, k, B, Z, x) ==
    /\ 0 < k /\ k < B => /\ Up(u, k, Z) + Down(l, B - k) \in 0 .. Z - 1
                         /\ Up(l, k, Z) \in 0 .. Z - 1
                         /\ x = (Up(u, k, Z) + Down(l, B - k)) * Z + Up(l, k, Z)
    /\ k = 0 => x = u * Z + l
    /\ k = B => x = l * Z
    /\ B < k /\ k < 2 * B => Up(l, k - B, Z) \in 0 .. Z - 1 /\ x = Up(l, k - B, Z) * Z
    /\ k >= 2 * B => x = 0

DownByCases(u, l, k, B, Z, x) ==
    /\ 0 < k /\ k < B => /\ Up(u, B - k, Z) + Down(l, k) \in 0 .. Z - 1
                         /\ Down(u, k) \in 0 .. Z - 1
                         /\ x = Down(u, k) * Z + (Up(u, B - k, Z) + Down(l, k))
    /\ k = 0 => x = u * Z + l
    /\ k = B => x = u
    /\ B < k /\ k < 2 * B => Down(u, k - B) \in 0 .. Z - 1 /\ x = Down(u, k - B)
    /\ k >= 2 * B => x = 0

\* In each of the cases of the code the pair is the number, moved.
LEMMA PairMoved ==
    ASSUME NEW B \in Nat, B >= 1, NEW Z, Z = Power(2, B),
           NEW u \in 0 .. Z - 1, NEW l \in 0 .. Z - 1, NEW k \in Nat
    PROVE  /\ UpByCases(u, l, k, B, Z, Up(u * Z + l, k, Z * Z))
           /\ DownByCases(u, l, k, B, Z, Down(u * Z + l, k))
<1>1. Z \in Nat /\ Z >= 1
  BY PowersOfTwo
<1>2. CASE 0 < k /\ k < B
  <2>1. PICK j \in Nat : j = B - k /\ 0 < j /\ j < B /\ k = B - j
    BY <1>2
  <2>2. PICK P \in Nat, Q \in Nat : P = Power(2, k) /\ Q = Power(2, j) /\ P >= 1 /\ Q >= 1
    BY PowersOfTwo
  <2>3. Power(2, k + j) = P * Q
    BY <2>2, PowersOfTwo
  <2>4. k + j = B
    BY <2>1
  <2>5. Cut(P, Q, Z) /\ Cut(Q, P, Z)
    <3>1. Z = P * Q /\ P * Q = Q * P
      BY <2>3, <2>4
    <3>2. QED
      BY <2>2, <3>1 DEF Cut
  <2>6. MovedLeft(P, Q, Z, u, l)
    BY <2>5, ShiftedPair
  <2>7. MovedRight(Q, P, Z, u, l)
    BY <2>5, ShiftedPair
  <2>8. UpByCases(u, l, k, B, Z, Up(u * Z + l, k, Z * Z))
    BY <1>2, <2>1, <2>2, <2>6 DEF UpByCases, Up, Down, MovedLeft
  <2>9. DownByCases(u, l, k, B, Z, Down(u * Z + l, k))
    BY <1>2, <2>1, <2>2, <2>7 DEF DownByCases, Up, Down, MovedRight
  <2>10. QED
    BY <2>8, <2>9
<1>3. CASE k = 0
  <2>1. PICK x \in Nat : x = u * Z + l /\ x \in 0 .. Z * Z - 1
    <3>1. u * Z \in Nat /\ (Z - 1 - u) * Z \in Nat /\ u * Z + (Z - 1 - u) * Z = Z * Z - Z
      BY <1>1
    <3>2. Z * Z \in Int
      BY <1>1
    <3>3. QED
      BY <1>1, <3>1, <3>2
  <2>2. PICK S \in Nat : S = Z * Z /\ S >= 1
    BY <1>1, ProductGrows
  <2>3. Power(2, k) = 1
    BY <1>3, PowerSteps
  <2>4. (0 * S + x) % S = x
    BY <2>1, <2>2, QuotientIs
  <2>5. (x * 1 + 0) \div 1 = x
    BY QuotientIs
  <2>6. Up(u * Z + l, k, Z * Z) = x /\ Down(u * Z + l, k) = x
    BY <2>1, <2>2, <2>3, <2>4, <2>5 DEF Up, Down
  <2>7. QED
    BY <1>3, <2>1, <2>6 DEF UpByCases, DownByCases
<1>4. CASE k >= B /\ k < 2 * B
  <2>1. PICK j \in Nat : k = B + j
    <3>1. k - B \in Nat /\ k = B + (k - B)
      BY <1>4
    <3>2. QED
      BY <3>1
  <2>2. PICK S \in Nat : S = Power(2, j) /\ S >= 1
    BY PowersOfTwo
  <2>3. Power(2, k) = Z * S
    BY <2>1, <2>2, PowersOfTwo
  <2>4. MovedBeyond(S, Z, u, l)
    BY <1>1, <2>2, PairBeyond
  <2>5. /\ Up(l, j, Z) \in 0 .. Z - 1
        /\ Up(u * Z + l, k, Z * Z) = Up(l, j, Z) * Z
        /\ Down(u, j) \in 0 .. Z - 1
        /\ Down(u * Z + l, k) = Down(u, j)
    BY <2>2, <2>3, <2>4 DEF Up, Down, MovedBeyond
  <2>6. j = 0 => Up(l, j, Z) = l /\ Down(u, j) = u
    <3>1. SUFFICES ASSUME j = 0
                   PROVE  Up(l, j, Z) = l /\ Down(u, j) = u
      OBVIOUS
    <3>2. Power(2, j) = 1
      BY <3>1, PowerSteps
    <3>3. (0 * Z + l) % Z = l
      BY <1>1, QuotientIs
    <3>4. (u * 1 + 0) \div 1 = u
      BY QuotientIs
    <3>5. l * 1 = l /\ 0 * Z + l = l /\ u * 1 + 0 = u
      BY <1>1
    <3>6. QED
      BY <3>2, <3>3, <3>4, <3>5 DEF Up, Down
  <2>7. k - B = j
    BY <2>1
  <2>8. QED
    BY <1>4, <2>1, <2>5, <2>6, <2>7 DEF UpByCases, DownByCases
<1>5. CASE k >= 2 * B
  <2>1. PICK j \in Nat : k = (B + B) + j
    <3>1. k - (B + B) \in Nat /\ k = (B + B) + (k - (B + B))
      BY <1>5
    <3>2. QED
      BY <3>1
  <2>2. PICK S \in Nat : S = Power(2, j) /\ S >= 1
    BY PowersOfTwo
  <2>3. PICK ZZ \in Nat : ZZ = Z * Z /\ ZZ >= 1
    BY <1>1, ProductGrows
  <2>4. Power(2, B + B) = ZZ
    BY <2>3, PowersOfTwo
  <2>5. Power(2, (B + B) + j) = Power(2, B + B) * Power(2, j)
    BY PowersOfTwo
  <2>6. PICK x \in 0 .. ZZ - 1 : x = u * Z + l
    <3>1. u * Z \in Nat /\ (Z - 1 - u) * Z \in Nat /\ u * Z + (Z - 1 - u) * Z = Z * Z - Z
      BY <1>1
    <3>2. QED
      BY <1>1, <3>1, <2>3
  <2>7. (x * (ZZ * S)) % ZZ = 0 /\ x \div (ZZ * S) = 0
    BY <2>2, <2>3, AllBeyond
  <2>8. Up(u * Z + l, k, Z * Z) = 0 /\ Down(u * Z + l, k) = 0
    BY <2>1, <2>2, <2>3, <2>4, <2>5, <2>6, <2>7 DEF Up, Down
  <2>9. QED
    BY <1>5, <2>8 DEF UpByCases, DownByCases
<1>6. QED
  BY <1>2, <1>3, <1>4, <1>5

\* The widths of the words, in bits and as bounds.
LEMMA WordBits ==
    /\ Bits64 \in Nat /\ Bits64 >= 1 /\ Word = Power(2, Bits64)
    /\ Bits128 \in Nat /\ Bits128 >= 1 /\ Square = Power(2, Bits128) /\ Bits128 = 2 * Bits64
    /\ Bits256 \in Nat /\ Square * Square = Power(2, Bits256) /\ Bits256 = 2 * Bits128
<1>1. HalfBits \in Nat /\ HalfBits >= 1 /\ Half = Power(2, HalfBits)
  BY BitsAssumption
<1>2. Power(2, HalfBits + HalfBits) = Word
  BY <1>1, PowersOfTwo DEF Word
<1>3. Bits64 \in Nat /\ Bits64 >= 1 /\ Bits64 = HalfBits + HalfBits
  BY <1>1 DEF Bits64
<1>4. Power(2, Bits64 + Bits64) = Square
  BY <1>2, <1>3, PowersOfTwo DEF Square
<1>5. Bits128 \in Nat /\ Bits128 >= 1 /\ Bits128 = Bits64 + Bits64 /\ Bits128 = 2 * Bits64
  BY <1>3 DEF Bits128
<1>6. Power(2, Bits128 + Bits128) = Square * Square
  BY <1>4, <1>5, PowersOfTwo
<1>7. Bits256 \in Nat /\ Bits256 = Bits128 + Bits128 /\ Bits256 = 2 * Bits128
  BY <1>5 DEF Bits256
<1>8. QED
  BY <1>2, <1>3, <1>4, <1>5, <1>6, <1>7

\* A word is its own remainder.
LEMMA ReducedIsSame ==
    ASSUME NEW x \in Word64
    PROVE  x % Word = x
<1>1. Word \in Nat /\ Word >= 1 /\ x \in 0 .. Word - 1
  BY WordIsNat DEF Word64
<1>2. (0 * Word + x) % Word = x
  BY <1>1, QuotientIs
<1>3. QED
  BY <1>1, <1>2

\* A 128 bit number and its words.
LEMMA PartsOf128 ==
    ASSUME NEW n \in UInt128
    PROVE  /\ n.upper \in 0 .. Word - 1 /\ n.lower \in 0 .. Word - 1
           /\ n = Pair(n.upper, n.lower)
           /\ Value128(n) = n.upper * Word + n.lower
  BY DEF UInt128, Word64, Pair, Value128

\* Two words are a 128 bit number.
LEMMA PairIs128 ==
    ASSUME NEW u \in 0 .. Word - 1, NEW l \in 0 .. Word - 1
    PROVE  Pair(u, l) \in UInt128 /\ Value128(Pair(u, l)) = u * Word + l
  BY PairOfWords DEF Word64

\* The 128 bit zero.
LEMMA ZeroIs128 == 0 \in 0 .. Word - 1 /\ Zero128 \in UInt128 /\ Value128(Zero128) = 0
<1>1. Word \in Nat /\ Word >= 2
  BY WordIsNat
<1>2. 0 \in 0 .. Word - 1
  BY <1>1
<1>3. Pair(0, 0) \in UInt128 /\ Value128(Pair(0, 0)) = 0 * Word + 0
  BY <1>2, PairIs128
<1>4. QED
  BY <1>1, <1>2, <1>3 DEF Zero128

\* The shifts of C on one word.
LEMMA WordsMove == \A w, k : Shl(w, k) = Up(w, k, Word) /\ Shr(w, k) = Down(w, k)
  BY DEF Shl, Shr, Up, Down

\* uint256.c, shiftl128 and shiftr128: a number moved by any number of bits.
LEMMA Shift128Is ==
    ASSUME NEW n \in UInt128, NEW k \in Nat
    PROVE  /\ shiftLeft128(n, k) \in UInt128
           /\ Value128(shiftLeft128(n, k)) = Up(Value128(n), k, Square)
           /\ shiftRight128(n, k) \in UInt128
           /\ Value128(shiftRight128(n, k)) = Down(Value128(n), k)
<1>1. PICK u \in 0 .. Word - 1, l \in 0 .. Word - 1 :
          u = n.upper /\ l = n.lower /\ n = Pair(u, l) /\ Value128(n) = u * Word + l
  BY PartsOf128
<1>2. Bits64 \in Nat /\ Bits64 >= 1 /\ Word = Power(2, Bits64) /\ Bits128 = 2 * Bits64
  BY WordBits
<1> DEFINE x == Up(u * Word + l, k, Word * Word)
           y == Down(u * Word + l, k)
<1>3. UpByCases(u, l, k, Bits64, Word, x) /\ DownByCases(u, l, k, Bits64, Word, y)
  BY <1>2, PairMoved
<1>4. Value128(n) = u * Word + l /\ x = Up(Value128(n), k, Square) /\ y = Down(Value128(n), k)
  BY <1>1 DEF Square
<1> HIDE DEF x, y
<1>5. Word \in Nat /\ Word >= 2
  BY WordIsNat
<1>6. shiftLeft128(n, k) \in UInt128 /\ Value128(shiftLeft128(n, k)) = x
  <2>1. CASE k >= Bits128
    <3>1. shiftLeft128(n, k) = Zero128
      BY <2>1, <1>2 DEF shiftLeft128
    <3>2. x = 0
      BY <2>1, <1>2, <1>3 DEF UpByCases
    <3>3. QED
      BY <3>1, <3>2, ZeroIs128
  <2>2. CASE k = Bits64
    <3>1. shiftLeft128(n, k) = Pair(l, 0)
      BY <2>2, <1>1, <1>2 DEF shiftLeft128
    <3>2. x = l * Word
      BY <2>2, <1>2, <1>3 DEF UpByCases
    <3>3. Pair(l, 0) \in UInt128 /\ Value128(Pair(l, 0)) = l * Word + 0
      BY PairIs128, ZeroIs128
    <3>4. QED
      BY <3>1, <3>2, <3>3, <1>5
  <2>3. CASE k = 0
    <3>1. shiftLeft128(n, k) = n
      BY <2>3, <1>2 DEF shiftLeft128
    <3>2. x = u * Word + l
      BY <2>3, <1>3 DEF UpByCases
    <3>3. QED
      BY <3>1, <3>2, <1>1
  <2>4. CASE 0 < k /\ k < Bits64
    <3>1. PICK a \in 0 .. Word - 1, b \in 0 .. Word - 1 :
              /\ a = Up(u, k, Word) + Down(l, Bits64 - k) /\ b = Up(l, k, Word)
              /\ x = a * Word + b
      BY <2>4, <1>3 DEF UpByCases
    <3>2. a % Word = a
      BY ReducedIsSame DEF Word64
    <3>3. shiftLeft128(n, k) = Pair((Up(u, k, Word) + Down(l, Bits64 - k)) % Word, Up(l, k, Word))
      BY <2>4, <1>1, <1>2, WordsMove DEF shiftLeft128
    <3>4. QED
      BY <3>1, <3>2, <3>3, PairIs128
  <2>5. CASE Bits64 < k /\ k < Bits128
    <3>1. PICK a \in 0 .. Word - 1 : a = Up(l, k - Bits64, Word) /\ x = a * Word
      BY <2>5, <1>2, <1>3 DEF UpByCases
    <3>2. shiftLeft128(n, k) = Pair(a, 0)
      <4>1. ~(k >= Bits128) /\ k # Bits64 /\ k # 0 /\ ~(k < Bits64)
        BY <2>5, <1>2
      <4>2. shiftLeft128(n, k) = Pair(Shl(n.lower, k - Bits64), 0)
        BY <4>1, <2>5 DEF shiftLeft128
      <4>3. QED
        BY <4>2, <1>1, <3>1, WordsMove
    <3>3. Pair(a, 0) \in UInt128 /\ Value128(Pair(a, 0)) = a * Word + 0
      BY PairIs128, ZeroIs128
    <3>4. QED
      BY <3>1, <3>2, <3>3, <1>5
  <2>6. QED
    BY <2>1, <2>2, <2>3, <2>4, <2>5, <1>2
<1>7. shiftRight128(n, k) \in UInt128 /\ Value128(shiftRight128(n, k)) = y
  <2>1. CASE k >= Bits128
    <3>1. shiftRight128(n, k) = Zero128
      BY <2>1, <1>2 DEF shiftRight128
    <3>2. y = 0
      BY <2>1, <1>2, <1>3 DEF DownByCases
    <3>3. QED
      BY <3>1, <3>2, ZeroIs128
  <2>2. CASE k = Bits64
    <3>1. shiftRight128(n, k) = Pair(0, u)
      BY <2>2, <1>1, <1>2 DEF shiftRight128
    <3>2. y = u
      BY <2>2, <1>2, <1>3 DEF DownByCases
    <3>3. Pair(0, u) \in UInt128 /\ Value128(Pair(0, u)) = 0 * Word + u
      BY PairIs128, ZeroIs128
    <3>4. QED
      BY <3>1, <3>2, <3>3, <1>5
  <2>3. CASE k = 0
    <3>1. shiftRight128(n, k) = n
      BY <2>3, <1>2 DEF shiftRight128
    <3>2. y = u * Word + l
      BY <2>3, <1>3 DEF DownByCases
    <3>3. QED
      BY <3>1, <3>2, <1>1
  <2>4. CASE 0 < k /\ k < Bits64
    <3>1. PICK a \in 0 .. Word - 1, b \in 0 .. Word - 1 :
              /\ a = Down(u, k) /\ b = Up(u, Bits64 - k, Word) + Down(l, k)
              /\ y = a * Word + b
      BY <2>4, <1>3 DEF DownByCases
    <3>2. b % Word = b
      BY ReducedIsSame DEF Word64
    <3>3. shiftRight128(n, k) = Pair(Down(u, k), (Up(u, Bits64 - k, Word) + Down(l, k)) % Word)
      BY <2>4, <1>1, <1>2, WordsMove DEF shiftRight128
    <3>4. QED
      BY <3>1, <3>2, <3>3, PairIs128
  <2>5. CASE Bits64 < k /\ k < Bits128
    <3>1. PICK a \in 0 .. Word - 1 : a = Down(u, k - Bits64) /\ y = a
      BY <2>5, <1>2, <1>3 DEF DownByCases
    <3>2. shiftRight128(n, k) = Pair(0, a)
      <4>1. ~(k >= Bits128) /\ k # Bits64 /\ k # 0 /\ ~(k < Bits64)
        BY <2>5, <1>2
      <4>2. shiftRight128(n, k) = Pair(0, Shr(n.upper, k - Bits64))
        BY <4>1, <2>5 DEF shiftRight128
      <4>3. QED
        BY <4>2, <1>1, <3>1, WordsMove
    <3>3. Pair(0, a) \in UInt128 /\ Value128(Pair(0, a)) = 0 * Word + a
      BY PairIs128, ZeroIs128
    <3>4. QED
      BY <3>1, <3>2, <3>3, <1>5
  <2>6. QED
    BY <2>1, <2>2, <2>3, <2>4, <2>5, <1>2
<1>8. QED
  BY <1>4, <1>6, <1>7

\* A 256 bit number and its halves.
LEMMA PartsOf256 ==
    ASSUME NEW n \in UInt256
    PROVE  /\ n.upper \in UInt128 /\ n.lower \in UInt128
           /\ n = Pair(n.upper, n.lower)
           /\ Value128(n.upper) \in 0 .. Square - 1 /\ Value128(n.lower) \in 0 .. Square - 1
           /\ Value256(n) = Value128(n.upper) * Square + Value128(n.lower)
<1>1. n.upper \in UInt128 /\ n.lower \in UInt128 /\ n = Pair(n.upper, n.lower)
  BY DEF UInt256, Pair
<1>2. \A a \in UInt128 : Value128(a) \in 0 .. Square - 1
  BY Value128IsSmall, WordIsNat
<1>3. QED
  BY <1>1, <1>2 DEF Value256, Square

\* Two halves are a 256 bit number.
LEMMA PairIs256 ==
    ASSUME NEW u \in UInt128, NEW l \in UInt128
    PROVE  Pair(u, l) \in UInt256
           /\ Value256(Pair(u, l)) = Value128(u) * Square + Value128(l)
  BY DEF UInt256, Pair, Value256, Square

\* The 256 bit zero.
LEMMA ZeroIs256 == Zero256 \in UInt256 /\ Value256(Zero256) = 0
<1>1. Square \in Nat /\ Zero128 \in UInt128 /\ Value128(Zero128) = 0
  BY WordIsNat, ZeroIs128
<1>2. Pair(Zero128, Zero128) \in UInt256
      /\ Value256(Pair(Zero128, Zero128)) = Value128(Zero128) * Square + Value128(Zero128)
  BY <1>1, PairIs256
<1>3. QED
  BY <1>1, <1>2 DEF Zero256

\* uint256.c, shiftl256 and shiftr256.
LEMMA Shift256Is ==
    ASSUME NEW n \in UInt256, NEW k \in Nat
    PROVE  /\ shiftLeft256(n, k) \in UInt256
           /\ Value256(shiftLeft256(n, k)) = Up(Value256(n), k, Square * Square)
           /\ shiftRight256(n, k) \in UInt256
           /\ Value256(shiftRight256(n, k)) = Down(Value256(n), k)
<1>1. PICK p \in UInt128, q \in UInt128 : p = n.upper /\ q = n.lower /\ n = Pair(p, q)
  BY PartsOf256
<1>2. PICK u \in 0 .. Square - 1, l \in 0 .. Square - 1 :
          u = Value128(p) /\ l = Value128(q) /\ Value256(n) = u * Square + l
  BY <1>1, PartsOf256
<1>3. Bits128 \in Nat /\ Bits128 >= 1 /\ Square = Power(2, Bits128) /\ Bits256 = 2 * Bits128
  BY WordBits
<1> DEFINE x == Up(u * Square + l, k, Square * Square)
           y == Down(u * Square + l, k)
<1>4. UpByCases(u, l, k, Bits128, Square, x) /\ DownByCases(u, l, k, Bits128, Square, y)
  BY <1>3, PairMoved
<1>5. x = Up(Value256(n), k, Square * Square) /\ y = Down(Value256(n), k)
  BY <1>2
<1> HIDE DEF x, y
<1>6. Square \in Nat /\ Square >= 2
  BY WordIsNat
<1>7. \A j \in Nat : /\ shiftLeft128(q, j) \in UInt128
                     /\ Value128(shiftLeft128(q, j)) = Up(l, j, Square)
                     /\ shiftRight128(p, j) \in UInt128
                     /\ Value128(shiftRight128(p, j)) = Down(u, j)
  BY <1>2, Shift128Is
<1>8. \A j \in Nat : /\ shiftLeft128(p, j) \in UInt128
                     /\ Value128(shiftLeft128(p, j)) = Up(u, j, Square)
                     /\ shiftRight128(q, j) \in UInt128
                     /\ Value128(shiftRight128(q, j)) = Down(l, j)
  BY <1>2, Shift128Is
<1>9. Zero128 \in UInt128 /\ Value128(Zero128) = 0
  BY ZeroIs128
<1>10. shiftLeft256(n, k) \in UInt256 /\ Value256(shiftLeft256(n, k)) = x
  <2>1. CASE k >= Bits256
    <3>1. shiftLeft256(n, k) = Zero256
      BY <2>1, <1>3 DEF shiftLeft256
    <3>2. x = 0
      BY <2>1, <1>3, <1>4 DEF UpByCases
    <3>3. QED
      BY <3>1, <3>2, ZeroIs256
  <2>2. CASE k = Bits128
    <3>1. shiftLeft256(n, k) = Pair(q, Zero128)
      BY <2>2, <1>1, <1>3 DEF shiftLeft256
    <3>2. x = l * Square
      BY <2>2, <1>3, <1>4 DEF UpByCases
    <3>3. Pair(q, Zero128) \in UInt256
          /\ Value256(Pair(q, Zero128)) = Value128(q) * Square + Value128(Zero128)
      BY <1>9, PairIs256
    <3>4. QED
      BY <3>1, <3>2, <3>3, <1>2, <1>6, <1>9
  <2>3. CASE k = 0
    <3>1. shiftLeft256(n, k) = n
      BY <2>3, <1>3 DEF shiftLeft256
    <3>2. x = u * Square + l
      BY <2>3, <1>4 DEF UpByCases
    <3>3. QED
      BY <3>1, <3>2, <1>2
  <2>4. CASE 0 < k /\ k < Bits128
    <3>1. PICK j \in Nat : j = Bits128 - k
      BY <2>4, <1>3
    <3>2. PICK a \in 0 .. Square - 1, b \in 0 .. Square - 1 :
              /\ a = Up(u, k, Square) + Down(l, j) /\ b = Up(l, k, Square)
              /\ x = a * Square + b
      BY <2>4, <1>4, <3>1 DEF UpByCases
    <3>3. PICK h \in UInt128, i \in UInt128, m \in UInt128 :
              h = shiftLeft128(p, k) /\ i = shiftRight128(q, j) /\ m = shiftLeft128(q, k)
      BY <1>7, <1>8
    <3>4. shiftLeft256(n, k) = Pair(add128(h, i), m)
      <4>1. ~(k >= Bits256) /\ k # Bits128 /\ k # 0 /\ ~(Bits128 < k)
        BY <2>4, <1>3
      <4>2. shiftLeft256(n, k)
                = Pair(add128(shiftLeft128(n.upper, k), shiftRight128(n.lower, Bits128 - k)),
                       shiftLeft128(n.lower, k))
        BY <4>1, <2>4 DEF shiftLeft256
      <4>3. QED
        BY <4>2, <1>1, <3>1, <3>3
    <3>5. Value128(h) + Value128(i) = a /\ Value128(m) = b
      BY <1>7, <1>8, <3>2, <3>3
    <3>6. add128(h, i) \in UInt128 /\ Value128(add128(h, i)) = Value128(h) + Value128(i)
      BY <3>5, <1>6, ExactSum128
    <3>7. Pair(add128(h, i), m) \in UInt256
          /\ Value256(Pair(add128(h, i), m)) = Value128(add128(h, i)) * Square + Value128(m)
      BY <3>6, PairIs256
    <3>8. QED
      BY <3>2, <3>4, <3>5, <3>6, <3>7
  <2>5. CASE Bits128 < k /\ k < Bits256
    <3>1. PICK j \in Nat : j = k - Bits128
      BY <2>5, <1>3
    <3>2. x = Up(l, j, Square) * Square
      BY <2>5, <1>3, <1>4, <3>1 DEF UpByCases
    <3>3. shiftLeft256(n, k) = Pair(shiftLeft128(q, j), Zero128)
      <4>1. ~(k >= Bits256) /\ k # Bits128 /\ k # 0 /\ ~(k < Bits128)
        BY <2>5, <1>3
      <4>2. shiftLeft256(n, k) = Pair(shiftLeft128(n.lower, k - Bits128), Zero128)
        BY <4>1, <2>5 DEF shiftLeft256
      <4>3. QED
        BY <4>2, <1>1, <3>1
    <3>4. PICK m \in UInt128 : m = shiftLeft128(q, j) /\ Value128(m) = Up(l, j, Square)
      BY <1>7
    <3>5. Pair(m, Zero128) \in UInt256
          /\ Value256(Pair(m, Zero128)) = Value128(m) * Square + Value128(Zero128)
      BY <1>9, PairIs256
    <3>6. Value128(m) \in Nat
      BY Value128IsSmall
    <3>7. QED
      BY <3>2, <3>3, <3>4, <3>5, <3>6, <1>6, <1>9
  <2>6. QED
    BY <2>1, <2>2, <2>3, <2>4, <2>5, <1>3
<1>11. shiftRight256(n, k) \in UInt256 /\ Value256(shiftRight256(n, k)) = y
  <2>1. CASE k >= Bits256
    <3>1. shiftRight256(n, k) = Zero256
      BY <2>1, <1>3 DEF shiftRight256
    <3>2. y = 0
      BY <2>1, <1>3, <1>4 DEF DownByCases
    <3>3. QED
      BY <3>1, <3>2, ZeroIs256
  <2>2. CASE k = Bits128
    <3>1. shiftRight256(n, k) = Pair(Zero128, p)
      BY <2>2, <1>1, <1>3 DEF shiftRight256
    <3>2. y = u
      BY <2>2, <1>3, <1>4 DEF DownByCases
    <3>3. Pair(Zero128, p) \in UInt256
          /\ Value256(Pair(Zero128, p)) = Value128(Zero128) * Square + Value128(p)
      BY <1>9, PairIs256
    <3>4. QED
      BY <3>1, <3>2, <3>3, <1>2, <1>6, <1>9
  <2>3. CASE k = 0
    <3>1. shiftRight256(n, k) = n
      BY <2>3, <1>3 DEF shiftRight256
    <3>2. y = u * Square + l
      BY <2>3, <1>4 DEF DownByCases
    <3>3. QED
      BY <3>1, <3>2, <1>2
  <2>4. CASE 0 < k /\ k < Bits128
    <3>1. PICK j \in Nat : j = Bits128 - k
      BY <2>4, <1>3
    <3>2. PICK a \in 0 .. Square - 1, b \in 0 .. Square - 1 :
              /\ a = Down(u, k) /\ b = Up(u, j, Square) + Down(l, k)
              /\ y = a * Square + b
      BY <2>4, <1>4, <3>1 DEF DownByCases
    <3>3. PICK h \in UInt128, i \in UInt128, m \in UInt128 :
              h = shiftRight128(q, k) /\ i = shiftLeft128(p, j) /\ m = shiftRight128(p, k)
      BY <1>7, <1>8
    <3>4. shiftRight256(n, k) = Pair(m, add128(h, i))
      <4>1. ~(k >= Bits256) /\ k # Bits128 /\ k # 0 /\ ~(Bits128 < k)
        BY <2>4, <1>3
      <4>2. shiftRight256(n, k)
                = Pair(shiftRight128(n.upper, k),
                       add128(shiftRight128(n.lower, k), shiftLeft128(n.upper, Bits128 - k)))
        BY <4>1, <2>4 DEF shiftRight256
      <4>3. QED
        BY <4>2, <1>1, <3>1, <3>3
    <3>5. Value128(h) + Value128(i) = b /\ Value128(m) = a
      <4>1. Value128(h) = Down(l, k) /\ Value128(i) = Up(u, j, Square) /\ Value128(m) = a
        BY <1>7, <1>8, <3>2, <3>3
      <4>2. Value128(h) \in Nat /\ Value128(i) \in Nat
        BY Value128IsSmall
      <4>3. QED
        BY <4>1, <4>2, <3>2
    <3>6. add128(h, i) \in UInt128 /\ Value128(add128(h, i)) = Value128(h) + Value128(i)
      BY <3>5, <1>6, ExactSum128
    <3>7. Pair(m, add128(h, i)) \in UInt256
          /\ Value256(Pair(m, add128(h, i))) = Value128(m) * Square + Value128(add128(h, i))
      BY <3>6, PairIs256
    <3>8. QED
      BY <3>2, <3>4, <3>5, <3>6, <3>7
  <2>5. CASE Bits128 < k /\ k < Bits256
    <3>1. PICK j \in Nat : j = k - Bits128
      BY <2>5, <1>3
    <3>2. y = Down(u, j)
      BY <2>5, <1>3, <1>4, <3>1 DEF DownByCases
    <3>3. shiftRight256(n, k) = Pair(Zero128, shiftRight128(p, j))
      <4>1. ~(k >= Bits256) /\ k # Bits128 /\ k # 0 /\ ~(k < Bits128)
        BY <2>5, <1>3
      <4>2. shiftRight256(n, k) = Pair(Zero128, shiftRight128(n.upper, k - Bits128))
        BY <4>1, <2>5 DEF shiftRight256
      <4>3. QED
        BY <4>2, <1>1, <3>1
    <3>4. PICK m \in UInt128 : m = shiftRight128(p, j) /\ Value128(m) = Down(u, j)
      BY <1>7
    <3>5. Pair(Zero128, m) \in UInt256
          /\ Value256(Pair(Zero128, m)) = Value128(Zero128) * Square + Value128(m)
      BY <1>9, PairIs256
    <3>6. Value128(m) \in Nat
      BY Value128IsSmall
    <3>7. QED
      BY <3>2, <3>3, <3>4, <3>5, <3>6, <1>6, <1>9
  <2>6. QED
    BY <2>1, <2>2, <2>3, <2>4, <2>5, <1>3
<1>12. QED
  BY <1>5, <1>10, <1>11

-----------------------------------------------------------------------------
(* Counting bits *)

\* k halvings leave nothing of a number below the k-th power of two, and of no other.
LEMMA BelowOrHalved ==
    ASSUME NEW x \in Nat, NEW k \in Nat
    PROVE  /\ Down(x, k) \in Nat
           /\ Down(x, k) = 0 <=> x < Power(2, k)
           /\ Down(Down(x, k), 1) = Down(x, k + 1)
<1>1. PICK p \in Nat : p = Power(2, k) /\ p >= 1 /\ Power(2, k + 1) = 2 * p
  BY PowersOfTwo
<1>2. p \in Nat /\ p >= 1
  BY <1>1
<1>3. PICK q \in Int, s \in 0 .. p - 1 : q = x \div p /\ x = q * p + s
  BY <1>2, Divided
<1>4. q \in Nat
  <2>1. SUFFICES ASSUME q <= -1
                 PROVE  FALSE
    BY <1>3
  <2>2. (-1 - q) * p \in Nat /\ (-1 - q) * p = -p - q * p
    BY <2>1
  <2>3. q * p \in Int
    BY <1>3
  <2>4. QED
    BY <1>3, <2>2, <2>3
<1>5. q = 0 <=> x < p
  <2>1. CASE q = 0
    BY <1>3, <2>1
  <2>2. CASE q >= 1
    <3>1. q * p >= p /\ q * p \in Nat
      BY <1>1, <1>4, <2>2, ProductGrows
    <3>2. QED
      BY <1>3, <2>2, <3>1
  <2>3. QED
    BY <1>4, <2>1, <2>2
<1>6. x \div (2 * p) = (x \div p) \div 2
  BY <1>1, DividedTwice
<1>7. Power(2, 1) = 2
  BY PowersOfTwo, PowerSteps, Power(2, 0 + 1) = 2 * Power(2, 0), Power(2, 0) = 1
<1>8. QED
  BY <1>1, <1>3, <1>4, <1>5, <1>6, <1>7 DEF Down

\* uint256.c, zero256: all words are zero if and only if the number is.
LEMMA ZeroIsNought ==
    ASSUME NEW n \in UInt256
    PROVE  isZero256(n) <=> Value256(n) = 0
<1>1. Word \in Nat /\ Word >= 2 /\ Square \in Nat /\ Square >= 2
  BY WordIsNat
<1>2. \A a \in UInt128 : isZero128(a) <=> Value128(a) = 0
  <2> SUFFICES ASSUME NEW a \in UInt128
               PROVE  isZero128(a) <=> Value128(a) = 0
    OBVIOUS
  <2>1. PICK u \in Nat, l \in Nat : u = a.upper /\ l = a.lower /\ Value128(a) = u * Word + l
    BY <1>1, PartsOf128
  <2>2. u = 0 => u * Word = 0
    BY <1>1
  <2>3. u >= 1 => u * Word >= 1
    BY <1>1, ProductGrows
  <2>4. PICK w \in Nat : w = u * Word
    BY <1>1
  <2>5. w + l = 0 <=> u = 0 /\ l = 0
    BY <2>2, <2>3, <2>4
  <2>6. QED
    BY <2>1, <2>4, <2>5 DEF isZero128
<1>3. PICK p \in UInt128, q \in UInt128 : p = n.upper /\ q = n.lower
  BY PartsOf256
<1>4. PICK u \in Nat, l \in Nat :
          u = Value128(p) /\ l = Value128(q) /\ Value256(n) = u * Square + l
  BY <1>1, <1>3, PartsOf256
<1>5. u = 0 => u * Square = 0
  BY <1>1
<1>6. u >= 1 => u * Square >= 1
  BY <1>1, ProductGrows
<1>7. u * Square \in Nat
  BY <1>1
<1>8. Value256(n) = 0 <=> u = 0 /\ l = 0
  BY <1>4, <1>5, <1>6, <1>7
<1>9. QED
  BY <1>2, <1>3, <1>4, <1>8 DEF isZero256

Halves(n) == [k \in 1 .. Bits256 |-> [y \in UInt256 |-> shiftRight256(y, 1)]]

HalvedTable(n, table) ==
    table = [k \in 0 .. Bits256 |-> IF k = 0 THEN n ELSE shiftRight256(table[k - 1], 1)]

\* The number of halvings after which nothing is left.
Exhausted(table) ==
    CHOOSE k \in 0 .. Bits256 :
        isZero256(table[k]) /\ \A j \in 0 .. k - 1 : ~isZero256(table[j])

\* The definition of bits256, with its table of halvings named.
LEMMA BitsAreChosen ==
    ASSUME NEW n
    PROVE  bits256(n) = Exhausted(CHOOSE table : HalvedTable(n, table))
  BY Zenon DEF bits256, HalvedTable, Exhausted

\* The table of halvings exists: its k-th entry is the number halved k times.
LEMMA HalvingIsTabled ==
    ASSUME NEW n \in UInt256
    PROVE  \E table :
               /\ bits256(n) = Exhausted(table)
               /\ \A k \in 0 .. Bits256 : /\ table[k] \in UInt256
                                          /\ Value256(table[k]) = Down(Value256(n), k)
<1> DEFINE next == Halves(n)
           u == CHOOSE table : HalvedTable(n, table)
<1>1. Bits256 \in Nat
  BY WordBits
<1>2. \A y \in UInt256 : shiftRight256(y, 1) \in UInt256
                         /\ Value256(shiftRight256(y, 1)) = Down(Value256(y), 1)
  BY Shift256Is
<1>3. next \in [1 .. Bits256 -> [UInt256 -> UInt256]]
  BY <1>2 DEF Halves
<1>4. \A k \in 1 .. Bits256, y \in UInt256 : next[k][y] = shiftRight256(y, 1)
  BY DEF Halves
<1> HIDE DEF next
<1>5. PICK t \in [0 .. Bits256 -> UInt256] : Filled(t, Bits256, n, next)
  BY <1>1, <1>3, TableExists, Zenon
<1>6. \A k \in 1 .. Bits256 : t[k] = shiftRight256(t[k - 1], 1)
  <2> SUFFICES ASSUME NEW k \in 1 .. Bits256
               PROVE  t[k] = shiftRight256(t[k - 1], 1)
    OBVIOUS
  <2>1. t[k - 1] \in UInt256
    BY <1>1
  <2>2. QED
    BY <1>4, <1>5, <2>1 DEF Filled
<1>7. HalvedTable(n, t)
  BY <1>1, <1>5, <1>6 DEF HalvedTable, Filled
<1>8. HalvedTable(n, u)
  BY <1>7
<1> HIDE DEF u
<1>9. u[0] = n /\ \A k \in 1 .. Bits256 : u[k] = shiftRight256(u[k - 1], 1)
  BY <1>1, <1>8 DEF HalvedTable
<1>10. PICK v \in Nat : v = Value256(n)
  BY Value256IsSmall
<1> DEFINE T == {k \in Nat : k <= Bits256 => u[k] \in UInt256 /\ Value256(u[k]) = Down(v, k)}
<1>11. 0 \in T
  <2>1. Power(2, 0) = 1
    BY PowerSteps
  <2>2. (v * 1 + 0) \div 1 = v
    BY QuotientIs
  <2>3. QED
    BY <1>9, <1>10, <2>1, <2>2 DEF Down
<1>12. ASSUME NEW k \in T, k + 1 <= Bits256
       PROVE  u[k + 1] \in UInt256 /\ Value256(u[k + 1]) = Down(v, k + 1)
  <2>1. k \in Nat /\ u[k] \in UInt256 /\ Value256(u[k]) = Down(v, k)
    BY <1>1, <1>12
  <2>2. k + 1 \in 1 .. Bits256 /\ (k + 1) - 1 = k
    BY <1>1, <1>12, <2>1
  <2>3. u[k + 1] = shiftRight256(u[k], 1)
    BY <1>9, <2>2
  <2>4. u[k + 1] \in UInt256 /\ Value256(u[k + 1]) = Down(Down(v, k), 1)
    BY <1>2, <2>1, <2>3
  <2>5. Down(Down(v, k), 1) = Down(v, k + 1)
    BY <2>1, BelowOrHalved
  <2>6. QED
    BY <2>4, <2>5
<1>13. \A k \in Nat : k \in T => k + 1 \in T
  BY <1>12
<1> HIDE DEF T
<1>14. \A k \in Nat : k \in T
  BY <1>11, <1>13, Induction
<1>15. \A k \in 0 .. Bits256 : u[k] \in UInt256 /\ Value256(u[k]) = Down(v, k)
  BY <1>1, <1>14 DEF T
<1>16. bits256(n) = Exhausted(u)
  BY BitsAreChosen DEF u
<1>17. QED
  BY <1>10, <1>15, <1>16

\* uint256.c, bits256: the least power of two above the number.
LEMMA BitsAre ==
    ASSUME NEW n \in UInt256
    PROVE  /\ bits256(n) \in 0 .. Bits256
           /\ Value256(n) < Power(2, bits256(n))
           /\ \A j \in 0 .. bits256(n) - 1 : Value256(n) >= Power(2, j)
<1>1. PICK t : /\ bits256(n) = Exhausted(t)
               /\ \A k \in 0 .. Bits256 : /\ t[k] \in UInt256
                                          /\ Value256(t[k]) = Down(Value256(n), k)
  BY HalvingIsTabled
<1>2. PICK v \in Nat : v = Value256(n) /\ v < Power(2, Bits256)
  BY Value256IsSmall, WordBits
<1>3. Bits256 \in Nat
  BY WordBits
<1>4. \A k \in 0 .. Bits256 : isZero256(t[k]) <=> v < Power(2, k)
  <2> SUFFICES ASSUME NEW k \in 0 .. Bits256
               PROVE  isZero256(t[k]) <=> v < Power(2, k)
    OBVIOUS
  <2>1. isZero256(t[k]) <=> Value256(t[k]) = 0
    BY <1>1, ZeroIsNought
  <2>2. Value256(t[k]) = Down(v, k)
    BY <1>1, <1>2
  <2>3. Down(v, k) = 0 <=> v < Power(2, k)
    BY BelowOrHalved
  <2>4. QED
    BY <2>1, <2>2, <2>3
<1> DEFINE Ends(k) == isZero256(t[k]) /\ \A j \in 0 .. k - 1 : ~isZero256(t[j])
<1>5. \E k \in 0 .. Bits256 : Ends(k)
  <2> DEFINE T == {k \in 0 .. Bits256 : isZero256(t[k])}
  <2>1. Bits256 \in T
    BY <1>2, <1>3, <1>4
  <2>2. T \subseteq Nat
    OBVIOUS
  <2>3. PICK m \in T : \A k \in T : ~(k < m)
    BY <2>1, <2>2, LeastNumber
  <2>4. m \in 0 .. Bits256 /\ Ends(m)
    BY <1>3, <2>3
  <2>5. QED
    BY <2>4
<1>6. bits256(n) = CHOOSE k \in 0 .. Bits256 : Ends(k)
  BY <1>1 DEF Exhausted
<1>7. bits256(n) \in 0 .. Bits256 /\ Ends(bits256(n))
  BY <1>5, <1>6
<1>8. PICK b \in 0 .. Bits256 : b = bits256(n) /\ isZero256(t[b])
                                /\ \A j \in 0 .. b - 1 : ~isZero256(t[j])
  BY <1>7
<1>9. v < Power(2, b)
  BY <1>4, <1>8
<1>10. \A j \in 0 .. b - 1 : v >= Power(2, j)
  <2> SUFFICES ASSUME NEW j \in 0 .. b - 1
               PROVE  v >= Power(2, j)
    OBVIOUS
  <2>1. j \in 0 .. Bits256
    BY <1>3
  <2>2. ~(v < Power(2, j))
    BY <1>4, <1>8, <2>1
  <2>3. Power(2, j) \in Nat
    BY <2>1, PowersOfTwo
  <2>4. QED
    BY <2>2, <2>3
<1>11. QED
  BY <1>2, <1>8, <1>9, <1>10

-----------------------------------------------------------------------------
(* Bitwise or, of numbers with no bit in common *)

Bit(x, k) == (x \div Power(2, k)) % 2

\* A number below bit k + 1 is bit k and what is below it.
LEMMA BitSplits ==
    ASSUME NEW x \in Nat, NEW k \in Nat
    PROVE  /\ Bit(x, k) \in {0, 1}
           /\ x % Power(2, k) \in 0 .. Power(2, k) - 1
           /\ x % Power(2, k + 1) = (x % Power(2, k)) + Bit(x, k) * Power(2, k)
<1>1. PICK p \in Nat : p = Power(2, k) /\ p >= 1 /\ Power(2, k + 1) = 2 * p
  BY PowersOfTwo
<1>2. p \in Nat /\ p >= 1
  BY <1>1
<1>3. PICK q \in Int, s \in 0 .. p - 1 : q = x \div p /\ s = x % p /\ x = q * p + s
  BY <1>2, Divided
<1>4. PICK h \in Int, b \in 0 .. 1 : b = q % 2 /\ q = h * 2 + b
  BY Divided
<1>5. x = h * (2 * p) + (b * p + s)
  <2>1. q * p = h * (2 * p) + b * p
    BY <1>4
  <2>2. PICK a \in Int, c \in Int : a = h * (2 * p) /\ c = b * p
    OBVIOUS
  <2>3. QED
    BY <1>3, <2>1, <2>2
<1>6. PICK r \in 0 .. 2 * p - 1 : r = b * p + s
  <2>1. b * p = 0 \/ b * p = p
    OBVIOUS
  <2>2. QED
    BY <2>1
<1>7. (h * (2 * p) + r) % (2 * p) = r
  <2>1. PICK d \in Nat : d = 2 * p /\ d >= 1
    BY <1>1
  <2>2. (h * d + r) % d = r
    BY <2>1, QuotientIs
  <2>3. QED
    BY <2>1, <2>2
<1>8. x % (2 * p) = s + b * p
  <2>1. PICK c \in Int : c = b * p
    OBVIOUS
  <2>2. QED
    BY <1>5, <1>6, <1>7, <2>1
<1>9. Bit(x, k) = b
  BY <1>1, <1>3, <1>4 DEF Bit
<1>10. Bit(x, k) \in {0, 1}
  BY <1>9
<1>11. x % Power(2, k) \in 0 .. Power(2, k) - 1
  BY <1>1, <1>3
<1>12. x % Power(2, k + 1) = (x % Power(2, k)) + Bit(x, k) * Power(2, k)
  <2>1. PICK c \in Int : c = b * p
    OBVIOUS
  <2>2. QED
    BY <1>1, <1>3, <1>8, <1>9, <2>1
<1>13. QED
  BY <1>10, <1>11, <1>12

\* The bit k of either number.
EitherBit(v, w, k) ==
    IF Shr(v, k) % 2 = 1 \/ Shr(w, k) % 2 = 1 THEN Power(2, k) ELSE 0

OrTable(v, w, table) ==
    table = [k \in 0 .. Bits64 |-> IF k = 0 THEN 0 ELSE table[k - 1] + EitherBit(v, w, k - 1)]

\* The definition of or64, with its table of sums named.
LEMMA OrIsChosen ==
    ASSUME NEW v, NEW w
    PROVE  or64(v, w) = (CHOOSE table : OrTable(v, w, table))[Bits64]
  BY Zenon DEF or64, OrTable, EitherBit

\* The table of sums exists: its k-th entry has the lower k bits of either number.
LEMMA OrIsTabled ==
    ASSUME NEW v \in Nat, NEW w \in Nat
    PROVE  \E table :
               /\ or64(v, w) = table[Bits64]
               /\ table[0] = 0
               /\ \A k \in 1 .. Bits64 : table[k] = table[k - 1] + EitherBit(v, w, k - 1)
<1> DEFINE next == [k \in 1 .. Bits64 |-> [y \in Int |-> y + EitherBit(v, w, k - 1)]]
           u == CHOOSE table : OrTable(v, w, table)
<1>1. Bits64 \in Nat /\ Bits64 >= 1
  BY WordBits
<1>2. \A k \in 1 .. Bits64 : EitherBit(v, w, k - 1) \in Int
  BY PowersOfTwo, 0 \in Int DEF EitherBit
<1>3. next \in [1 .. Bits64 -> [Int -> Int]]
  BY <1>2
<1>4. \A k \in 1 .. Bits64, y \in Int : next[k][y] = y + EitherBit(v, w, k - 1)
  OBVIOUS
<1> HIDE DEF next
<1>5. PICK t \in [0 .. Bits64 -> Int] : Filled(t, Bits64, 0, next)
  <2>1. 0 \in Int
    OBVIOUS
  <2>2. QED
    BY <1>1, <1>3, <2>1, TableExists, Zenon
<1>6. \A k \in 1 .. Bits64 : t[k] = t[k - 1] + EitherBit(v, w, k - 1)
  <2> SUFFICES ASSUME NEW k \in 1 .. Bits64
               PROVE  t[k] = t[k - 1] + EitherBit(v, w, k - 1)
    OBVIOUS
  <2>1. t[k - 1] \in Int
    BY <1>1
  <2>2. QED
    BY <1>4, <1>5, <2>1 DEF Filled
<1>7. OrTable(v, w, t)
  BY <1>1, <1>5, <1>6 DEF OrTable, Filled
<1>8. OrTable(v, w, u)
  BY <1>7
<1> HIDE DEF u
<1>9. u[0] = 0 /\ \A k \in 1 .. Bits64 : u[k] = u[k - 1] + EitherBit(v, w, k - 1)
  BY <1>1, <1>8 DEF OrTable
<1>10. or64(v, w) = u[Bits64]
  BY OrIsChosen DEF u
<1>11. QED
  BY <1>9, <1>10

Apart(v, w) == \A k \in 0 .. Bits64 - 1 : ~(Bit(v, k) = 1 /\ Bit(w, k) = 1)

\* uint256.c, the | of C: a sum, if no bit is in both.
LEMMA OrOfApart ==
    ASSUME NEW v \in Word64, NEW w \in Word64, Apart(v, w)
    PROVE  or64(v, w) \in Word64 /\ or64(v, w) = v + w
<1>1. Bits64 \in Nat /\ Bits64 >= 1 /\ Word = Power(2, Bits64) /\ Word \in Nat
  BY WordBits, WordIsNat
<1>2. v \in Nat /\ w \in Nat
  BY <1>1 DEF Word64
<1>3. PICK t : /\ or64(v, w) = t[Bits64]
               /\ t[0] = 0
               /\ \A k \in 1 .. Bits64 : t[k] = t[k - 1] + EitherBit(v, w, k - 1)
  BY <1>2, OrIsTabled
<1> DEFINE Up_to(k) == t[k] = (v % Power(2, k)) + (w % Power(2, k)) /\ t[k] \in 0 .. Power(2, k) - 1
           T == {k \in Nat : k <= Bits64 => Up_to(k)}
<1>4. 0 \in T
  <2>1. Power(2, 0) = 1
    BY PowerSteps
  <2>2. (v * 1 + 0) % 1 = 0 /\ (w * 1 + 0) % 1 = 0
    BY <1>2, QuotientIs
  <2>3. v * 1 + 0 = v /\ w * 1 + 0 = w
    BY <1>2
  <2>4. QED
    BY <1>3, <2>1, <2>2, <2>3
<1>5. ASSUME NEW k \in T, k + 1 <= Bits64
      PROVE  Up_to(k + 1)
  <2>1. k \in Nat /\ Up_to(k)
    BY <1>1, <1>5
  <2>2. PICK p \in Nat : p = Power(2, k) /\ p >= 1 /\ Power(2, k + 1) = 2 * p
    BY <2>1, PowersOfTwo
  <2>3. PICK a \in 0 .. p - 1, b \in {0, 1} :
            a = v % p /\ b = Bit(v, k) /\ v % Power(2, k + 1) = a + b * p
    BY <1>2, <2>1, <2>2, BitSplits
  <2>4. PICK c \in 0 .. p - 1, d \in {0, 1} :
            c = w % p /\ d = Bit(w, k) /\ w % Power(2, k + 1) = c + d * p
    BY <1>2, <2>1, <2>2, BitSplits
  <2>5. ~(b = 1 /\ d = 1)
    BY <1>1, <1>5, <2>1, <2>3, <2>4 DEF Apart
  <2>6. t[k + 1] = t[k] + EitherBit(v, w, k)
    <3>1. k + 1 \in 1 .. Bits64 /\ (k + 1) - 1 = k
      BY <1>1, <1>5, <2>1
    <3>2. QED
      BY <1>3, <3>1
  <2>7. EitherBit(v, w, k) = IF b = 1 \/ d = 1 THEN p ELSE 0
    BY <2>2, <2>3, <2>4 DEF EitherBit, Shr, Bit
  <2>8. t[k] = a + c /\ t[k] \in 0 .. p - 1
    BY <2>1, <2>2, <2>3, <2>4
  <2>9. t[k + 1] = (a + b * p) + (c + d * p) /\ t[k + 1] \in 0 .. 2 * p - 1
    <3>1. CASE b = 0 /\ d = 0
      BY <2>2, <2>6, <2>7, <2>8, <3>1
    <3>2. CASE b = 1 /\ d = 0
      BY <2>2, <2>6, <2>7, <2>8, <3>2
    <3>3. CASE b = 0 /\ d = 1
      BY <2>2, <2>6, <2>7, <2>8, <3>3
    <3>4. QED
      BY <2>5, <3>1, <3>2, <3>3
  <2>10. QED
    BY <2>2, <2>3, <2>4, <2>9
<1>6. \A k \in Nat : k \in T => k + 1 \in T
  BY <1>5
<1> HIDE DEF T
<1>7. \A k \in Nat : k \in T
  BY <1>4, <1>6, Induction
<1>8. Up_to(Bits64)
  BY <1>1, <1>7 DEF T
<1>9. v % Word = v /\ w % Word = w
  BY ReducedIsSame
<1>10. QED
  BY <1>1, <1>3, <1>8, <1>9 DEF Word64

\* y is a power of two and x a multiple of a larger one.
Aligned(x, y, e) ==
    y = Power(2, e) /\ \E m \in Nat : x = m * Power(2, e + 1)

\* A power of two has one bit.
LEMMA OneBit ==
    ASSUME NEW e \in Nat, NEW k \in Nat, k # e
    PROVE  Bit(Power(2, e), k) = 0
<1>1. PICK p \in Nat : p = Power(2, k) /\ p >= 1
  BY PowersOfTwo
<1>2. CASE k < e
  <2>1. PICK j \in Nat : e = k + (j + 1)
    <3>1. e - k - 1 \in Nat /\ e = k + ((e - k - 1) + 1)
      BY <1>2
    <3>2. QED
      BY <3>1
  <2>2. j + 1 \in Nat
    OBVIOUS
  <2>3. PICK q \in Nat : q = Power(2, j) /\ Power(2, j + 1) = 2 * q
    BY PowersOfTwo
  <2>4. Power(2, k + (j + 1)) = Power(2, k) * Power(2, j + 1)
    BY <2>2, PowersOfTwo
  <2>5. Power(2, e) = (q * 2) * p + 0
    BY <1>1, <2>1, <2>3, <2>4
  <2>6. ((q * 2) * p + 0) \div p = q * 2
    <3>1. PICK h \in Int : h = q * 2
      OBVIOUS
    <3>2. (h * p + 0) \div p = h
      BY <1>1, QuotientIs
    <3>3. QED
      BY <3>1, <3>2
  <2>7. (q * 2) % 2 = 0
    OBVIOUS
  <2>8. QED
    BY <1>1, <2>5, <2>6, <2>7 DEF Bit
<1>3. CASE k > e
  <2>1. PICK j \in Nat : k = e + (j + 1)
    <3>1. k - e - 1 \in Nat /\ k = e + ((k - e - 1) + 1)
      BY <1>3
    <3>2. QED
      BY <3>1
  <2>2. j + 1 \in Nat
    OBVIOUS
  <2>3. PICK q \in Nat : q = Power(2, j) /\ q >= 1 /\ Power(2, j + 1) = 2 * q
    BY PowersOfTwo
  <2>4. Power(2, e + (j + 1)) = Power(2, e) * Power(2, j + 1)
    BY <2>2, PowersOfTwo
  <2>5. PICK r \in Nat : r = Power(2, e) /\ r >= 1
    BY PowersOfTwo
  <2>6. p = r * (2 * q)
    BY <1>1, <2>1, <2>3, <2>4, <2>5
  <2>7. PICK d \in Nat : d = q * r /\ d >= r
    BY <2>3, <2>5, ProductGrows
  <2>8. p = 2 * d
    BY <2>6, <2>7
  <2>9. r < p
    BY <2>5, <2>7, <2>8
  <2>10. (0 * p + r) \div p = 0
    BY <1>1, <2>9, QuotientIs
  <2>11. r \div p = 0
    BY <2>10
  <2>12. QED
    BY <1>1, <2>5, <2>11 DEF Bit
<1>4. QED
  BY <1>2, <1>3

\* A multiple of a larger power has not that bit.
LEMMA NoBitBelow ==
    ASSUME NEW e \in Nat, NEW m \in Nat
    PROVE  Bit(m * Power(2, e + 1), e) = 0
<1>1. PICK p \in Nat : p = Power(2, e) /\ p >= 1 /\ Power(2, e + 1) = 2 * p
  BY PowersOfTwo
<1>2. PICK h \in Int : h = m * 2
  OBVIOUS
<1>3. m * (2 * p) = h * p + 0
  BY <1>2
<1>4. (h * p + 0) \div p = h
  BY <1>1, QuotientIs
<1>5. h % 2 = 0
  BY <1>2
<1>6. QED
  BY <1>1, <1>3, <1>4, <1>5 DEF Bit

\* Zero has no bit.
LEMMA NoBitOfZero ==
    ASSUME NEW k \in Nat
    PROVE  Bit(0, k) = 0
<1>1. PICK p \in Nat : p = Power(2, k) /\ p >= 1
  BY PowersOfTwo
<1>2. (0 * p + 0) \div p = 0
  BY <1>1, QuotientIs
<1>3. 0 * p + 0 = 0
  BY <1>1
<1>4. QED
  BY <1>1, <1>2, <1>3 DEF Bit

\* What or adds: nothing, or a bit that is below all others.
Addable(x, y) == y = 0 \/ \E e \in Nat : Aligned(x, y, e)

\* Such an or of words is their sum.
LEMMA OrOfAddable ==
    ASSUME NEW v \in Word64, NEW w \in Word64, Addable(v, w)
    PROVE  or64(v, w) \in Word64 /\ or64(v, w) = v + w
<1>1. Bits64 \in Nat
  BY WordBits
<1>2. Apart(v, w)
  <2>1. CASE w = 0
    BY <1>1, <2>1, NoBitOfZero DEF Apart
  <2>2. ASSUME NEW e \in Nat, Aligned(v, w, e)
        PROVE  Apart(v, w)
    <3>1. Bit(v, e) = 0
      BY <2>2, NoBitBelow DEF Aligned
    <3>2. \A k \in Nat : k # e => Bit(w, k) = 0
      BY <2>2, OneBit DEF Aligned
    <3>3. QED
      BY <1>1, <3>1, <3>2 DEF Apart
  <2>3. QED
    BY <2>1, <2>2 DEF Addable
<1>3. QED
  BY <1>2, OrOfApart

SameNumber(Z, p, q, t, s) ==
    /\ Z \in Nat /\ Z >= 1 /\ p \in Int /\ q \in 0 .. Z - 1 /\ t \in Int /\ s \in 0 .. Z - 1
    /\ p * Z + q = t * Z + s

\* The parts of a number are determined by it.
LEMMA SameParts ==
    ASSUME NEW Z, NEW p, NEW q, NEW t, NEW s, SameNumber(Z, p, q, t, s)
    PROVE  p = t /\ q = s
<1>1. Z \in Nat /\ Z >= 1 /\ p \in Int /\ q \in 0 .. Z - 1 /\ t \in Int /\ s \in 0 .. Z - 1
  BY DEF SameNumber
<1>2. (p * Z + q) \div Z = p /\ (p * Z + q) % Z = q
  BY <1>1, QuotientIs
<1>3. (t * Z + s) \div Z = t /\ (t * Z + s) % Z = s
  BY <1>1, QuotientIs
<1>4. p * Z + q = t * Z + s
  BY DEF SameNumber
<1>5. QED
  BY <1>2, <1>3, <1>4

\* In a pair of words of B bits the bit is in one of the words, and nothing else is there
\* or below.
LEMMA AddableInParts ==
    ASSUME NEW B \in Nat, NEW Z, Z = Power(2, B),
           NEW u \in 0 .. Z - 1, NEW l \in 0 .. Z - 1,
           NEW p \in 0 .. Z - 1, NEW q \in 0 .. Z - 1,
           Addable(u * Z + l, p * Z + q)
    PROVE  Addable(u, p) /\ Addable(l, q)
<1>1. Z \in Nat /\ Z >= 1
  BY PowersOfTwo
<1>2. CASE p * Z + q = 0
  <2>1. PICK a \in Nat : a = p * Z
    BY <1>1
  <2>2. p = 0 \/ a >= 1
    <3>1. p >= 1 => p * Z >= Z
      BY <1>1, ProductGrows
    <3>2. QED
      BY <1>1, <2>1, <3>1
  <2>3. QED
    BY <1>2, <2>1, <2>2 DEF Addable
<1>3. ASSUME NEW e \in Nat, Aligned(u * Z + l, p * Z + q, e)
      PROVE  Addable(u, p) /\ Addable(l, q)
  <2>1. PICK m \in Nat : u * Z + l = m * Power(2, e + 1)
    BY <1>3 DEF Aligned
  <2>2. PICK r \in Nat : r = Power(2, e) /\ r >= 1 /\ Power(2, e + 1) = 2 * r
    BY PowersOfTwo
  <2>3. p * Z + q = r
    BY <1>3, <2>2 DEF Aligned
  <2>4. CASE e < B
    <3>1. PICK j \in Nat : B = (e + 1) + j
      <4>1. B - e - 1 \in Nat /\ B = (e + 1) + (B - e - 1)
        BY <2>4
      <4>2. QED
        BY <4>1
    <3>2. PICK t \in Nat : t = Power(2, j) /\ t >= 1
      BY PowersOfTwo
    <3>3. e + 1 \in Nat
      OBVIOUS
    <3>4. Z = (2 * r) * t
      BY <2>2, <3>1, <3>2, <3>3, PowersOfTwo
    <3>5. r < Z
      <4>1. t * r \in Nat /\ t * r >= r
        BY <2>2, <3>2, ProductGrows
      <4>2. PICK c \in Nat : c = t * r /\ c >= r
        BY <4>1
      <4>3. Z = 2 * c
        <5>1. (2 * r) * t = 2 * (t * r)
          OBVIOUS
        <5>2. QED
          BY <3>4, <4>2, <5>1
      <4>4. QED
        BY <2>2, <4>2, <4>3
    <3>6. p = 0 /\ q = r
      <4>1. r \in 0 .. Z - 1
        BY <1>1, <3>5
      <4>2. SameNumber(Z, p, q, 0, r)
        BY <1>1, <2>3, <4>1 DEF SameNumber
      <4>3. QED
        BY <4>2, SameParts
    <3>7. PICK n \in Int : l = n * (2 * r)
      <4>1. u * Z = (u * t) * (2 * r)
        BY <3>4
      <4>2. PICK g \in Int : g = u * t
        OBVIOUS
      <4>3. PICK c \in Int : c = m * (2 * r)
        BY <2>2
      <4>4. PICK d \in Int : d = g * (2 * r)
        BY <2>2
      <4>5. l = c - d
        BY <2>1, <2>2, <4>1, <4>2, <4>3, <4>4
      <4>6. PICK n \in Int : n = m - g
        OBVIOUS
      <4>7. n * (2 * r) = c - d
        BY <4>3, <4>4, <4>6
      <4>8. l = n * (2 * r)
        BY <4>5, <4>7
      <4>9. QED
        BY <4>8
    <3>8. n \in Nat
      <4>1. SUFFICES ASSUME n <= -1
                     PROVE  FALSE
        BY <3>7
      <4>2. PICK f \in Nat : f = -n /\ f >= 1
        BY <3>7, <4>1
      <4>3. PICK d \in Nat : d = 2 * r /\ d >= 1
        BY <2>2
      <4>4. f * d >= d /\ f * d \in Nat
        BY <4>2, <4>3, ProductGrows
      <4>5. n * d = -(f * d)
        BY <4>2, <4>3
      <4>6. QED
        BY <3>7, <4>3, <4>4, <4>5, <1>1
    <3>9. Aligned(l, q, e)
      BY <2>2, <3>6, <3>7, <3>8 DEF Aligned
    <3>10. QED
      BY <3>6, <3>9 DEF Addable
  <2>5. CASE e >= B
    <3>1. PICK j \in Nat : e = B + j
      <4>1. e - B \in Nat /\ e = B + (e - B)
        BY <2>5
      <4>2. QED
        BY <4>1
    <3>2. PICK t \in Nat : t = Power(2, j) /\ t >= 1 /\ Power(2, j + 1) = 2 * t
      BY PowersOfTwo
    <3>3. r = Z * t
      BY <2>2, <3>1, <3>2, PowersOfTwo
    <3>4. p = t /\ q = 0
      <4>1. p * Z + q = t * Z + 0 /\ 0 \in 0 .. Z - 1
        BY <1>1, <2>3, <3>3
      <4>2. SameNumber(Z, p, q, t, 0)
        BY <1>1, <4>1 DEF SameNumber
      <4>3. QED
        BY <4>2, SameParts
    <3>5. u = m * (2 * t)
      <4>1. PICK h \in Int : h = m * (2 * t)
        OBVIOUS
      <4>2. u * Z + l = h * Z + 0
        <5>1. h * Z = m * (2 * (Z * t))
          BY <1>1, <4>1
        <5>2. h * Z \in Int
          BY <1>1
        <5>3. QED
          BY <2>1, <2>2, <3>3, <5>1, <5>2
      <4>3. SameNumber(Z, u, l, h, 0)
        BY <1>1, <4>2 DEF SameNumber
      <4>4. u = h
        BY <4>3, SameParts
      <4>5. QED
        BY <4>1, <4>4
    <3>6. Aligned(u, p, j)
      BY <3>2, <3>4, <3>5 DEF Aligned
    <3>7. QED
      BY <3>4, <3>6 DEF Addable
  <2>6. QED
    BY <2>4, <2>5
<1>4. QED
  BY <1>2, <1>3 DEF Addable

\* uint256.c, or128.
LEMMA Or128Is ==
    ASSUME NEW a \in UInt128, NEW b \in UInt128, Addable(Value128(a), Value128(b))
    PROVE  or128(a, b) \in UInt128 /\ Value128(or128(a, b)) = Value128(a) + Value128(b)
<1>1. PICK u \in 0 .. Word - 1, l \in 0 .. Word - 1 :
          u = a.upper /\ l = a.lower /\ Value128(a) = u * Word + l
  BY PartsOf128
<1>2. PICK p \in 0 .. Word - 1, q \in 0 .. Word - 1 :
          p = b.upper /\ q = b.lower /\ Value128(b) = p * Word + q
  BY PartsOf128
<1>3. Bits64 \in Nat /\ Word = Power(2, Bits64) /\ Word \in Nat
  BY WordBits, WordIsNat
<1>4. Addable(u * Word + l, p * Word + q)
  BY <1>1, <1>2
<1>5. Addable(u, p) /\ Addable(l, q)
  BY <1>3, <1>4, AddableInParts
<1>6. PICK h \in 0 .. Word - 1 : h = or64(u, p) /\ h = u + p
  BY <1>5, OrOfAddable DEF Word64
<1>7. PICK i \in 0 .. Word - 1 : i = or64(l, q) /\ i = l + q
  BY <1>5, OrOfAddable DEF Word64
<1>8. or128(a, b) = Pair(h, i)
  BY <1>1, <1>2, <1>6, <1>7 DEF or128
<1>9. Pair(h, i) \in UInt128 /\ Value128(Pair(h, i)) = h * Word + i
  BY PairIs128
<1>10. h * Word + i = (u * Word + l) + (p * Word + q)
  <2>1. h * Word = u * Word + p * Word
    BY <1>3, <1>6
  <2>2. u * Word \in Int /\ p * Word \in Int
    BY <1>3
  <2>3. QED
    BY <1>7, <2>1, <2>2
<1>11. QED
  BY <1>1, <1>2, <1>8, <1>9, <1>10

\* uint256.c, or256.
LEMMA Or256Is ==
    ASSUME NEW a \in UInt256, NEW b \in UInt256, Addable(Value256(a), Value256(b))
    PROVE  or256(a, b) \in UInt256 /\ Value256(or256(a, b)) = Value256(a) + Value256(b)
<1>1. PICK a1 \in UInt128, a0 \in UInt128 :
          /\ a1 = a.upper /\ a0 = a.lower /\ Value256(a) = Value128(a1) * Square + Value128(a0)
          /\ Value128(a1) \in 0 .. Square - 1 /\ Value128(a0) \in 0 .. Square - 1
  BY PartsOf256
<1>2. PICK b1 \in UInt128, b0 \in UInt128 :
          /\ b1 = b.upper /\ b0 = b.lower /\ Value256(b) = Value128(b1) * Square + Value128(b0)
          /\ Value128(b1) \in 0 .. Square - 1 /\ Value128(b0) \in 0 .. Square - 1
  BY PartsOf256
<1>3. PICK u \in 0 .. Square - 1, l \in 0 .. Square - 1 :
          u = Value128(a1) /\ l = Value128(a0)
  BY <1>1
<1>4. PICK p \in 0 .. Square - 1, q \in 0 .. Square - 1 :
          p = Value128(b1) /\ q = Value128(b0)
  BY <1>2
<1>5. Bits128 \in Nat /\ Square = Power(2, Bits128) /\ Square \in Nat
  BY WordBits, WordIsNat
<1>6. Addable(u * Square + l, p * Square + q)
  BY <1>1, <1>2, <1>3, <1>4
<1>7. Addable(u, p) /\ Addable(l, q)
  BY <1>5, <1>6, AddableInParts
<1>8. PICK h \in UInt128 : h = or128(a1, b1) /\ Value128(h) = u + p
  BY <1>3, <1>4, <1>7, Or128Is
<1>9. PICK i \in UInt128 : i = or128(a0, b0) /\ Value128(i) = l + q
  BY <1>3, <1>4, <1>7, Or128Is
<1>10. or256(a, b) = Pair(h, i)
  BY <1>1, <1>2, <1>8, <1>9 DEF or256
<1>11. Pair(h, i) \in UInt256 /\ Value256(Pair(h, i)) = Value128(h) * Square + Value128(i)
  BY PairIs256
<1>12. (u + p) * Square + (l + q) = (u * Square + l) + (p * Square + q)
  <2>1. (u + p) * Square = u * Square + p * Square
    BY <1>5
  <2>2. u * Square \in Int /\ p * Square \in Int
    BY <1>5
  <2>3. QED
    BY <2>1, <2>2
<1>13. QED
  BY <1>1, <1>2, <1>3, <1>4, <1>8, <1>9, <1>10, <1>11, <1>12

-----------------------------------------------------------------------------
(* The long division *)

\* A value has one representation.
LEMMA Same256 ==
    ASSUME NEW a \in UInt256, NEW b \in UInt256, Value256(a) = Value256(b)
    PROVE  a = b
<1>1. PICK a1 \in UInt128, a0 \in UInt128 :
          /\ a1 = a.upper /\ a0 = a.lower /\ a = Pair(a1, a0)
          /\ Value256(a) = Value128(a1) * Square + Value128(a0)
          /\ Value128(a1) \in 0 .. Square - 1 /\ Value128(a0) \in 0 .. Square - 1
  BY PartsOf256
<1>2. PICK b1 \in UInt128, b0 \in UInt128 :
          /\ b1 = b.upper /\ b0 = b.lower /\ b = Pair(b1, b0)
          /\ Value256(b) = Value128(b1) * Square + Value128(b0)
          /\ Value128(b1) \in 0 .. Square - 1 /\ Value128(b0) \in 0 .. Square - 1
  BY PartsOf256
<1>3. Square \in Nat /\ Square >= 1
  BY WordIsNat
<1>4. PICK p \in 0 .. Square - 1, q \in 0 .. Square - 1 : p = Value128(a1) /\ q = Value128(a0)
  BY <1>1
<1>5. PICK t \in 0 .. Square - 1, s \in 0 .. Square - 1 : t = Value128(b1) /\ s = Value128(b0)
  BY <1>2
<1>6. p * Square + q = t * Square + s
  BY <1>1, <1>2, <1>4, <1>5
<1>7. SameNumber(Square, p, q, t, s)
  BY <1>3, <1>6 DEF SameNumber
<1>8. Value128(a1) = Value128(b1) /\ Value128(a0) = Value128(b0)
  BY <1>4, <1>5, <1>7, SameParts
<1>9. a1 = b1 /\ a0 = b0
  BY <1>8, Same128
<1>10. QED
  BY <1>1, <1>2, <1>9

\* uint256.c, gte256: it compares the values.
LEMMA GreaterOrSame ==
    ASSUME NEW a \in UInt256, NEW b \in UInt256
    PROVE  gte256(a, b) <=> Value256(a) >= Value256(b)
<1>1. PICK x \in Nat, y \in Nat : x = Value256(a) /\ y = Value256(b)
  BY Value256IsSmall
<1>2. gt256(a, b) <=> x > y
  BY <1>1, GreaterIsGreater
<1>3. a = b <=> x = y
  BY <1>1, Same256
<1>4. x >= y <=> x > y \/ x = y
  OBVIOUS
<1>5. QED
  BY <1>1, <1>2, <1>3, <1>4 DEF gte256

\* uint256.c, minus256: nothing is borrowed from beyond the number.
LEMMA ExactDifference ==
    ASSUME NEW a \in UInt256, NEW b \in UInt256, Value256(a) >= Value256(b)
    PROVE  /\ minus256(a, b) \in UInt256
           /\ Value256(minus256(a, b)) = Value256(a) - Value256(b)
<1>1. PICK x \in Nat, y \in Nat : x = Value256(a) /\ y = Value256(b)
  BY Value256IsSmall
<1>2. PICK M \in Nat : M = Square * Square /\ x < M /\ M >= 1
  BY <1>1, Value256IsSmall, ModulusIs
<1>3. x - y \in 0 .. M - 1
  BY <1>1, <1>2
<1>4. PICK d \in 0 .. M - 1 : d = x - y
  BY <1>3
<1>5. (0 * M + d) % M = d
  BY <1>2, QuotientIs
<1>6. 0 * M + d = d
  OBVIOUS
<1>7. minus256(a, b) \in UInt256
      /\ Value256(minus256(a, b)) = (Value256(a) - Value256(b)) % (Square * Square)
  BY DifferenceIsModular
<1>8. QED
  BY <1>1, <1>2, <1>4, <1>5, <1>6, <1>7

DivisionState == [copyD : UInt256, adder : UInt256, div : UInt256, mod : UInt256]

\* The divisor is shifted by e, and adder is the bit of the quotient it stands for.
Shifted(s, R, e) ==
    Value256(s.copyD) = R * Power(2, e) /\ Value256(s.adder) = Power(2, e)

\* What is left is less than that many divisors, and only higher bits are in the quotient.
LeftBelow(s, R, e) ==
    /\ Value256(s.mod) < R * Power(2, e)
    /\ \E m \in Nat : Value256(s.div) = m * Power(2, e)

Splits(s, L, R) == Value256(s.div) * R + Value256(s.mod) = L

\* The invariant of the loop: no more than room turns are left after the next.
DivisionInv(s, L, R, room) ==
    /\ s \in DivisionState
    /\ Splits(s, L, R)
    /\ Value256(s.mod) < R \/ \E e \in Nat : e <= room /\ Shifted(s, R, e) /\ LeftBelow(s, R, e + 1)

\* The shifts at the end of a turn halve the shifted divisor and its bit.
LEMMA HalveIs ==
    ASSUME NEW s \in DivisionState
    PROVE  /\ Halve(s) \in DivisionState
           /\ Halve(s).div = s.div /\ Halve(s).mod = s.mod
           /\ Value256(Halve(s).copyD) = Down(Value256(s.copyD), 1)
           /\ Value256(Halve(s).adder) = Down(Value256(s.adder), 1)
<1>1. s.copyD \in UInt256 /\ s.adder \in UInt256
  BY DEF DivisionState
<1>2. PICK c \in UInt256, a \in UInt256 :
          c = shiftRight256(s.copyD, 1) /\ a = shiftRight256(s.adder, 1)
  BY <1>1, Shift256Is
<1>3. Value256(c) = Down(Value256(s.copyD), 1) /\ Value256(a) = Down(Value256(s.adder), 1)
  BY <1>1, <1>2, Shift256Is
<1>4. Halve(s) = [s EXCEPT !.copyD = c, !.adder = a]
  BY <1>2 DEF Halve
<1>5. QED
  BY <1>3, <1>4 DEF DivisionState

\* Half of a double.
LEMMA HalfOfDouble ==
    ASSUME NEW x \in Nat
    PROVE  Down(2 * x, 1) = x
<1>1. Power(2, 0 + 1) = 2 * Power(2, 0) /\ Power(2, 0) = 1
  BY PowersOfTwo, PowerSteps
<1>2. Power(2, 1) = 2
  BY <1>1
<1>3. (x * 2 + 0) \div 2 = x
  BY QuotientIs
<1>4. x * 2 + 0 = 2 * x
  OBVIOUS
<1>5. QED
  BY <1>2, <1>3, <1>4 DEF Down

\* Halving keeps the invariant, once less than the shifted divisor is left.
LEMMA HalveKeeps ==
    ASSUME NEW s \in DivisionState, NEW L \in Nat, NEW R \in Nat, NEW e \in Nat,
           NEW room \in Int, e <= room,
           Splits(s, L, R), Shifted(s, R, e), LeftBelow(s, R, e)
    PROVE  DivisionInv(Halve(s), L, R, room - 1)
<1>1. PICK h \in DivisionState :
          /\ h = Halve(s) /\ h.div = s.div /\ h.mod = s.mod
          /\ Value256(h.copyD) = Down(Value256(s.copyD), 1)
          /\ Value256(h.adder) = Down(Value256(s.adder), 1)
  BY HalveIs
<1>2. Splits(h, L, R)
  BY <1>1 DEF Splits
<1>3. CASE e = 0
  <2>1. Power(2, e) = 1
    BY <1>3, PowerSteps
  <2>2. Value256(h.mod) < R
    BY <1>1, <2>1 DEF LeftBelow
  <2>3. QED
    BY <1>1, <1>2, <2>2 DEF DivisionInv
<1>4. CASE e >= 1
  <2>1. PICK f \in Nat : e = f + 1
    <3>1. e - 1 \in Nat /\ e = (e - 1) + 1
      BY <1>4
    <3>2. QED
      BY <3>1
  <2>2. PICK q \in Nat : q = Power(2, f) /\ Power(2, f + 1) = 2 * q
    BY PowersOfTwo
  <2>3. PICK c \in Nat : c = R * q
    OBVIOUS
  <2>4. Value256(s.copyD) = 2 * c /\ Value256(s.adder) = 2 * q
    <3>1. R * (2 * q) = 2 * c
      BY <2>3
    <3>2. QED
      BY <2>1, <2>2, <3>1 DEF Shifted
  <2>5. Shifted(h, R, f)
    BY <1>1, <2>2, <2>3, <2>4, HalfOfDouble DEF Shifted
  <2>6. LeftBelow(h, R, f + 1)
    BY <1>1, <2>1 DEF LeftBelow
  <2>7. f <= room - 1
    BY <2>1
  <2>8. QED
    BY <1>1, <1>2, <2>5, <2>6, <2>7 DEF DivisionInv
<1>5. QED
  BY <1>3, <1>4

\* Take the shifted divisor away and note its bit.
Subtract(s) == [s EXCEPT !.mod = minus256(@, s.copyD), !.div = or256(@, s.adder)]

\* Taking the shifted divisor away moves its bit into the quotient, which did not have it.
LEMMA SubtractKeeps ==
    ASSUME NEW s \in DivisionState, NEW L \in Nat, NEW R \in Nat, NEW e \in Nat,
           Splits(s, L, R), Shifted(s, R, e), LeftBelow(s, R, e + 1),
           Value256(s.mod) >= Value256(s.copyD)
    PROVE  /\ Subtract(s) \in DivisionState
           /\ Splits(Subtract(s), L, R)
           /\ Shifted(Subtract(s), R, e)
           /\ LeftBelow(Subtract(s), R, e)
<1>1. PICK sc \in UInt256, sa \in UInt256, sd \in UInt256, sm \in UInt256 :
          sc = s.copyD /\ sa = s.adder /\ sd = s.div /\ sm = s.mod
  BY DEF DivisionState
<1>2. PICK p \in Nat : p = Power(2, e) /\ p >= 1 /\ Power(2, e + 1) = 2 * p
  BY PowersOfTwo
<1>3. PICK c \in Nat : c = R * p
  OBVIOUS
<1>4. Value256(sc) = c /\ Value256(sa) = p
  BY <1>1, <1>2, <1>3 DEF Shifted
<1>5. PICK m \in Nat : Value256(sd) = m * Power(2, e + 1)
  BY <1>1 DEF LeftBelow
<1>6. PICK d \in Nat : d = Value256(sd) /\ d = m * (2 * p)
  BY <1>2, <1>5, Value256IsSmall
<1>7. PICK w \in Nat : w = Value256(sm) /\ w < 2 * c /\ w >= c
  <2>1. Value256(sm) < R * (2 * p)
    BY <1>1, <1>2 DEF LeftBelow
  <2>2. R * (2 * p) = 2 * c
    BY <1>3
  <2>3. QED
    BY <1>1, <1>4, <2>1, <2>2, Value256IsSmall
<1>8. PICK dm \in UInt256 : dm = minus256(sm, sc) /\ Value256(dm) = w - c
  BY <1>4, <1>7, ExactDifference
<1>9. Aligned(Value256(sd), Value256(sa), e)
  BY <1>2, <1>4, <1>5 DEF Aligned
<1>10. PICK dd \in UInt256 : dd = or256(sd, sa) /\ Value256(dd) = d + p
  <2>1. Addable(Value256(sd), Value256(sa))
    BY <1>9 DEF Addable
  <2>2. or256(sd, sa) \in UInt256 /\ Value256(or256(sd, sa)) = Value256(sd) + Value256(sa)
    BY <2>1, Or256Is
  <2>3. QED
    BY <1>4, <1>6, <2>2
<1>11. PICK t : t = Subtract(s)
  OBVIOUS
<1>12. t = [s EXCEPT !.mod = dm, !.div = dd]
  BY <1>1, <1>8, <1>10, <1>11 DEF Subtract
<1>13. /\ t \in DivisionState
       /\ t.mod = dm /\ t.div = dd /\ t.copyD = s.copyD /\ t.adder = s.adder
  BY <1>12 DEF DivisionState
<1>14. Splits(t, L, R)
  <2>1. PICK g \in Nat : g = d * R
    OBVIOUS
  <2>2. g + w = L
    BY <1>1, <1>6, <1>7, <2>1 DEF Splits
  <2>3. (d + p) * R = g + c
    BY <1>3, <2>1
  <2>4. (d + p) * R + (w - c) = L
    BY <2>2, <2>3
  <2>5. QED
    BY <1>8, <1>10, <1>13, <2>4 DEF Splits
<1>15. Shifted(t, R, e)
  BY <1>13 DEF Shifted
<1>16. LeftBelow(t, R, e)
  <2>1. Value256(t.mod) < R * Power(2, e)
    BY <1>2, <1>3, <1>7, <1>8, <1>13
  <2>2. PICK n \in Nat : n = 2 * m + 1
    OBVIOUS
  <2>3. d + p = n * p
    BY <1>6, <2>2
  <2>4. Value256(t.div) = n * Power(2, e)
    BY <1>2, <1>10, <1>13, <2>3
  <2>5. QED
    BY <2>1, <2>4 DEF LeftBelow
<1>17. QED
  BY <1>11, <1>13, <1>14, <1>15, <1>16

\* A turn of the loop keeps the invariant and uses up one turn.
LEMMA TurnKeeps ==
    ASSUME NEW s, NEW L \in Nat, NEW R \in Nat, NEW room \in Int,
           DivisionInv(s, L, R, room), Value256(s.mod) >= R
    PROVE  DivisionInv(DivisionTurn(s), L, R, room - 1)
<1>1. s \in DivisionState /\ Splits(s, L, R)
  BY DEF DivisionInv
<1>2. s.mod \in UInt256 /\ s.copyD \in UInt256
  BY <1>1 DEF DivisionState
<1>3. PICK w \in Nat : w = Value256(s.mod) /\ w >= R
  BY <1>2, Value256IsSmall
<1>4. PICK e \in Nat : e <= room /\ Shifted(s, R, e) /\ LeftBelow(s, R, e + 1)
  BY <1>3 DEF DivisionInv
<1>5. gte256(s.mod, s.copyD) <=> Value256(s.mod) >= Value256(s.copyD)
  BY <1>2, GreaterOrSame
<1>6. CASE gte256(s.mod, s.copyD)
  <2>1. DivisionTurn(s) = Halve(Subtract(s))
    BY <1>6 DEF DivisionTurn, Subtract
  <2>2. /\ Subtract(s) \in DivisionState
        /\ Splits(Subtract(s), L, R)
        /\ Shifted(Subtract(s), R, e)
        /\ LeftBelow(Subtract(s), R, e)
    BY <1>1, <1>4, <1>5, <1>6, SubtractKeeps
  <2>3. QED
    BY <1>4, <2>1, <2>2, HalveKeeps
<1>7. CASE ~gte256(s.mod, s.copyD)
  <2>1. DivisionTurn(s) = Halve(s)
    BY <1>7 DEF DivisionTurn
  <2>2. LeftBelow(s, R, e)
    <3>1. PICK p \in Nat : p = Power(2, e) /\ Power(2, e + 1) = 2 * p
      BY PowersOfTwo
    <3>2. PICK c \in Nat : c = R * p
      OBVIOUS
    <3>3. Value256(s.copyD) = c
      BY <1>4, <3>1, <3>2 DEF Shifted
    <3>4. w < R * Power(2, e)
      BY <1>3, <1>5, <1>7, <3>1, <3>2, <3>3
    <3>5. PICK m \in Nat : Value256(s.div) = m * (2 * p)
      BY <1>4, <3>1 DEF LeftBelow
    <3>6. PICK n \in Nat : n = 2 * m
      OBVIOUS
    <3>7. m * (2 * p) = n * p
      BY <3>6
    <3>8. Value256(s.div) = n * Power(2, e)
      BY <3>1, <3>5, <3>7
    <3>9. QED
      BY <1>3, <3>4, <3>8 DEF LeftBelow
  <2>3. QED
    BY <1>1, <1>4, <2>1, <2>2, HalveKeeps
<1>8. QED
  BY <1>6, <1>7

-----------------------------------------------------------------------------
(* The start of the loop, and its turns *)

DiffBits(l, r) == bits256(l) - bits256(r)

AlignedState(l, r) ==
    [copyD |-> shiftLeft256(r, DiffBits(l, r)), adder |-> shiftLeft256(One256, DiffBits(l, r)),
     div |-> Zero256, mod |-> l]

StartState(l, r) ==
    IF gt256(AlignedState(l, r).copyD, l) THEN Halve(AlignedState(l, r)) ELSE AlignedState(l, r)

StepOf(s, r) == IF gte256(s.mod, r) THEN DivisionTurn(s) ELSE s

LoopTable(l, r, table) ==
    table = [k \in 0 .. DiffBits(l, r) + 1 |->
                IF k = 0 THEN StartState(l, r) ELSE StepOf(table[k - 1], r)]

\* The definition of divMod256, with the states of its loop named.
LEMMA DivisionIsChosen ==
    ASSUME NEW l, NEW r, ~gt256(r, l), NEW t, t = CHOOSE table : LoopTable(l, r, table)
    PROVE  divMod256(l, r) = [div |-> t[DiffBits(l, r) + 1].div, mod |-> t[DiffBits(l, r) + 1].mod]
  BY Zenon DEF divMod256, LoopTable, DiffBits, StartState, AlignedState, StepOf

\* The 256 bit one.
LEMMA OneIs256 == One256 \in UInt256 /\ Value256(One256) = 1
<1>1. One128 \in UInt128 /\ Value128(One128) = 1 /\ Zero128 \in UInt128 /\ Value128(Zero128) = 0
  BY OneIsOne, ZeroIs128
<1>2. Square \in Nat
  BY WordIsNat
<1>3. Pair(Zero128, One128) \in UInt256
      /\ Value256(Pair(Zero128, One128)) = Value128(Zero128) * Square + Value128(One128)
  BY <1>1, PairIs256
<1>4. QED
  BY <1>1, <1>2, <1>3 DEF One256

\* Products compare as their factors do.
LEMMA FactorsCompare ==
    ASSUME NEW x \in Nat, NEW y \in Nat, NEW p \in Nat
    PROVE  /\ x <= y => x * p <= y * p
           /\ x < y /\ p >= 1 => x * p < y * p
<1>1. ASSUME x <= y
      PROVE  x * p <= y * p
  <2>1. PICK d \in Nat : y = x + d
    <3>1. y - x \in Nat /\ y = x + (y - x)
      BY <1>1
    <3>2. QED
      BY <3>1
  <2>2. PICK a \in Nat, b \in Nat : a = x * p /\ b = d * p
    OBVIOUS
  <2>3. y * p = a + b
    BY <2>1, <2>2
  <2>4. QED
    BY <2>2, <2>3
<1>2. ASSUME x < y, p >= 1
      PROVE  x * p < y * p
  <2>1. PICK d \in Nat : y = x + d /\ d >= 1
    <3>1. y - x \in Nat /\ y = x + (y - x) /\ y - x >= 1
      BY <1>2
    <3>2. QED
      BY <3>1
  <2>2. PICK a \in Nat, b \in Nat : a = x * p /\ b = d * p
    OBVIOUS
  <2>3. y * p = a + b
    BY <2>1, <2>2
  <2>4. b >= p
    BY <2>1, <2>2, ProductGrows
  <2>5. QED
    BY <1>2, <2>2, <2>3, <2>4
<1>3. QED
  BY <1>1, <1>2

\* The divisor is shifted until it has as many bits as the dividend.
LEMMA BitsAlign ==
    ASSUME NEW l \in UInt256, NEW r \in UInt256, Value256(r) >= 1, Value256(l) >= Value256(r)
    PROVE  \E d \in Nat :
               /\ d = DiffBits(l, r)
               /\ Value256(r) * Power(2, d) < Square * Square
               /\ Value256(l) < Value256(r) * Power(2, d + 1)
<1>1. PICK x \in Nat, y \in Nat : x = Value256(l) /\ y = Value256(r) /\ y >= 1 /\ x >= y
  BY Value256IsSmall
<1>2. PICK a \in 0 .. Bits256 :
          a = bits256(l) /\ x < Power(2, a)
  BY <1>1, BitsAre
<1>3. PICK b \in 0 .. Bits256 :
          /\ b = bits256(r) /\ y < Power(2, b)
          /\ \A j \in 0 .. b - 1 : y >= Power(2, j)
  BY <1>1, BitsAre
<1>4. Bits256 \in Nat
  BY WordBits
<1>5. b >= 1
  <2>1. Power(2, 0) = 1
    BY PowerSteps
  <2>2. QED
    BY <1>1, <1>3, <1>4, <2>1
<1>6. a >= b
  <2>1. SUFFICES ASSUME a < b
                 PROVE  FALSE
    BY <1>4
  <2>2. a \in 0 .. b - 1
    BY <1>4, <2>1
  <2>3. y >= Power(2, a)
    BY <1>3, <2>2
  <2>4. a \in Nat
    BY <1>4
  <2>5. Power(2, a) \in Nat
    BY <2>4, PowersOfTwo
  <2>6. QED
    BY <1>1, <1>2, <2>3, <2>5
<1>7. PICK d \in Nat : d = a - b /\ a = b + d
  <2>1. a - b \in Nat /\ a = b + (a - b)
    BY <1>4, <1>6
  <2>2. QED
    BY <2>1
<1>8. PICK c \in Nat : b = c + 1
  <2>1. b - 1 \in Nat /\ b = (b - 1) + 1
    BY <1>4, <1>5
  <2>2. QED
    BY <2>1
<1>9. PICK i \in Nat : Bits256 = a + i
  <2>1. Bits256 - a \in Nat /\ Bits256 = a + (Bits256 - a)
    BY <1>4
  <2>2. QED
    BY <2>1
<1>10. PICK p \in Nat : p = Power(2, d) /\ p >= 1 /\ Power(2, d + 1) = 2 * p
  BY PowersOfTwo
<1>11. PICK q \in Nat : q = Power(2, c) /\ Power(2, b) = 2 * q
  BY <1>8, PowersOfTwo
<1>12. Power(2, a) = (2 * q) * p
  <2>1. b \in Nat
    BY <1>4
  <2>2. Power(2, b + d) = Power(2, b) * Power(2, d)
    BY <2>1, PowersOfTwo
  <2>3. QED
    BY <1>7, <1>10, <1>11, <2>2
<1>13. PICK A \in Nat : A = (2 * q) * p /\ A = q * (2 * p)
  OBVIOUS
<1>14. y * p < A
  <2>1. y < 2 * q
    BY <1>3, <1>11
  <2>2. PICK g \in Nat : g = 2 * q
    OBVIOUS
  <2>3. y * p < g * p
    BY <1>10, <2>1, <2>2, FactorsCompare
  <2>4. QED
    BY <1>13, <2>2, <2>3
<1>15. A <= Square * Square
  <2>1. a \in Nat
    BY <1>4
  <2>2. PICK t \in Nat : t = Power(2, i) /\ t >= 1
    BY PowersOfTwo
  <2>3. Power(2, a + i) = Power(2, a) * Power(2, i)
    BY <2>1, PowersOfTwo
  <2>4. Square * Square = A * t
    BY <1>9, <1>12, <1>13, <2>2, <2>3, WordBits
  <2>5. t * A >= A
    BY <2>2, ProductGrows
  <2>6. A * t = t * A
    OBVIOUS
  <2>7. QED
    BY <2>4, <2>5, <2>6
<1>16. y * p < Square * Square
  <2>1. PICK M \in Nat : M = Square * Square
    BY ModulusIs
  <2>2. PICK z \in Nat : z = y * p
    OBVIOUS
  <2>3. QED
    BY <1>14, <1>15, <2>1, <2>2
<1>17. x < y * (2 * p)
  <2>1. y >= q
    BY <1>3, <1>4, <1>8, <1>11
  <2>2. PICK g \in Nat : g = 2 * p
    OBVIOUS
  <2>3. q * g <= y * g
    BY <2>1, FactorsCompare
  <2>4. PICK z \in Nat : z = y * g
    OBVIOUS
  <2>5. x < A
    BY <1>2, <1>12, <1>13
  <2>6. QED
    BY <1>13, <2>2, <2>3, <2>4, <2>5
<1>18. d = DiffBits(l, r)
  BY <1>2, <1>3, <1>7 DEF DiffBits
<1>19. QED
  BY <1>1, <1>10, <1>16, <1>17, <1>18

\* A shift that stays below the modulus loses nothing.
LEMMA NotReduced ==
    ASSUME NEW x \in Nat, NEW k \in Nat, NEW M \in Nat, x * Power(2, k) < M
    PROVE  Up(x, k, M) = x * Power(2, k)
<1>1. PICK p \in Nat : p = Power(2, k)
  BY PowersOfTwo
<1>2. PICK y \in Nat : y = x * p
  OBVIOUS
<1>3. y \in 0 .. M - 1 /\ M >= 1
  BY <1>1, <1>2
<1>4. (0 * M + y) % M = y
  BY <1>3, QuotientIs
<1>5. 0 * M + y = y
  OBVIOUS
<1>6. QED
  BY <1>1, <1>2, <1>4, <1>5 DEF Up

\* The loop starts in the invariant, with one turn for each bit of difference and one more.
LEMMA StartHolds ==
    ASSUME NEW l \in UInt256, NEW r \in UInt256, Value256(r) >= 1, Value256(l) >= Value256(r)
    PROVE  /\ DiffBits(l, r) \in Nat
           /\ DivisionInv(StartState(l, r), Value256(l), Value256(r), DiffBits(l, r))
<1>1. PICK d \in Nat : /\ d = DiffBits(l, r)
                       /\ Value256(r) * Power(2, d) < Square * Square
                       /\ Value256(l) < Value256(r) * Power(2, d + 1)
  BY BitsAlign
<1>2. PICK x \in Nat, y \in Nat : x = Value256(l) /\ y = Value256(r) /\ y >= 1 /\ x >= y
  BY Value256IsSmall
<1>3. PICK p \in Nat : p = Power(2, d) /\ p >= 1
  BY PowersOfTwo
<1>4. PICK M \in Nat : M = Square * Square
  BY ModulusIs
<1>5. PICK c \in UInt256 : c = shiftLeft256(r, d) /\ Value256(c) = y * p
  <2>1. shiftLeft256(r, d) \in UInt256 /\ Value256(shiftLeft256(r, d)) = Up(y, d, M)
    BY <1>2, <1>4, Shift256Is
  <2>2. y * Power(2, d) < M
    BY <1>1, <1>2, <1>4
  <2>3. Up(y, d, M) = y * Power(2, d)
    BY <2>2, NotReduced
  <2>4. QED
    BY <1>3, <2>1, <2>3
<1>6. PICK a \in UInt256 : a = shiftLeft256(One256, d) /\ Value256(a) = p
  <2>1. One256 \in UInt256 /\ Value256(One256) = 1
    BY OneIs256
  <2>2. shiftLeft256(One256, d) \in UInt256 /\ Value256(shiftLeft256(One256, d)) = Up(1, d, M)
    BY <1>4, <2>1, Shift256Is
  <2>3. y * p >= p /\ y * p \in Nat /\ y * p < M
    BY <1>1, <1>2, <1>3, <1>4, ProductGrows
  <2>4. 1 * Power(2, d) < M /\ 1 * Power(2, d) = p
    BY <1>3, <2>3
  <2>5. Up(1, d, M) = 1 * Power(2, d)
    BY <2>4, NotReduced
  <2>6. QED
    BY <2>2, <2>4, <2>5
<1>7. Zero256 \in UInt256 /\ Value256(Zero256) = 0
  BY ZeroIs256
<1>8. PICK s : s = AlignedState(l, r)
  OBVIOUS
<1>9. s = [copyD |-> c, adder |-> a, div |-> Zero256, mod |-> l]
  BY <1>1, <1>5, <1>6, <1>8 DEF AlignedState
<1>10. /\ s \in DivisionState
       /\ s.copyD = c /\ s.adder = a /\ s.div = Zero256 /\ s.mod = l
  BY <1>7, <1>9 DEF DivisionState
<1>11. Splits(s, x, y)
  BY <1>2, <1>7, <1>10 DEF Splits
<1>12. Shifted(s, y, d)
  BY <1>3, <1>5, <1>6, <1>10 DEF Shifted
<1>13. \A e \in Nat : x < y * Power(2, e) => LeftBelow(s, y, e)
  <2> SUFFICES ASSUME NEW e \in Nat, x < y * Power(2, e)
               PROVE  LeftBelow(s, y, e)
    OBVIOUS
  <2>1. PICK q \in Nat : q = Power(2, e)
    BY PowersOfTwo
  <2>2. 0 = 0 * q
    OBVIOUS
  <2>3. QED
    BY <1>2, <1>7, <1>10, <2>1, <2>2 DEF LeftBelow
<1>14. gt256(s.copyD, l) <=> y * p > x
  BY <1>2, <1>5, <1>10, GreaterIsGreater
<1>15. CASE gt256(s.copyD, l)
  <2>1. StartState(l, r) = Halve(s)
    BY <1>8, <1>15 DEF StartState
  <2>2. x < y * Power(2, d)
    <3>1. PICK z \in Nat : z = y * p
      OBVIOUS
    <3>2. QED
      BY <1>3, <1>14, <1>15, <3>1
  <2>3. LeftBelow(s, y, d)
    BY <1>13, <2>2
  <2>4. PICK room \in Int : room = d + 1 /\ d <= room /\ room - 1 = d
    OBVIOUS
  <2>5. DivisionInv(Halve(s), x, y, room - 1)
    BY <1>10, <1>11, <1>12, <2>3, <2>4, HalveKeeps
  <2>6. QED
    BY <1>1, <1>2, <2>1, <2>4, <2>5
<1>16. CASE ~gt256(s.copyD, l)
  <2>1. StartState(l, r) = s
    BY <1>8, <1>16 DEF StartState
  <2>2. LeftBelow(s, y, d + 1)
    BY <1>1, <1>2, <1>13
  <2>3. DivisionInv(s, x, y, d)
    BY <1>10, <1>11, <1>12, <2>2 DEF DivisionInv
  <2>4. QED
    BY <1>1, <1>2, <2>1, <2>3
<1>17. QED
  BY <1>15, <1>16

\* So does a turn that the condition of the loop skips.
LEMMA StepKeeps ==
    ASSUME NEW s, NEW L \in Nat, NEW r \in UInt256, NEW room \in Int,
           DivisionInv(s, L, Value256(r), room)
    PROVE  DivisionInv(StepOf(s, r), L, Value256(r), room - 1)
<1>1. s \in DivisionState /\ Splits(s, L, Value256(r))
  BY DEF DivisionInv
<1>2. s.mod \in UInt256
  BY <1>1 DEF DivisionState
<1>3. PICK y \in Nat : y = Value256(r)
  BY Value256IsSmall
<1>4. PICK w \in Nat : w = Value256(s.mod)
  BY <1>2, Value256IsSmall
<1>5. gte256(s.mod, r) <=> w >= y
  BY <1>2, <1>3, <1>4, GreaterOrSame
<1>6. CASE gte256(s.mod, r)
  <2>1. DivisionInv(DivisionTurn(s), L, y, room - 1)
    BY <1>3, <1>4, <1>5, <1>6, TurnKeeps
  <2>2. QED
    BY <1>3, <1>6, <2>1 DEF StepOf
<1>7. CASE ~gte256(s.mod, r)
  <2>1. Value256(s.mod) < Value256(r)
    BY <1>3, <1>4, <1>5, <1>7
  <2>2. QED
    BY <1>1, <1>7, <2>1 DEF StepOf, DivisionInv
<1>8. QED
  BY <1>6, <1>7

Steps(l, r, S) == [k \in 1 .. DiffBits(l, r) + 1 |-> [s \in S |-> StepOf(s, r)]]

\* After the last turn less than the divisor is left.
LEMMA LoopIsTabled ==
    ASSUME NEW l \in UInt256, NEW r \in UInt256, Value256(r) >= 1, Value256(l) >= Value256(r),
           NEW t, t = CHOOSE table : LoopTable(l, r, table)
    PROVE  DivisionInv(t[DiffBits(l, r) + 1], Value256(l), Value256(r), -1)
<1>1. PICK d \in Nat :
          d = DiffBits(l, r) /\ DivisionInv(StartState(l, r), Value256(l), Value256(r), d)
  BY StartHolds
<1>2. PICK x \in Nat, y \in Nat : x = Value256(l) /\ y = Value256(r)
  BY Value256IsSmall
<1>3. PICK N \in Nat : N = d + 1
  OBVIOUS
<1> DEFINE S == {s \in DivisionState : \E room \in Int : DivisionInv(s, x, y, room)}
<1>4. \A s \in S : StepOf(s, r) \in S
  <2> SUFFICES ASSUME NEW s \in S
               PROVE  StepOf(s, r) \in S
    OBVIOUS
  <2>1. PICK room \in Int : DivisionInv(s, x, y, room)
    OBVIOUS
  <2>2. DivisionInv(StepOf(s, r), x, y, room - 1)
    BY <1>2, <2>1, StepKeeps
  <2>3. StepOf(s, r) \in DivisionState
    BY <2>2 DEF DivisionInv
  <2>4. room - 1 \in Int
    OBVIOUS
  <2>5. QED
    BY <2>2, <2>3, <2>4
<1>5. StartState(l, r) \in S
  <2>1. DivisionInv(StartState(l, r), x, y, d)
    BY <1>1, <1>2
  <2>2. StartState(l, r) \in DivisionState
    BY <2>1 DEF DivisionInv
  <2>3. d \in Int
    OBVIOUS
  <2>4. QED
    BY <2>1, <2>2, <2>3
<1> HIDE DEF S
<1> DEFINE next == Steps(l, r, S)
<1>6. next \in [1 .. N -> [S -> S]]
  BY <1>1, <1>3, <1>4 DEF Steps
<1>7. \A k \in 1 .. N, s \in S : next[k][s] = StepOf(s, r)
  BY <1>1, <1>3 DEF Steps
<1> HIDE DEF next
<1>8. PICK z \in [0 .. N -> S] : Filled(z, N, StartState(l, r), next)
  BY <1>5, <1>6, TableExists, Zenon
<1>9. \A k \in 1 .. N : z[k] = StepOf(z[k - 1], r)
  <2> SUFFICES ASSUME NEW k \in 1 .. N
               PROVE  z[k] = StepOf(z[k - 1], r)
    OBVIOUS
  <2>1. z[k - 1] \in S
    BY <1>3
  <2>2. QED
    BY <1>7, <1>8, <2>1 DEF Filled
<1>10. LoopTable(l, r, z)
  BY <1>1, <1>3, <1>8, <1>9 DEF LoopTable, Filled
<1>11. LoopTable(l, r, t)
  BY <1>10
<1>12. t[0] = StartState(l, r) /\ \A k \in 1 .. N : t[k] = StepOf(t[k - 1], r)
  BY <1>1, <1>3, <1>11 DEF LoopTable
<1> DEFINE T == {k \in Nat : k <= N => DivisionInv(t[k], x, y, d - k)}
<1>13. 0 \in T
  <2>1. d - 0 = d
    OBVIOUS
  <2>2. QED
    BY <1>1, <1>2, <1>12, <2>1
<1>14. ASSUME NEW k \in T, k + 1 <= N
       PROVE  DivisionInv(t[k + 1], x, y, d - (k + 1))
  <2>1. k \in Nat /\ DivisionInv(t[k], x, y, d - k)
    BY <1>3, <1>14
  <2>2. k + 1 \in 1 .. N /\ (k + 1) - 1 = k
    BY <1>3, <1>14, <2>1
  <2>3. t[k + 1] = StepOf(t[k], r)
    BY <1>12, <2>2
  <2>4. PICK room \in Int : room = d - k /\ room - 1 = d - (k + 1)
    BY <2>1
  <2>5. DivisionInv(StepOf(t[k], r), x, y, room - 1)
    BY <1>2, <2>1, <2>4, StepKeeps
  <2>6. QED
    BY <2>3, <2>4, <2>5
<1>15. \A k \in Nat : k \in T => k + 1 \in T
  BY <1>14
<1> HIDE DEF T
<1>16. \A k \in Nat : k \in T
  BY <1>13, <1>15, Induction
<1>17. DivisionInv(t[N], x, y, d - N)
  BY <1>16 DEF T
<1>18. d - N = -1 /\ N = DiffBits(l, r) + 1
  BY <1>1, <1>3
<1>19. QED
  BY <1>2, <1>17, <1>18

Divides(x, y, a, b) ==
    y \in Nat /\ y >= 1 /\ a \in Int /\ b \in 0 .. y - 1 /\ x = a * y + b

\* Quotient and remainder are determined by the two numbers.
LEMMA DivisionIs ==
    ASSUME NEW x, NEW y, NEW a, NEW b, Divides(x, y, a, b)
    PROVE  a = x \div y /\ b = x % y
<1>1. y \in Nat /\ y >= 1 /\ a \in Int /\ b \in 0 .. y - 1 /\ x = a * y + b
  BY DEF Divides
<1>2. (a * y + b) \div y = a /\ (a * y + b) % y = b
  BY <1>1, QuotientIs
<1>3. QED
  BY <1>1, <1>2

\* uint256.c, divmod256: for words of any size the loop leaves the quotient and the
\* remainder of the two numbers.
THEOREM DivisionIsExact ==
    ASSUME NEW l \in UInt256, NEW r \in UInt256, Value256(r) >= 1
    PROVE  /\ divMod256(l, r).div \in UInt256
           /\ divMod256(l, r).mod \in UInt256
           /\ Value256(divMod256(l, r).div) = Value256(l) \div Value256(r)
           /\ Value256(divMod256(l, r).mod) = Value256(l) % Value256(r)
<1>1. PICK x \in Nat, y \in Nat : x = Value256(l) /\ y = Value256(r) /\ y >= 1
  BY Value256IsSmall
<1>2. gt256(r, l) <=> y > x
  BY <1>1, GreaterIsGreater
<1>3. \E u \in UInt256, v \in UInt256 :
          /\ divMod256(l, r) = [div |-> u, mod |-> v]
          /\ Value256(u) * y + Value256(v) = x
          /\ Value256(v) < y
  <2>1. CASE gt256(r, l)
    <3>1. divMod256(l, r) = [div |-> Zero256, mod |-> l]
      BY <2>1 DEF divMod256
    <3>2. Zero256 \in UInt256 /\ Value256(Zero256) = 0
      BY ZeroIs256
    <3>3. 0 * y + x = x
      OBVIOUS
    <3>4. QED
      BY <1>1, <1>2, <2>1, <3>1, <3>2, <3>3
  <2>2. CASE ~gt256(r, l)
    <3>1. PICK t : t = CHOOSE table : LoopTable(l, r, table)
      OBVIOUS
    <3>2. divMod256(l, r)
              = [div |-> t[DiffBits(l, r) + 1].div, mod |-> t[DiffBits(l, r) + 1].mod]
      BY <2>2, <3>1, DivisionIsChosen
    <3>3. PICK s : s = t[DiffBits(l, r) + 1]
      OBVIOUS
    <3>4. DivisionInv(s, x, y, -1)
      BY <1>1, <1>2, <2>2, <3>1, <3>3, LoopIsTabled
    <3>5. s.div \in UInt256 /\ s.mod \in UInt256
      BY <3>4 DEF DivisionInv, DivisionState
    <3>6. Value256(s.div) * y + Value256(s.mod) = x
      BY <3>4 DEF DivisionInv, Splits
    <3>7. \A e \in Nat : ~(e <= -1)
      OBVIOUS
    <3>8. Value256(s.mod) < y
      BY <3>4, <3>7 DEF DivisionInv
    <3>9. QED
      BY <3>2, <3>3, <3>5, <3>6, <3>8
  <2>3. QED
    BY <2>1, <2>2
<1>4. PICK u \in UInt256, v \in UInt256 :
          /\ divMod256(l, r) = [div |-> u, mod |-> v]
          /\ Value256(u) * y + Value256(v) = x
          /\ Value256(v) < y
  BY <1>3
<1>5. PICK a \in Nat, b \in 0 .. y - 1 : a = Value256(u) /\ b = Value256(v)
  BY <1>1, <1>4, Value256IsSmall
<1>6. a * y + b = x
  BY <1>4, <1>5
<1>7. Divides(x, y, a, b)
  BY <1>1, <1>6 DEF Divides
<1>8. a = x \div y /\ b = x % y
  BY <1>7, DivisionIs
<1>9. divMod256(l, r).div = u /\ divMod256(l, r).mod = v
  BY <1>4
<1>10. QED
  BY <1>1, <1>5, <1>8, <1>9
============================================================================
