------------------------------ MODULE Uint256 ------------------------------
(***************************************************************************)
(* The 256 bit numbers of src/uint256.c.  A number is a pair of halves,    *)
(* upper and lower; the halves of a 256 bit number are 128 bit numbers,    *)
(* those of a 128 bit number are words of 64 bits.  Arithmetic on words    *)
(* wraps, as it does in C, and everything else is built from it.           *)
(*                                                                         *)
(* The size of a word is a parameter.  The names keep the 64, 128 and 256  *)
(* of the code whatever the size: in the code, Half is 2^32, a byte 8 bits.*)
(*                                                                         *)
(* Some operations of the code are called with the same number as operand  *)
(* and as target.  Each of them reads a half before it writes it, but for  *)
(* shiftRight128 by exactly one word, which nobody calls in place; so the  *)
(* operators return the target.                                            *)
(***************************************************************************)
EXTENDS Numerals

CONSTANTS
    Half,       \* the number of values of half a word
    HalfBits,   \* the bits of half a word
    ByteBits    \* the bits of a byte of the wire

ASSUME HalfAssumption == Half \in Nat /\ Half >= 2

ASSUME BitsAssumption ==
    /\ HalfBits \in Nat \ {0} /\ Half = Power(2, HalfBits)
    /\ ByteBits \in Nat \ {0} /\ (2 * HalfBits) % ByteBits = 0

Word == Half * Half

Bits64  == 2 * HalfBits
Bits128 == 2 * Bits64
Bits256 == 2 * Bits128

Word64  == 0 .. Word - 1
UInt128 == [upper : Word64, lower : Word64]
UInt256 == [upper : UInt128, lower : UInt128]

Pair(upper, lower) == [upper |-> upper, lower |-> lower]

Zero128 == Pair(0, 0)
One128  == Pair(0, 1)
Zero256 == Pair(Zero128, Zero128)
One256  == Pair(Zero128, One128)

isZero128(n) == n.lower = 0 /\ n.upper = 0
isZero256(n) == isZero128(n.lower) /\ isZero128(n.upper)

\* The numbers they stand for.
Value128(n) == n.upper * Word + n.lower
Value256(n) == Value128(n.upper) * (Word * Word) + Value128(n.lower)

-----------------------------------------------------------------------------
(* Shifts *)

\* << and >> on a word, for 0 <= k < Bits64.
Shl(w, k) == (w * Power(2, k)) % Word
Shr(w, k) == w \div Power(2, k)

shiftLeft128(n, k) ==
    CASE k >= Bits128               -> Zero128
      [] k = Bits64                 -> Pair(n.lower, 0)
      [] k = 0                      -> n
      [] 0 < k /\ k < Bits64        ->
             Pair((Shl(n.upper, k) + Shr(n.lower, Bits64 - k)) % Word, Shl(n.lower, k))
      [] Bits64 < k /\ k < Bits128  -> Pair(Shl(n.lower, k - Bits64), 0)

shiftRight128(n, k) ==
    CASE k >= Bits128               -> Zero128
      [] k = Bits64                 -> Pair(0, n.upper)
      [] k = 0                      -> n
      [] 0 < k /\ k < Bits64        ->
             Pair(Shr(n.upper, k), (Shl(n.upper, Bits64 - k) + Shr(n.lower, k)) % Word)
      [] Bits64 < k /\ k < Bits128  -> Pair(0, Shr(n.upper, k - Bits64))

-----------------------------------------------------------------------------
(* Comparison *)

gt128(a, b) == IF a.upper = b.upper THEN a.lower > b.lower ELSE a.upper > b.upper
gt256(a, b) ==
    IF a.upper = b.upper THEN gt128(a.lower, b.lower) ELSE gt128(a.upper, b.upper)
gte256(a, b) == gt256(a, b) \/ a = b

-----------------------------------------------------------------------------
(* Sums and differences: a carry shows in a sum that is less than an operand *)

add128(a, b) ==
    LET carry == IF (a.lower + b.lower) % Word < a.lower THEN 1 ELSE 0
    IN  Pair((a.upper + b.upper + carry) % Word, (a.lower + b.lower) % Word)

minus128(a, b) ==
    LET borrow == IF (a.lower - b.lower) % Word > a.lower THEN 1 ELSE 0
    IN  Pair((a.upper - b.upper - borrow) % Word, (a.lower - b.lower) % Word)

add256(a, b) ==
    LET lower == add128(a.lower, b.lower)
        upper == add128(a.upper, b.upper)
    IN  Pair(IF gt128(a.lower, lower) THEN add128(upper, One128) ELSE upper, lower)

minus256(a, b) ==
    LET lower == minus128(a.lower, b.lower)
        upper == minus128(a.upper, b.upper)
    IN  Pair(IF gt128(lower, a.lower) THEN minus128(upper, One128) ELSE upper, lower)

shiftLeft256(n, k) ==
    CASE k >= Bits256               -> Zero256
      [] k = Bits128                -> Pair(n.lower, Zero128)
      [] k = 0                      -> n
      [] 0 < k /\ k < Bits128       ->
             Pair(add128(shiftLeft128(n.upper, k), shiftRight128(n.lower, Bits128 - k)),
                  shiftLeft128(n.lower, k))
      [] Bits128 < k /\ k < Bits256 -> Pair(shiftLeft128(n.lower, k - Bits128), Zero128)

shiftRight256(n, k) ==
    CASE k >= Bits256               -> Zero256
      [] k = Bits128                -> Pair(Zero128, n.upper)
      [] k = 0                      -> n
      [] 0 < k /\ k < Bits128       ->
             Pair(shiftRight128(n.upper, k),
                  add128(shiftRight128(n.lower, k), shiftLeft128(n.upper, Bits128 - k)))
      [] Bits128 < k /\ k < Bits256 -> Pair(Zero128, shiftRight128(n.upper, k - Bits128))

-----------------------------------------------------------------------------
(* Products, in columns: digit i of one operand times digit j of the other *)

Digits == 0 .. 3

\* The digits of a number, the most significant first, as top and bottom hold them.
HalvesOf(n) ==
    <<n.upper \div Half, n.upper % Half, n.lower \div Half, n.lower % Half>>
WordsOf(n) == <<n.upper.upper, n.upper.lower, n.lower.upper, n.lower.lower>>

(***************************************************************************)
(* products[i][y] is the product of the (i+1)th digit of the first operand *)
(* counted from the right and the digit y of the second counted from the   *)
(* left.  A column adds the low and the high halves of equal weight, lo    *)
(* and hi.                                                                 *)
(***************************************************************************)
SecondColumn(lo, hi) == lo[0][2] + hi[0][3] + lo[1][3]
ThirdColumn(lo, hi) ==
    lo[0][1] + hi[0][2] + lo[1][2] + hi[1][3] + lo[2][3]
FourthColumn(lo, hi) ==
    lo[0][0] + hi[0][1] + lo[1][1] + hi[1][2] + lo[2][2] + hi[2][3] + lo[3][3]

mul128(a, b) ==
    LET top       == HalvesOf(a)
        bottom    == HalvesOf(b)
        lo        == [i \in Digits |-> [y \in Digits |-> (top[4 - i] * bottom[y + 1]) % Half]]
        hi        == [i \in Digits |-> [y \in Digits |-> (top[4 - i] * bottom[y + 1]) \div Half]]
        third32   == SecondColumn(lo, hi)
        second32  == ThirdColumn(lo, hi) % Word
        first32   == FourthColumn(lo, hi) % Word
        twoHigh   == add128(Pair((first32 * Half) % Word, 0),
                            Pair(third32 \div Half, (third32 * Half) % Word))
    IN  add128(Pair(0, lo[0][3]), add128(Pair(second32, 0), twoHigh))

\* A sum of words in a 128 bit number.
Sum128(x) == Pair((x \div Word) % Word, x % Word)

ProductsOfWords(a, b) ==
    [i \in Digits |-> [y \in Digits |->
        mul128(Pair(0, WordsOf(a)[4 - i]), Pair(0, WordsOf(b)[y + 1]))]]

LowOf(products)  == [i \in Digits |-> [y \in Digits |-> products[i][y].lower]]
HighOf(products) == [i \in Digits |-> [y \in Digits |-> products[i][y].upper]]

\* third64 of mul256: the column of weight 2^64.
Third64(a, b) ==
    LET products == ProductsOfWords(a, b)
    IN  Sum128(SecondColumn(LowOf(products), HighOf(products)))

\* The column of weight 2^64 has a carry, which the code adds at 2^192, not at 2^128.
mul256(a, b) ==
    LET products == ProductsOfWords(a, b)
        lo       == LowOf(products)
        hi       == HighOf(products)
        third64  == Third64(a, b)
        second64 == Sum128(ThirdColumn(lo, hi))
        first64  == Sum128(FourthColumn(lo, hi))
        target1  == Pair(shiftLeft128(first64, Bits64), Zero128)
        target2  == Pair(Pair(third64.upper, 0), shiftLeft128(third64, Bits64))
    IN  add256(Pair(Zero128, Pair(0, lo[0][3])),
               add256(Pair(second64, Zero128), add256(target1, target2)))

-----------------------------------------------------------------------------
(* Quotients *)

\* bits128, bits256: how often a number can be halved until nothing is left.
bits256(n) ==
    LET halved[k \in 0 .. Bits256] ==
            IF k = 0 THEN n ELSE shiftRight256(halved[k - 1], 1)
    IN  CHOOSE k \in 0 .. Bits256 :
            isZero256(halved[k]) /\ \A j \in 0 .. k - 1 : ~isZero256(halved[j])

or64(v, w) ==
    LET bits[k \in 0 .. Bits64] ==
            IF k = 0 THEN 0
            ELSE bits[k - 1]
                 + IF Shr(v, k - 1) % 2 = 1 \/ Shr(w, k - 1) % 2 = 1 THEN Power(2, k - 1) ELSE 0
    IN  bits[Bits64]
or128(a, b) == Pair(or64(a.upper, b.upper), or64(a.lower, b.lower))
or256(a, b) == Pair(or128(a.upper, b.upper), or128(a.lower, b.lower))

\* Halve the shifted divisor and the bit of the quotient it stands for.
Halve(s) == [s EXCEPT !.copyD = shiftRight256(@, 1), !.adder = shiftRight256(@, 1)]

\* One turn of the loop: subtract the shifted divisor if it fits.
DivisionTurn(s) ==
    Halve(IF gte256(s.mod, s.copyD)
          THEN [s EXCEPT !.mod = minus256(@, s.copyD), !.div = or256(@, s.adder)]
          ELSE s)

(***************************************************************************)
(* divMod256, for r # 0: quotient and remainder by shifting and            *)
(* subtracting.  The loop has at most one turn per bit of the quotient.    *)
(***************************************************************************)
divMod256(l, r) ==
    LET diffBits == bits256(l) - bits256(r)
        aligned  == [copyD |-> shiftLeft256(r, diffBits), adder |-> shiftLeft256(One256, diffBits),
                     div |-> Zero256, mod |-> l]
        start    == IF gt256(aligned.copyD, l) THEN Halve(aligned) ELSE aligned
        loop[k \in 0 .. diffBits + 1] ==
            IF k = 0 THEN start
            ELSE IF gte256(loop[k - 1].mod, r) THEN DivisionTurn(loop[k - 1])
            ELSE loop[k - 1]
    IN  IF gt256(r, l)
        THEN [div |-> Zero256, mod |-> l]
        ELSE [div |-> loop[diffBits + 1].div, mod |-> loop[diffBits + 1].mod]

-----------------------------------------------------------------------------
(* From the wire *)

BytesPerWord == Bits64 \div ByteBits
BYTES256     == 4 * BytesPerWord

\* readUint64BE, of the bytes from position at on.
readUint64BE(buffer, at) ==
    Denoted([k \in 1 .. BytesPerWord |-> buffer[at + k - 1]], Power(2, ByteBits))

readUint128BE(buffer, at) ==
    Pair(readUint64BE(buffer, at), readUint64BE(buffer, at + BytesPerWord))

\* Mutant: the bytes are not moved to the right end.
MutPadded(data) == [i \in 1 .. BYTES256 |-> IF i <= Len(data) THEN data[i] ELSE 0]

\* A shorter value is padded with zeroes on its left.
Padded(data) ==
    LET pad == BYTES256 - Len(data)
    IN  [i \in 1 .. BYTES256 |-> IF i <= pad THEN 0 ELSE data[i - pad]]

\* uint256ConvertBE, for data no longer than a 256 bit number.
uint256ConvertBE(data) ==
    Pair(readUint128BE(Padded(data), 1), readUint128BE(Padded(data), 1 + 2 * BytesPerWord))
============================================================================
