------------------------------ MODULE Amounts ------------------------------
(***************************************************************************)
(* The text of an amount or a fee on the screen (src/transaction.c:        *)
(* txGetFormattedAmount, txGetFormattedFee, adjustDecimals; src/uint256.c: *)
(* uint256ToString).  A number becomes digits in the buffer tmp, one per   *)
(* turn of the loop and the least significant first; the digits are turned *)
(* around, and copied to the caller's buffer with the decimal point.       *)
(*                                                                         *)
(* A character is a digit or the Point.  The code has Base 10, Decimals    *)
(* 18, TmpSize 40, and callers with 40 bytes (BAGL) and more (NBGL).       *)
(***************************************************************************)
EXTENDS Uint256

CONSTANTS
    Base,       \* baseParam of uint256ToString
    Decimals,   \* the decimal places of an FTM
    TmpSize,    \* the size of the buffer for the digits
    OutSizes,   \* the sizes of the buffers the text is made for
    Values,     \* the amounts on the wire: sequences of bytes, as the stream stores them
    Prices,     \* the same, for the price of gas
    Volumes     \* the same, for the volume of gas

ASSUME SizesAssumption ==
    /\ Base \in Nat /\ 2 <= Base /\ Base <= 16 /\ Base < Word
    /\ Decimals \in Nat /\ TmpSize \in Nat \ {0} /\ OutSizes \subseteq Nat

\* Every caller has room for an amount below one FTM, however many its places: the
\* buffers are of 40 bytes and more (get_tx_sign.c), the places are 18.
ASSUME RoomAssumption == \A size \in OutSizes : size > Decimals + 3

ASSUME FieldsAssumption ==
    \A field \in Values \cup Prices \cup Volumes :
        field \in Seq(0 .. Power(2, ByteBits) - 1) /\ Len(field) <= BYTES256

Point == -1

VARIABLES
    phase,      \* "idle", "digits", "adjust", "shown" or "rejected"
    fields,     \* the fields the text is made of: an amount, or a price and a volume
    number,     \* the 256 bit number that is written
    rDiv,       \* what is left of it to write
    tmp,        \* the digits, mirrored
    outSize,    \* the size of the caller's buffer
    out         \* the text in it

avars == <<phase, fields, number, rDiv, tmp, outSize, out>>

Idle ==
    /\ phase = "idle" /\ fields = <<>> /\ number = Zero256 /\ rDiv = Zero256
    /\ tmp = <<>> /\ outSize = 0 /\ out = <<>>

-----------------------------------------------------------------------------
(* uint256ToString *)

Write(n, of) ==
    /\ phase = "idle"
    /\ phase' = "digits"
    /\ fields' = of
    /\ number' = n
    /\ rDiv' = n
    /\ UNCHANGED <<tmp, outSize, out>>

txGetFormattedAmount == \E value \in Values : Write(uint256ConvertBE(value), <<value>>)

txGetFormattedFee ==
    \E price \in Prices, volume \in Volumes :
        Write(mul256(uint256ConvertBE(price), uint256ConvertBE(volume)), <<price, volume>>)

\* HEXDIGITS has a character for each remainder; beyond it lies something else.
HEXDIGITS == 0 .. 15
Beyond    == -2
Digit(remainder) ==
    IF remainder.lower.lower \in HEXDIGITS THEN remainder.lower.lower ELSE Beyond

BaseNumber == Pair(Zero128, Pair(0, Base))

\* Mutant: the last place of the buffer is not used.
MutRunOutOfSpace ==
    /\ phase = "digits"
    /\ Len(tmp) > TmpSize - 2
    /\ phase' = "rejected"
    /\ UNCHANGED <<fields, number, rDiv, tmp, outSize, out>>

\* "we run out of space": uint256ToString returns 0, for which its callers throw.
RunOutOfSpace ==
    /\ phase = "digits"
    /\ Len(tmp) > TmpSize - 1
    /\ phase' = "rejected"
    /\ UNCHANGED <<fields, number, rDiv, tmp, outSize, out>>

\* Mutant: the check against the size of the buffer is dropped.
MutNextDigit ==
    /\ phase = "digits"
    /\ LET division == divMod256(rDiv, BaseNumber)
       IN  /\ tmp' = Append(tmp, Digit(division.mod))
           /\ rDiv' = division.div
           /\ phase' = IF isZero256(division.div) THEN "adjust" ELSE "digits"
    /\ UNCHANGED <<fields, number, outSize, out>>

\* A turn of the loop; at its end the terminator is put after the last digit.
NextDigit ==
    /\ phase = "digits"
    /\ Len(tmp) <= TmpSize - 1
    /\ LET division == divMod256(rDiv, BaseNumber)
       IN  /\ tmp' = Append(tmp, Digit(division.mod))
           /\ rDiv' = division.div
           /\ phase' = IF isZero256(division.div) THEN "adjust" ELSE "digits"
    /\ UNCHANGED <<fields, number, outSize, out>>

stringReverse(s) == [i \in 1 .. Len(s) |-> s[Len(s) + 1 - i]]

-----------------------------------------------------------------------------
(* adjustDecimals *)

Zeroes(n) == [i \in 1 .. n |-> 0]

\* The digits src with the point put in, and leading zeroes if src has too few.
Spread(src) ==
    IF Len(src) <= Decimals
    THEN <<0, Point>> \o Zeroes(Decimals - Len(src)) \o src
    ELSE SubSeq(src, 1, Len(src) - Decimals)
         \o (IF Decimals # 0 THEN <<Point>> ELSE <<>>)
         \o SubSeq(src, Len(src) - Decimals + 1, Len(src))

\* startOffset: the characters before the place where the code looks for zeroes.
StartOffset(src) ==
    IF Len(src) <= Decimals THEN 2 + Decimals - Len(src)
    ELSE IF Decimals # 0 THEN Len(src) - Decimals + 1
    ELSE Len(src)

\* Mutant: the point stays when nothing is left behind it.
MutTrimmed(text, start) ==
    LET keep == CHOOSE k \in start .. Len(text) :
                    /\ \A i \in k + 1 .. Len(text) : text[i] = 0
                    /\ k = start \/ text[k] # 0
    IN  SubSeq(text, 1, keep)

\* Trailing zeroes go, and the point if nothing is left behind it.
Trimmed(text, start) ==
    LET keep == CHOOSE k \in start .. Len(text) :
                    /\ \A i \in k + 1 .. Len(text) : text[i] = 0
                    /\ k = start \/ text[k] # 0
    IN  SubSeq(text, 1, IF keep < Len(text) /\ text[keep] = Point THEN keep - 1 ELSE keep)

\* Mutant: the decimal point is forgotten in the space a text needs.
MutNeeded(src) ==
    IF Len(src) <= Decimals THEN Len(src) + 1 + Decimals - Len(src) ELSE Len(src)

\* The space the code asks for, less one.
Needed(src) ==
    IF Len(src) <= Decimals THEN Len(src) + 1 + 2 + (Decimals - Len(src)) ELSE Len(src) + 1 + 1

\* adjustDecimals throws if the caller's buffer is too small.
Adjustable(src, size) == size > 2 /\ (src = <<0>> \/ size > Needed(src))

\* The caller's buffer is one of those of the screens.
Adjust ==
    /\ phase = "adjust"
    /\ \E size \in OutSizes :
           LET src == stringReverse(tmp)
           IN  /\ outSize' = size
               /\ phase' = IF Adjustable(src, size) THEN "shown" ELSE "rejected"
               /\ out' = IF ~Adjustable(src, size) THEN <<>>
                         ELSE IF src = <<0>> THEN <<0>>
                         ELSE Trimmed(Spread(src), StartOffset(src))
    /\ UNCHANGED <<fields, number, rDiv, tmp>>

\* The caller has shown the text, or the exception has ended the review.
Return ==
    /\ phase \in {"shown", "rejected"}
    /\ phase' = "idle" /\ fields' = <<>> /\ number' = Zero256 /\ rDiv' = Zero256
    /\ tmp' = <<>> /\ outSize' = 0 /\ out' = <<>>

AmountsNext ==
    \/ txGetFormattedAmount
    \/ txGetFormattedFee
    \/ RunOutOfSpace
    \/ NextDigit
    \/ Adjust
    \/ Return

-----------------------------------------------------------------------------
(* Correctness *)

\* Every variable has its type; the digits are those of the base, never what lies
\* beyond HEXDIGITS (uint256ToString).
AmountsTypeOK ==
    /\ phase \in {"idle", "digits", "adjust", "shown", "rejected"}
    /\ fields \in Seq(Values \cup Prices \cup Volumes)
    /\ number \in UInt256 /\ rDiv \in UInt256
    /\ tmp \in Seq(0 .. Base - 1) /\ Len(tmp) <= TmpSize
    /\ outSize \in OutSizes \cup {0}
    /\ out \in Seq(0 .. Base - 1 \cup {Point})

OnWire(field) == Denoted(field, Power(2, ByteBits))

Modulus == Word * Word * Word * Word

(***************************************************************************)
(* An amount is the number on the wire.  A fee is the product of price and *)
(* volume, modulo 2^256, when both fit in a word of 64 bits, and also when *)
(* the column of weight 2^64 has no carry (uint256ConvertBE, mul256).      *)
(***************************************************************************)
NumberIsThatOfTheFields ==
    /\ Len(fields) = 1 => Value256(number) = OnWire(fields[1])
    /\ Len(fields) = 2 =>
           LET price  == OnWire(fields[1])
               volume == OnWire(fields[2])
               third64 == Third64(uint256ConvertBE(fields[1]), uint256ConvertBE(fields[2]))
           IN  \/ Value256(number) = (price * volume) % Modulus
               \/ third64.upper # 0 /\ (price >= Word \/ volume >= Word)

\* Where the point is, or would be.
PointAt(text) ==
    IF \E i \in 1 .. Len(text) : text[i] = Point
    THEN CHOOSE i \in 1 .. Len(text) : text[i] = Point
    ELSE Len(text) + 1

(***************************************************************************)
(* The text on the screen stands for the number, in units of Base^Decimals,*)
(* and is the only one to do so: it has no zero in front of its whole part,*)
(* none at the end of its fraction, and no point without a fraction.       *)
(***************************************************************************)
TextDenotesNumber ==
    phase = "shown" =>
        LET whole    == SubSeq(out, 1, PointAt(out) - 1)
            fraction == SubSeq(out, PointAt(out) + 1, Len(out))
        IN  /\ whole # <<>> /\ Len(fraction) <= Decimals
            /\ Value256(number) =
                   Denoted(whole \o fraction \o Zeroes(Decimals - Len(fraction)), Base)
            /\ Len(whole) > 1 => whole[1] # 0
            /\ fraction = <<>> => PointAt(out) > Len(out)
            /\ fraction # <<>> => fraction[Len(fraction)] # 0

\* A review is not broken off for an amount whose digits leave three characters of
\* the caller's buffer free, and fit the buffer of the digits: only for a larger one.
PayableIsShown ==
    phase = "rejected" =>
        \/ Value256(number) >= Power(Base, TmpSize)
        \/ outSize # 0 /\ Value256(number) >= Power(Base, outSize - 3)

\* What is written into the two buffers, the terminator of the text included and
\* before trailing zeroes are taken off, has room in them; the terminator of the
\* digits is another matter (TerminatorFits).
TextFitsItsBuffer ==
    /\ Len(tmp) <= TmpSize
    /\ phase = "shown" => /\ 2 <= outSize
                          /\ stringReverse(tmp) # <<0>> =>
                                 Len(Spread(stringReverse(tmp))) + 1 <= outSize

\* src/uint256.c: "we run out of space": the text of the digits is refused if it has
\* no room in its buffer, terminator included.
TerminatorFits == phase = "adjust" => Len(tmp) + 1 <= TmpSize

\* src/transaction.c: "calculate the max fee from gas price and available gas
\* volume".  The fee is the product of the two, whenever that has 256 bits.
FeeIsProduct ==
    Len(fields) = 2 =>
        LET fee == OnWire(fields[1]) * OnWire(fields[2])
        IN  fee < Modulus => Value256(number) = fee
============================================================================
